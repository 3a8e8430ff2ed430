------------------------ MODULE CompilerScopesProofs ------------------------
(***************************************************************************)
(* Proofs about CompilerScopes, for any identifiers and any bounds.        *)
(*                                                                         *)
(* The inductive invariant is Places: the chunks, the open scopes and the  *)
(* captured variables are Sound.  A variable is known by its position in   *)
(* Env, Base(k) + i for the i-th local of the k-th function, and the open  *)
(* scopes cut Env into consecutive pieces, one for each scope_depth.  So   *)
(* counting depths down is the same as cutting Env short.                  *)
(***************************************************************************)
EXTENDS CompilerScopes, SequenceTheorems, FiniteSetTheorems, WellFoundedInduction, TLAPS

-----------------------------------------------------------------------------
(* Numbers and sequences *)

LEMMA LeastElement ==
  ASSUME NEW B \in SUBSET Nat, B # {}
  PROVE  \E m \in B : \A n \in B : m <= n
<1> DEFINE R == {ss \in Nat \X Nat : ss[1] < ss[2]}
<1>1. IsWellFoundedOn(R, Nat)
  BY NatLessThanWellFounded DEF OpToRel
<1>2. \A m, n \in Nat : n < m => <<n, m>> \in R
  OBVIOUS
<1>. HIDE DEF R
<1>3. \E m \in B : \A n \in B : ~ (<<n, m>> \in R)
  BY <1>1, WFMin
<1>4. PICK m \in B : \A n \in B : ~ (<<n, m>> \in R)
  BY <1>3
<1>5. \A n \in B : ~ (n < m)
  BY <1>2, <1>4
<1>. QED
  BY <1>5

(* Steps of one reach every number up to a bound. *)
LEMMA StepByStep ==
  ASSUME NEW n \in Nat, NEW B, 0 \in B, \A k \in 0 .. n : k \in B /\ k < n => k + 1 \in B
  PROVE  0 .. n \subseteq B
<1>1. SUFFICES ASSUME (0 .. n) \ B # {} PROVE FALSE
  OBVIOUS
<1>2. PICK m \in (0 .. n) \ B : \A k \in (0 .. n) \ B : m <= k
  <2>1. (0 .. n) \ B \in SUBSET Nat
    OBVIOUS
  <2>. QED
    BY <1>1, <2>1, LeastElement
<1>3. m # 0 /\ m - 1 \in 0 .. n /\ m - 1 < n
  BY <1>2
<1>4. m - 1 \in B
  BY <1>2, <1>3
<1>. QED
  BY <1>2, <1>3, <1>4

LEMMA MinFacts ==
  ASSUME NEW B \in SUBSET Nat, B # {}
  PROVE  Min(B) \in B /\ \A n \in B : Min(B) <= n
BY LeastElement DEF Min

LEMMA MaxFacts ==
  ASSUME NEW n \in Nat, NEW B \in SUBSET (0 .. n), B # {}
  PROVE  Max(B) \in B /\ \A k \in B : k <= Max(B)
<1> DEFINE C == {n - k : k \in B}
<1>1. C \in SUBSET Nat /\ C # {}
  OBVIOUS
<1>. HIDE DEF C
<1>2. PICK c \in C : \A d \in C : c <= d
  BY <1>1, LeastElement
<1>3. PICK m \in B : c = n - m
  BY DEF C
<1>4. \A k \in B : m >= k
  <2>1. ASSUME NEW k \in B PROVE m >= k
    <3>1. n - k \in C
      BY DEF C
    <3>2. c <= n - k
      BY <1>2, <3>1
    <3>. QED
      BY <1>3, <3>2
  <2>. QED
    BY <2>1
<1>5. Max(B) \in B /\ \A k \in B : Max(B) >= k
  BY <1>4 DEF Max
<1>. QED
  BY <1>5

(* What the searches of the compiler return. *)
LEMMA SelectFirstFacts ==
  ASSUME NEW n \in Nat, NEW I \in SUBSET (1 .. n),
         NEW k, k = IF I # {} THEN Min(I) ELSE 0
  PROVE  /\ k \in 0 .. n
         /\ k = 0 <=> I = {}
         /\ k # 0 => k \in I /\ \A i \in I : k <= i
<1>1. I \in SUBSET Nat
  OBVIOUS
<1>2. CASE I = {}
  BY <1>2
<1>3. CASE I # {}
  <2>1. k \in I /\ \A i \in I : k <= i
    BY <1>1, <1>3, MinFacts
  <2>. QED
    BY <1>3, <2>1
<1>. QED
  BY <1>2, <1>3

LEMMA SelectLastFacts ==
  ASSUME NEW n \in Nat, NEW I \in SUBSET (1 .. n),
         NEW k, k = IF I # {} THEN Max(I) ELSE 0
  PROVE  /\ k \in 0 .. n
         /\ k = 0 <=> I = {}
         /\ k # 0 => k \in I /\ \A i \in I : i <= k
<1>1. I \in SUBSET (0 .. n)
  OBVIOUS
<1>2. CASE I = {}
  BY <1>2
<1>3. CASE I # {}
  <2>1. k \in I /\ \A i \in I : i <= k
    BY <1>1, <1>3, MaxFacts
  <2>. QED
    BY <1>3, <2>1
<1>. QED
  BY <1>2, <1>3

LEMMA FrontLast ==
  ASSUME NEW S, NEW s \in Seq(S), s # <<>>
  PROVE  /\ Len(s) \in Nat \ {0} /\ s[Len(s)] \in S
         /\ Last(s) = s[Len(s)]
         /\ Front(s) \in Seq(S) /\ Len(Front(s)) = Len(s) - 1
         /\ \A i \in 1 .. Len(s) - 1 : Front(s)[i] = s[i]
         /\ s = Append(Front(s), s[Len(s)])
<1>1. Len(s) \in Nat \ {0} /\ s[Len(s)] \in S
  OBVIOUS
<1>2. Front(s) \in Seq(S) /\ Len(Front(s)) = Len(s) - 1
      /\ \A i \in 1 .. Len(s) - 1 : Front(s)[i] = s[i]
  BY <1>1, SubSeqProperties DEF Front
<1>3. s = Append(Front(s), s[Len(s)])
  BY <1>1, <1>2
<1>. QED
  BY <1>1, <1>2, <1>3 DEF Last

-----------------------------------------------------------------------------
(* FlattenSeq, ScopesOf, MeaningOf and TrackUpvalue are recursive functions: *)
(* each has a solution, built number by number, and its equation is what    *)
(* the rest of the proofs use.                                              *)

LEMMA FlattenUnfolds ==
  ASSUME NEW S, NEW s \in Seq(Seq(S)), s # <<>>
  PROVE  \E f : /\ f[1] = s[1]
                /\ \A i \in 2 .. Len(s) : f[i] = f[i - 1] \o s[i]
                /\ FlattenSeq(s) = f[Len(s)]
<1> DEFINE Solves(m, f) == f = [i \in 1 .. m |-> IF i = 1 THEN s[i] ELSE f[i - 1] \o s[i]]
           B == {m \in 0 .. Len(s) : \E f : Solves(m, f)}
<1>1. Len(s) \in Nat \ {0}
  OBVIOUS
<1>2. 0 \in B
  <2>1. PICK f : f = [i \in 1 .. 0 |-> s[i]]
    OBVIOUS
  <2>2. Solves(0, f)
    BY <2>1
  <2>3. 0 \in 0 .. Len(s)
    BY <1>1
  <2>. QED
    BY <2>2, <2>3
<1>3. ASSUME NEW m \in 0 .. Len(s), m \in B, m < Len(s)
      PROVE  m + 1 \in B
  <2>1. PICK f : Solves(m, f)
    BY <1>3
  <2>2. PICK g : g = [i \in 1 .. m + 1 |-> IF i = m + 1 THEN (IF i = 1 THEN s[i] ELSE f[i - 1] \o s[i]) ELSE f[i]]
    OBVIOUS
  <2>3. ASSUME NEW i \in 1 .. m + 1
        PROVE  g[i] = IF i = 1 THEN s[i] ELSE g[i - 1] \o s[i]
    <3>1. CASE i = m + 1
      BY <1>1, <1>3, <2>2, <3>1
    <3>2. CASE i # m + 1
      <4>1. i \in 1 .. m /\ (i # 1 => i - 1 \in 1 .. m)
        BY <1>1, <1>3, <3>2
      <4>2. g[i] = f[i] /\ (i # 1 => g[i - 1] = f[i - 1])
        BY <1>1, <1>3, <2>2, <3>2, <4>1
      <4>. QED
        BY <2>1, <4>1, <4>2
    <3>. QED
      BY <3>1, <3>2
  <2>4. Solves(m + 1, g)
    BY <2>2, <2>3
  <2>5. m + 1 \in 0 .. Len(s)
    BY <1>1, <1>3
  <2>. QED
    BY <2>4, <2>5
<1>4. Len(s) \in B
  <2>. HIDE DEF B
  <2>1. 0 .. Len(s) \subseteq B
    BY <1>1, <1>2, <1>3, StepByStep
  <2>. QED
    BY <1>1, <2>1
<1>5. \E f : Solves(Len(s), f)
  BY <1>4
<1>6. PICK f : f = CHOOSE g : Solves(Len(s), g)
  OBVIOUS
<1>7. Solves(Len(s), f)
  BY <1>5, <1>6
<1>8. FlattenSeq(s) = f[Len(s)]
  BY <1>1, <1>6 DEF FlattenSeq
<1>9. \A i \in 1 .. Len(s) : f[i] = IF i = 1 THEN s[i] ELSE f[i - 1] \o s[i]
  BY <1>7
<1>10. f[1] = s[1]
  <2>1. 1 \in 1 .. Len(s)
    BY <1>1
  <2>. QED
    BY <1>9, <2>1
<1>11. ASSUME NEW i \in 2 .. Len(s)
       PROVE  f[i] = f[i - 1] \o s[i]
  <2>1. i \in 1 .. Len(s) /\ i # 1
    BY <1>1
  <2>2. f[i] = IF i = 1 THEN s[i] ELSE f[i - 1] \o s[i]
    BY <1>9, <2>1
  <2>. QED
    BY <2>1, <2>2
<1>. QED
  BY <1>8, <1>10, <1>11

LEMMA FlattenAppend ==
  ASSUME NEW S, NEW s \in Seq(Seq(S)), NEW t \in Seq(S)
  PROVE  FlattenSeq(Append(s, t)) = FlattenSeq(s) \o t /\ FlattenSeq(s) \in Seq(S)
<1> DEFINE u == Append(s, t)
<1>1. u \in Seq(Seq(S)) /\ u # <<>> /\ Len(s) \in Nat /\ Len(u) = Len(s) + 1 /\ u[Len(u)] = t
      /\ \A i \in 1 .. Len(s) : u[i] = s[i]
  BY AppendProperties
<1>. HIDE DEF u
<1>2. PICK g : /\ g[1] = u[1]
               /\ \A i \in 2 .. Len(u) : g[i] = g[i - 1] \o u[i]
               /\ FlattenSeq(u) = g[Len(u)]
  BY <1>1, FlattenUnfolds
<1>3. CASE s = <<>>
  <2>1. FlattenSeq(s) = <<>>
    BY <1>3 DEF FlattenSeq
  <2>2. Len(u) = 1 /\ FlattenSeq(u) = t
    BY <1>1, <1>2, <1>3
  <2>. QED
    BY <2>1, <2>2 DEF u
<1>4. CASE s # <<>>
  <2>1. PICK f : /\ f[1] = s[1]
                 /\ \A i \in 2 .. Len(s) : f[i] = f[i - 1] \o s[i]
                 /\ FlattenSeq(s) = f[Len(s)]
    BY <1>4, FlattenUnfolds
  <2> DEFINE B == {i \in 0 .. Len(s) : i = 0 \/ (f[i] = g[i] /\ f[i] \in Seq(S))}
  <2>2. 0 \in B
    BY <1>1
  <2>3. ASSUME NEW i \in 0 .. Len(s), i \in B, i < Len(s)
        PROVE  i + 1 \in B
    <3>1. i + 1 \in 1 .. Len(s) /\ u[i + 1] = s[i + 1] /\ s[i + 1] \in Seq(S)
      BY <1>1, <2>3
    <3>2. CASE i = 0
      BY <1>1, <1>2, <2>1, <3>1, <3>2
    <3>3. CASE i # 0
      <4>1. f[i] = g[i] /\ f[i] \in Seq(S) /\ (i + 1) - 1 = i /\ i + 1 \in 2 .. Len(s)
            /\ i + 1 \in 2 .. Len(u)
        BY <1>1, <2>3, <3>3
      <4>2. f[i + 1] = f[i] \o s[i + 1] /\ g[i + 1] = g[i] \o u[i + 1]
        BY <1>2, <2>1, <4>1
      <4>3. f[i + 1] = g[i + 1] /\ f[i + 1] \in Seq(S)
        BY <3>1, <4>1, <4>2
      <4>. QED
        BY <2>3, <3>1, <4>3
    <3>. QED
      BY <3>2, <3>3
  <2>4. Len(s) \in B
    <3>. HIDE DEF B
    <3>1. 0 .. Len(s) \subseteq B
      BY <1>1, <2>2, <2>3, StepByStep
    <3>. QED
      BY <1>1, <3>1
  <2>5. Len(s) # 0
    BY <1>4
  <2>6. f[Len(s)] = g[Len(s)] /\ f[Len(s)] \in Seq(S)
    BY <2>4, <2>5
  <2>7. Len(u) \in 2 .. Len(u) /\ Len(u) - 1 = Len(s)
    BY <1>1, <2>5
  <2>8. g[Len(u)] = g[Len(s)] \o t
    BY <1>1, <1>2, <2>7
  <2>. QED
    BY <1>2, <2>1, <2>6, <2>8 DEF u
<1>. QED
  BY <1>3, <1>4

(* A function with the elements of a sequence is that sequence. *)
LEMMA SameSequence ==
  ASSUME NEW S, NEW s \in Seq(S), NEW f, f = [k \in 1 .. Len(s) |-> f[k]],
         \A k \in 1 .. Len(s) : f[k] = s[k]
  PROVE  f = s
<1>1. s = [k \in 1 .. Len(s) |-> s[k]]
  OBVIOUS
<1>2. [k \in 1 .. Len(s) |-> s[k]] = [k \in 1 .. Len(s) |-> f[k]]
  OBVIOUS
<1>. QED
  BY <1>1, <1>2

(* The chunks of the functions and the constructs are sequences too. *)
FunctionChunk == [tracked_locals : Seq(TrackedLocal), tracked_upvalues : Seq(TrackedUpvalue)]

LEMMA ConcatFacts ==
  ASSUME NEW S, NEW s \in Seq(S), NEW t \in Seq(S), NEW u, u = s \o t
  PROVE  /\ u \in Seq(S) /\ Len(u) = Len(s) + Len(t)
         /\ Len(s) \in Nat /\ Len(t) \in Nat
         /\ \A p \in 1 .. Len(s) : u[p] = s[p]
         /\ \A i \in 1 .. Len(t) : u[Len(s) + i] = t[i]
OBVIOUS

LEMMA LocalFields ==
  ASSUME NEW l \in TrackedLocal
  PROVE  /\ l.name \in Name /\ l.depth \in Nat
         /\ l.initialized \in BOOLEAN /\ l.is_captured \in BOOLEAN
BY DEF TrackedLocal

LEMMA NamesOfFacts ==
  ASSUME NEW chunk \in FunctionChunk
  PROVE  /\ chunk.tracked_locals \in Seq(TrackedLocal)
         /\ chunk.tracked_upvalues \in Seq(TrackedUpvalue)
         /\ NamesOf(chunk) \in Seq(Name)
         /\ Len(NamesOf(chunk)) = Len(chunk.tracked_locals)
         /\ DOMAIN NamesOf(chunk) = DOMAIN chunk.tracked_locals
         /\ DOMAIN chunk.tracked_locals = 1 .. Len(chunk.tracked_locals)
         /\ Len(chunk.tracked_locals) \in Nat
         /\ \A i \in DOMAIN chunk.tracked_locals :
              NamesOf(chunk)[i] = chunk.tracked_locals[i].name
<1>1. chunk.tracked_locals \in Seq(TrackedLocal) /\ chunk.tracked_upvalues \in Seq(TrackedUpvalue)
  BY DEF FunctionChunk
<1>2. PICK locals : locals = chunk.tracked_locals
  OBVIOUS
<1>3. /\ locals \in Seq(TrackedLocal) /\ DOMAIN locals = 1 .. Len(locals) /\ Len(locals) \in Nat
      /\ \A i \in DOMAIN locals : locals[i].name \in Name
  BY <1>1, <1>2, LocalFields
<1>4. NamesOf(chunk) = [i \in 1 .. Len(locals) |-> locals[i].name]
  BY <1>2, <1>3 DEF NamesOf
<1>5. NamesOf(chunk) \in Seq(Name) /\ Len(NamesOf(chunk)) = Len(locals)
  BY <1>3, <1>4
<1>. QED
  BY <1>1, <1>2, <1>3, <1>4, <1>5

LEMMA EnvEmpty == EnvOf(<<>>) = <<>>
<1>1. [k \in DOMAIN <<>> |-> NamesOf(<<>>[k])] = <<>>
  OBVIOUS
<1>2. FlattenSeq(<<>>) = <<>>
  BY DEF FlattenSeq
<1>. QED
  BY <1>1, <1>2 DEF EnvOf

LEMMA EnvAppend ==
  ASSUME NEW chunks \in Seq(FunctionChunk), NEW chunk \in FunctionChunk
  PROVE  /\ EnvOf(chunks) \in Seq(Name)
         /\ EnvOf(Append(chunks, chunk)) = EnvOf(chunks) \o NamesOf(chunk)
<1> DEFINE names == [k \in DOMAIN chunks |-> NamesOf(chunks[k])]
           more == Append(chunks, chunk)
<1>1. names \in Seq(Seq(Name)) /\ Len(names) = Len(chunks) /\ Len(chunks) \in Nat
  <2>1. \A k \in 1 .. Len(chunks) : NamesOf(chunks[k]) \in Seq(Name)
    BY NamesOfFacts
  <2>2. names = [k \in 1 .. Len(chunks) |-> NamesOf(chunks[k])] /\ Len(chunks) \in Nat
    OBVIOUS
  <2>. QED
    BY <2>1, <2>2
<1>2. NamesOf(chunk) \in Seq(Name)
  BY NamesOfFacts
<1>3. [k \in DOMAIN more |-> NamesOf(more[k])] = Append(names, NamesOf(chunk))
  <2>1. /\ DOMAIN more = 1 .. Len(chunks) + 1 /\ more[Len(chunks) + 1] = chunk
        /\ \A k \in 1 .. Len(chunks) : more[k] = chunks[k]
    BY AppendProperties
  <2>2. Append(names, NamesOf(chunk)) \in Seq(Seq(Name))
        /\ Len(Append(names, NamesOf(chunk))) = Len(chunks) + 1
        /\ Append(names, NamesOf(chunk))[Len(chunks) + 1] = NamesOf(chunk)
        /\ \A k \in 1 .. Len(chunks) : Append(names, NamesOf(chunk))[k] = NamesOf(chunks[k])
    BY <1>1, <1>2, AppendProperties
  <2>. HIDE DEF names, more
  <2>3. DOMAIN Append(names, NamesOf(chunk)) = 1 .. Len(chunks) + 1
    BY <2>2
  <2>4. \A k \in 1 .. Len(chunks) + 1 : NamesOf(more[k]) = Append(names, NamesOf(chunk))[k]
    BY <1>1, <2>1, <2>2
  <2> DEFINE f == [k \in DOMAIN more |-> NamesOf(more[k])]
             t == Append(names, NamesOf(chunk))
  <2>5. f = [k \in 1 .. Len(t) |-> f[k]] /\ \A k \in 1 .. Len(t) : f[k] = t[k]
    BY <2>1, <2>2, <2>4
  <2>6. t \in Seq(Seq(Name))
    BY <2>2
  <2>. HIDE DEF f, t
  <2>7. f = t
    BY <2>5, <2>6, SameSequence
  <2>. QED
    BY <2>7 DEF f, t
<1>4. EnvOf(more) = FlattenSeq(Append(names, NamesOf(chunk))) /\ EnvOf(chunks) = FlattenSeq(names)
  BY <1>3 DEF EnvOf
<1>5. EnvOf(more) = EnvOf(chunks) \o NamesOf(chunk) /\ EnvOf(chunks) \in Seq(Name)
  <2>. HIDE DEF names, more
  <2>. QED
    BY <1>1, <1>2, <1>4, FlattenAppend
<1>. QED
  BY <1>5

LEMMA ScopesAppend ==
  ASSUME NEW ns \in Seq(Construct), NEW c \in Construct
  PROVE  /\ ScopesOf(ns) \in Seq(Construct)
         /\ ScopesOf(<<>>) = <<>>
         /\ c.kind \in {"var", "class"} => ScopesOf(Append(ns, c)) = ScopesOf(ns)
         /\ c.kind \notin {"var", "class"} => ScopesOf(Append(ns, c)) = Append(ScopesOf(ns), c)
<1> DEFINE Own(d) == IF d.kind \in {"var", "class"} THEN <<>> ELSE <<d>>
           own == [i \in DOMAIN ns |-> Own(ns[i])]
           more == Append(ns, c)
<1>1. \A d \in Construct : Own(d) \in Seq(Construct)
  OBVIOUS
<1>2. own \in Seq(Seq(Construct)) /\ Len(own) = Len(ns) /\ Len(ns) \in Nat
      /\ \A k \in 1 .. Len(ns) : own[k] = Own(ns[k])
  <2>. HIDE DEF Own
  <2>1. own = [i \in 1 .. Len(ns) |-> Own(ns[i])] /\ Len(ns) \in Nat
    OBVIOUS
  <2>2. \A i \in 1 .. Len(ns) : Own(ns[i]) \in Seq(Construct)
    BY <1>1
  <2>. QED
    BY <2>1, <2>2
<1>3. [i \in DOMAIN more |-> Own(more[i])] = Append(own, Own(c))
  <2>1. /\ DOMAIN more = 1 .. Len(ns) + 1 /\ more[Len(ns) + 1] = c
        /\ \A k \in 1 .. Len(ns) : more[k] = ns[k]
    BY AppendProperties
  <2>. HIDE DEF Own, own, more
  <2>2. /\ Append(own, Own(c)) \in Seq(Seq(Construct))
        /\ Len(Append(own, Own(c))) = Len(ns) + 1
        /\ Append(own, Own(c))[Len(ns) + 1] = Own(c)
        /\ \A k \in 1 .. Len(ns) : Append(own, Own(c))[k] = own[k]
    BY <1>1, <1>2, AppendProperties
  <2>3. DOMAIN Append(own, Own(c)) = 1 .. Len(ns) + 1
    BY <2>2
  <2>4. \A k \in 1 .. Len(ns) + 1 : Own(more[k]) = Append(own, Own(c))[k]
    BY <1>2, <2>1, <2>2
  <2> DEFINE f == [k \in DOMAIN more |-> Own(more[k])]
             t == Append(own, Own(c))
  <2>5. f = [k \in 1 .. Len(t) |-> f[k]] /\ \A k \in 1 .. Len(t) : f[k] = t[k]
    BY <2>1, <2>2, <2>4
  <2>6. t \in Seq(Seq(Construct))
    BY <2>2
  <2>. HIDE DEF f, t
  <2>7. f = t
    BY <2>5, <2>6, SameSequence
  <2>. QED
    BY <2>7 DEF f, t
<1>4. ScopesOf(more) = FlattenSeq(Append(own, Own(c))) /\ ScopesOf(ns) = FlattenSeq(own)
  BY <1>3 DEF ScopesOf
<1>5. ScopesOf(more) = ScopesOf(ns) \o Own(c) /\ ScopesOf(ns) \in Seq(Construct)
  <2>. HIDE DEF own, more, Own
  <2>. QED
    BY <1>1, <1>2, <1>4, FlattenAppend
<1>6. ScopesOf(<<>>) = <<>>
  <2>1. [i \in DOMAIN <<>> |-> Own(<<>>[i])] = <<>>
    OBVIOUS
  <2>2. FlattenSeq(<<>>) = <<>>
    BY DEF FlattenSeq
  <2>. QED
    BY <2>1, <2>2 DEF ScopesOf
<1>7. ScopesOf(ns) \o <<>> = ScopesOf(ns) /\ ScopesOf(ns) \o <<c>> = Append(ScopesOf(ns), c)
  BY <1>5, AppendIsConcat, ConcatEmptySeq
<1>. QED
  BY <1>5, <1>6, <1>7

-----------------------------------------------------------------------------
(* Where the variables are: Base is how many are in scope around the k-th   *)
(* function, so that its i-th local is at Base + i.                         *)
Base(chunks, k) == Len(EnvOf(SubSeq(chunks, 1, k - 1)))
Locals(chunks, k) == chunks[k].tracked_locals

LEMMA PositionIsBase ==
  \A chunks, k, i : Position(chunks, k, i) = Base(chunks, k) + i
BY DEF Position, Base

LEMMA LocalsFacts ==
  ASSUME NEW chunks \in Seq(FunctionChunk), NEW k \in 1 .. Len(chunks)
  PROVE  /\ chunks[k] \in FunctionChunk
         /\ Locals(chunks, k) \in Seq(TrackedLocal)
         /\ Len(Locals(chunks, k)) \in Nat
         /\ DOMAIN Locals(chunks, k) = 1 .. Len(Locals(chunks, k))
         /\ \A i \in DOMAIN Locals(chunks, k) : Locals(chunks, k)[i] \in TrackedLocal
<1>1. chunks[k] \in FunctionChunk
  OBVIOUS
<1>2. Locals(chunks, k) \in Seq(TrackedLocal)
  BY <1>1, NamesOfFacts DEF Locals
<1>. QED
  BY <1>1, <1>2

LEMMA PrefixStep ==
  ASSUME NEW chunks \in Seq(FunctionChunk), NEW m \in 0 .. Len(chunks) - 1
  PROVE  /\ SubSeq(chunks, 1, m) \in Seq(FunctionChunk)
         /\ SubSeq(chunks, 1, m + 1) = Append(SubSeq(chunks, 1, m), chunks[m + 1])
         /\ EnvOf(SubSeq(chunks, 1, m)) \in Seq(Name)
         /\ EnvOf(SubSeq(chunks, 1, m + 1))
              = EnvOf(SubSeq(chunks, 1, m)) \o NamesOf(chunks[m + 1])
<1>1. Len(chunks) \in Nat /\ m \in Nat /\ m + 1 \in 1 .. Len(chunks)
  OBVIOUS
<1>2. SubSeq(chunks, 1, m) \in Seq(FunctionChunk) /\ chunks[m + 1] \in FunctionChunk
  BY <1>1, SubSeqProperties
<1>3. SubSeq(chunks, 1, m + 1) = Append(SubSeq(chunks, 1, m), chunks[m + 1])
  BY <1>1, SubSeqRecursiveSecond
<1>. QED
  BY <1>2, <1>3, EnvAppend

LEMMA PrefixFacts ==
  ASSUME NEW chunks \in Seq(FunctionChunk), NEW m \in 0 .. Len(chunks)
  PROVE  /\ EnvOf(SubSeq(chunks, 1, m)) \in Seq(Name)
         /\ \A k \in 1 .. m :
              /\ Base(chunks, k) \in Nat
              /\ Base(chunks, k + 1) = Base(chunks, k) + Len(Locals(chunks, k))
              /\ Base(chunks, k + 1) <= Base(chunks, m + 1)
              /\ \A i \in DOMAIN Locals(chunks, k) :
                   EnvOf(SubSeq(chunks, 1, m))[Base(chunks, k) + i] = Locals(chunks, k)[i].name
         /\ \A p \in 1 .. Base(chunks, m + 1) :
              \E k \in 1 .. m : \E i \in DOMAIN Locals(chunks, k) : p = Base(chunks, k) + i
<1> DEFINE E(j) == EnvOf(SubSeq(chunks, 1, j))
           Found(j) == \A k \in 1 .. j :
              /\ Base(chunks, k) \in Nat
              /\ Base(chunks, k + 1) = Base(chunks, k) + Len(Locals(chunks, k))
              /\ Base(chunks, k + 1) <= Base(chunks, j + 1)
              /\ \A i \in DOMAIN Locals(chunks, k) :
                   E(j)[Base(chunks, k) + i] = Locals(chunks, k)[i].name
           All(j) == \A p \in 1 .. Base(chunks, j + 1) :
              \E k \in 1 .. j : \E i \in DOMAIN Locals(chunks, k) : p = Base(chunks, k) + i
           B == {j \in 0 .. Len(chunks) : E(j) \in Seq(Name) /\ Found(j) /\ All(j)}
<1>1. Len(chunks) \in Nat /\ \A j \in 0 .. Len(chunks) : Base(chunks, j + 1) = Len(E(j))
  BY DEF Base
<1>2. 0 \in B
  <2>1. SubSeq(chunks, 1, 0) = <<>>
    BY SubSeqEmpty
  <2>2. E(0) = <<>>
    BY <2>1, EnvEmpty
  <2>3. E(0) \in Seq(Name) /\ Base(chunks, 0 + 1) = 0
    <3>1. 0 \in 0 .. Len(chunks) /\ Len(<<>>) = 0 /\ <<>> \in Seq(Name)
      BY <1>1, EmptySeq
    <3>. QED
      BY <1>1, <2>2, <3>1
  <2>4. Found(0) /\ All(0)
    BY <2>3
  <2>. HIDE DEF Found, All, E
  <2>. QED
    BY <1>1, <2>3, <2>4
<1>3. ASSUME NEW j \in 0 .. Len(chunks), j \in B, j < Len(chunks)
      PROVE  j + 1 \in B
  <2>1. E(j) \in Seq(Name) /\ Found(j) /\ All(j)
    BY <1>3
  <2>2. j \in 0 .. Len(chunks) - 1 /\ j + 1 \in 1 .. Len(chunks) /\ j + 1 \in 0 .. Len(chunks)
    BY <1>1, <1>3
  <2>3. PICK L : L = Locals(chunks, j + 1)
    OBVIOUS
  <2>4. /\ chunks[j + 1] \in FunctionChunk /\ L \in Seq(TrackedLocal) /\ Len(L) \in Nat
        /\ DOMAIN L = 1 .. Len(L)
    BY <2>2, <2>3, LocalsFacts
  <2>5. PICK names : names = NamesOf(chunks[j + 1])
    OBVIOUS
  <2>6. names \in Seq(Name) /\ Len(names) = Len(L) /\ \A i \in DOMAIN L : names[i] = L[i].name
    BY <2>3, <2>4, <2>5, NamesOfFacts DEF Locals
  <2>7. E(j + 1) = E(j) \o names
    BY <2>2, <2>5, PrefixStep
  <2>8. PICK e, f : e = E(j) /\ f = E(j + 1)
    OBVIOUS
  <2>9. /\ f \in Seq(Name) /\ Len(f) = Len(e) + Len(L) /\ Len(e) \in Nat
        /\ \A p \in 1 .. Len(e) : f[p] = e[p]
        /\ \A i \in 1 .. Len(L) : f[Len(e) + i] = names[i]
    <3>1. e \in Seq(Name) /\ f = e \o names
      BY <2>1, <2>7, <2>8
    <3>2. /\ Len(e) \in Nat /\ Len(names) = Len(L) /\ f \in Seq(Name)
          /\ Len(f) = Len(e) + Len(names)
          /\ \A p \in 1 .. Len(e) : f[p] = e[p]
          /\ \A i \in 1 .. Len(names) : f[Len(e) + i] = names[i]
      <4>1. names \in Seq(Name) /\ e \in Seq(Name) /\ f = e \o names
        BY <2>6, <3>1
      <4>2. /\ f \in Seq(Name) /\ Len(f) = Len(e) + Len(names) /\ Len(e) \in Nat
            /\ \A p \in 1 .. Len(e) : f[p] = e[p]
            /\ \A i \in 1 .. Len(names) : f[Len(e) + i] = names[i]
        BY <4>1, ConcatFacts
      <4>. QED
        BY <2>6, <4>2
    <3>. QED
      BY <3>2
  <2>10. Base(chunks, j + 1) = Len(e) /\ Base(chunks, (j + 1) + 1) = Len(f)
    BY <1>1, <2>2, <2>8
  <2>11. Found(j + 1)
    <3>1. ASSUME NEW k \in 1 .. j + 1
          PROVE  /\ Base(chunks, k) \in Nat
                 /\ Base(chunks, k + 1) = Base(chunks, k) + Len(Locals(chunks, k))
                 /\ Base(chunks, k + 1) <= Base(chunks, (j + 1) + 1)
                 /\ \A i \in DOMAIN Locals(chunks, k) :
                      f[Base(chunks, k) + i] = Locals(chunks, k)[i].name
      <4>1. CASE k = j + 1
        <5>1. Base(chunks, k) = Len(e) /\ Base(chunks, k + 1) = Len(f) /\ Locals(chunks, k) = L
          BY <2>3, <2>10, <4>1
        <5>2. \A i \in DOMAIN L : f[Len(e) + i] = L[i].name
          BY <2>4, <2>6, <2>9
        <5>. QED
          BY <2>9, <2>10, <5>1, <5>2, <4>1
      <4>2. CASE k # j + 1
        <5>1. k \in 1 .. j
          BY <2>2, <4>2
        <5>2. /\ Base(chunks, k) \in Nat
              /\ Base(chunks, k + 1) = Base(chunks, k) + Len(Locals(chunks, k))
              /\ Base(chunks, k + 1) <= Len(e)
              /\ \A i \in DOMAIN Locals(chunks, k) :
                   e[Base(chunks, k) + i] = Locals(chunks, k)[i].name
          BY <2>1, <2>8, <2>10, <5>1
        <5>3. PICK b, l : b = Base(chunks, k) /\ l = Locals(chunks, k)
          OBVIOUS
        <5>4. DOMAIN l = 1 .. Len(l) /\ Len(l) \in Nat
          BY <2>2, <5>1, <5>3, LocalsFacts
        <5>5. \A i \in DOMAIN l : b + i \in 1 .. Len(e)
          BY <2>9, <5>2, <5>3, <5>4
        <5>. QED
          BY SMTT(40), <2>4, <2>9, <2>10, <5>2, <5>3, <5>5
      <4>. QED
        BY <4>1, <4>2
    <3>. QED
      BY <2>8, <3>1
  <2>12. All(j + 1)
    <3>1. ASSUME NEW p \in 1 .. Base(chunks, (j + 1) + 1)
          PROVE  \E k \in 1 .. j + 1 : \E i \in DOMAIN Locals(chunks, k) : p = Base(chunks, k) + i
      <4>1. CASE p <= Len(e)
        <5>1. p \in 1 .. Base(chunks, j + 1)
          BY <2>9, <2>10, <4>1
        <5>2. PICK k \in 1 .. j : \E i \in DOMAIN Locals(chunks, k) : p = Base(chunks, k) + i
          BY <2>1, <5>1
        <5>3. k \in 1 .. j + 1
          BY <2>2
        <5>. QED
          BY <5>2, <5>3
      <4>2. CASE p > Len(e)
        <5>1. p - Len(e) \in DOMAIN L /\ p = Len(e) + (p - Len(e)) /\ j + 1 \in 1 .. j + 1
          BY <2>2, <2>4, <2>9, <2>10, <4>2
        <5>. QED
          BY <2>3, <2>10, <5>1
      <4>. QED
        BY <2>9, <2>10, <4>1, <4>2
    <3>. QED
      BY <3>1
  <2>13. E(j + 1) \in Seq(Name)
    BY <2>8, <2>9
  <2>. HIDE DEF Found, All, E
  <2>. QED
    BY <2>2, <2>11, <2>12, <2>13
<1>4. m \in B
  <2>. HIDE DEF B
  <2>1. 0 .. Len(chunks) \subseteq B
    BY <1>1, <1>2, <1>3, StepByStep
  <2>. QED
    BY <2>1
<1>. QED
  BY <1>4

LEMMA EnvFacts ==
  ASSUME NEW chunks \in Seq(FunctionChunk)
  PROVE  /\ EnvOf(chunks) \in Seq(Name) /\ Len(EnvOf(chunks)) \in Nat /\ Len(chunks) \in Nat
         /\ Base(chunks, 1) = 0
         /\ Base(chunks, Len(chunks) + 1) = Len(EnvOf(chunks))
         /\ \A k \in 1 .. Len(chunks) + 1 : Base(chunks, k) \in 0 .. Len(EnvOf(chunks))
         /\ \A k \in 1 .. Len(chunks) :
              /\ Base(chunks, k + 1) = Base(chunks, k) + Len(Locals(chunks, k))
              /\ \A i \in DOMAIN Locals(chunks, k) :
                   /\ Base(chunks, k) + i \in 1 .. Len(EnvOf(chunks))
                   /\ EnvOf(chunks)[Base(chunks, k) + i] = Locals(chunks, k)[i].name
         /\ \A j, k \in 1 .. Len(chunks) + 1 : j <= k => Base(chunks, j) <= Base(chunks, k)
         /\ \A p \in 1 .. Len(EnvOf(chunks)) :
              \E k \in 1 .. Len(chunks) : \E i \in DOMAIN Locals(chunks, k) : p = Base(chunks, k) + i
<1> DEFINE n == Len(chunks)
<1>1. n \in Nat /\ SubSeq(chunks, 1, n) = chunks
  BY SubSeqFull
<1>2. Base(chunks, n + 1) = Len(EnvOf(chunks))
  <2>1. (n + 1) - 1 = n
    BY <1>1
  <2>2. SubSeq(chunks, 1, (n + 1) - 1) = chunks
    BY <1>1, <2>1
  <2>. QED
    BY <2>2, Zenon DEF Base
<1>3. Base(chunks, 1) = 0
  <2>1. SubSeq(chunks, 1, 1 - 1) = <<>>
    BY SubSeqEmpty
  <2>2. Len(EnvOf(SubSeq(chunks, 1, 1 - 1))) = Len(<<>>)
    BY <2>1, EnvEmpty, Zenon
  <2>3. Len(<<>>) = 0
    OBVIOUS
  <2>. QED
    BY <2>2, <2>3, Zenon DEF Base
<1>4. EnvOf(chunks) \in Seq(Name) /\ Len(EnvOf(chunks)) \in Nat
  <2>1. n \in 0 .. n
    BY <1>1
  <2>2. EnvOf(SubSeq(chunks, 1, n)) \in Seq(Name)
    BY <2>1, PrefixFacts
  <2>3. EnvOf(chunks) \in Seq(Name)
    BY <1>1, <2>2, Zenon
  <2>. QED
    BY <2>3
<1>5. ASSUME NEW j \in 1 .. n + 1, NEW k \in 1 .. n + 1, j <= k
      PROVE  Base(chunks, j) \in Nat /\ Base(chunks, j) <= Base(chunks, k)
  <2>1. CASE j = k
    <3>1. j - 1 \in 0 .. n /\ j = (j - 1) + 1
      BY <1>1
    <3>2. EnvOf(SubSeq(chunks, 1, j - 1)) \in Seq(Name)
      BY <3>1, PrefixFacts
    <3>. QED
      BY <2>1, <3>2 DEF Base
  <2>2. CASE j < k
    <3>1. k - 1 \in 0 .. n /\ j \in 1 .. k - 1 /\ (k - 1) + 1 = k
      BY <1>1, <2>2
    <3>2. /\ Base(chunks, j) \in Nat
          /\ Base(chunks, j + 1) = Base(chunks, j) + Len(Locals(chunks, j))
          /\ Base(chunks, j + 1) <= Base(chunks, k)
      BY <3>1, PrefixFacts
    <3>3. Len(Locals(chunks, j)) \in Nat
      BY <1>1, <3>1, LocalsFacts
    <3>4. EnvOf(SubSeq(chunks, 1, k - 1)) \in Seq(Name)
      BY <3>1, PrefixFacts
    <3>5. Base(chunks, k) \in Nat
      BY <3>4 DEF Base
    <3>. QED
      BY <3>2, <3>3, <3>5
  <2>. QED
    BY <1>1, <1>5, <2>1, <2>2
<1>6. \A k \in 1 .. n + 1 : Base(chunks, k) \in 0 .. Len(EnvOf(chunks))
  BY <1>1, <1>2, <1>4, <1>5
<1>7. n \in 0 .. n
  BY <1>1
<1>8. ASSUME NEW k \in 1 .. n
      PROVE  Base(chunks, k + 1) = Base(chunks, k) + Len(Locals(chunks, k))
  BY <1>1, <1>7, PrefixFacts
<1>9. ASSUME NEW k \in 1 .. n, NEW i \in DOMAIN Locals(chunks, k)
      PROVE  Base(chunks, k) + i \in 1 .. Len(EnvOf(chunks))
  <2>1. i \in 1 .. Len(Locals(chunks, k)) /\ Len(Locals(chunks, k)) \in Nat
    BY LocalsFacts
  <2>2. k \in 1 .. n + 1 /\ k + 1 \in 1 .. n + 1
    BY <1>1
  <2>3. Base(chunks, k) \in Nat /\ Base(chunks, k + 1) <= Len(EnvOf(chunks))
    BY <1>6, <2>2
  <2>. QED
    BY <1>4, <1>8, <2>1, <2>3
<1>10. ASSUME NEW k \in 1 .. n, NEW i \in DOMAIN Locals(chunks, k)
       PROVE  EnvOf(chunks)[Base(chunks, k) + i] = Locals(chunks, k)[i].name
  BY <1>1, <1>7, PrefixFacts
<1>11. \A p \in 1 .. Len(EnvOf(chunks)) :
         \E k \in 1 .. n : \E i \in DOMAIN Locals(chunks, k) : p = Base(chunks, k) + i
  <2>1. \A p \in 1 .. Base(chunks, n + 1) :
          \E k \in 1 .. n : \E i \in DOMAIN Locals(chunks, k) : p = Base(chunks, k) + i
    BY <1>7, PrefixFacts
  <2>. QED
    BY <1>2, <2>1
<1>. QED
  BY <1>1, <1>2, <1>3, <1>4, <1>5, <1>6, <1>8, <1>9, <1>10, <1>11

(* No two locals are at one position. *)
LEMMA PositionInjective ==
  ASSUME NEW c \in Seq(FunctionChunk), NEW j \in 1 .. Len(c), NEW k \in 1 .. Len(c),
         NEW a \in DOMAIN Locals(c, j), NEW b \in DOMAIN Locals(c, k),
         Base(c, j) + a = Base(c, k) + b
  PROVE  j = k /\ a = b
<1>1. ASSUME NEW x \in 1 .. Len(c), NEW y \in 1 .. Len(c), x < y,
             NEW p \in DOMAIN Locals(c, x), NEW q \in DOMAIN Locals(c, y)
      PROVE  Base(c, x) + p < Base(c, y) + q
  <2>1. x + 1 \in 1 .. Len(c) + 1 /\ y \in 1 .. Len(c) + 1 /\ x + 1 <= y /\ x \in 1 .. Len(c) + 1
    BY <1>1
  <2>2. /\ Base(c, x + 1) = Base(c, x) + Len(Locals(c, x)) /\ Base(c, x + 1) <= Base(c, y)
        /\ Base(c, x) \in Nat /\ Base(c, y) \in Nat
    <3>1. Base(c, x + 1) = Base(c, x) + Len(Locals(c, x)) /\ Base(c, x + 1) <= Base(c, y)
      BY <2>1, EnvFacts
    <3>2. \A z \in 1 .. Len(c) + 1 : Base(c, z) \in Nat
      BY EnvFacts
    <3>. QED
      BY <2>1, <3>1, <3>2
  <2>3. p \in 1 .. Len(Locals(c, x)) /\ Len(Locals(c, x)) \in Nat
        /\ q \in 1 .. Len(Locals(c, y)) /\ Len(Locals(c, y)) \in Nat
    BY LocalsFacts
  <2>. QED
    BY SMTT(40), <2>2, <2>3
<1>2. /\ Base(c, j) \in Nat /\ Base(c, k) \in Nat /\ Len(c) \in Nat
      /\ a \in Nat /\ b \in Nat
  <2>1. Len(c) \in Nat
    BY EnvFacts
  <2>2. \A z \in 1 .. Len(c) + 1 : Base(c, z) \in Nat
    BY EnvFacts
  <2>3. j \in 1 .. Len(c) + 1 /\ k \in 1 .. Len(c) + 1
    BY <2>1
  <2>4. a \in 1 .. Len(Locals(c, j)) /\ b \in 1 .. Len(Locals(c, k))
    BY LocalsFacts
  <2>5. a \in Nat /\ b \in Nat
    BY <2>4
  <2>. QED
    BY <2>1, <2>2, <2>3, <2>5
<1>3. j = k
  <2>1. ~ (j < k)
    <3>1. ASSUME j < k PROVE Base(c, j) + a < Base(c, k) + b
      BY <1>1, <3>1
    <3>. QED
      BY <1>2, <3>1
  <2>2. ~ (k < j)
    <3>1. ASSUME k < j PROVE Base(c, k) + b < Base(c, j) + a
      BY <1>1, <3>1
    <3>. QED
      BY <1>2, <3>1
  <2>. QED
    BY <1>2, <2>1, <2>2
<1>. QED
  BY <1>2, <1>3

(* Base looks at the functions below only. *)
LEMMA BasePrefix ==
  ASSUME NEW c \in Seq(FunctionChunk), NEW d \in Seq(FunctionChunk),
         NEW m \in 0 .. Len(c), m <= Len(d), \A k \in 1 .. m : c[k] = d[k]
  PROVE  \A k \in 1 .. m + 1 : Base(c, k) = Base(d, k)
<1>1. ASSUME NEW k \in 1 .. m + 1
      PROVE  SubSeq(c, 1, k - 1) = SubSeq(d, 1, k - 1)
  OBVIOUS
<1>. QED
  BY <1>1 DEF Base

LEMMA SameEnv ==
  ASSUME NEW c \in Seq(FunctionChunk), NEW d \in Seq(FunctionChunk), Len(c) = Len(d),
         \A k \in 1 .. Len(c) : NamesOf(c[k]) = NamesOf(d[k])
  PROVE  EnvOf(c) = EnvOf(d) /\ \A k \in 1 .. Len(c) + 1 : Base(c, k) = Base(d, k)
<1>1. ASSUME NEW a \in Seq(FunctionChunk), NEW b \in Seq(FunctionChunk), Len(a) = Len(b),
             \A k \in 1 .. Len(a) : NamesOf(a[k]) = NamesOf(b[k])
      PROVE  EnvOf(a) = EnvOf(b)
  <2>1. DOMAIN a = 1 .. Len(a) /\ DOMAIN b = 1 .. Len(a)
    BY <1>1
  <2>2. [k \in DOMAIN a |-> NamesOf(a[k])] = [k \in DOMAIN b |-> NamesOf(b[k])]
    BY <1>1, <2>1
  <2>3. EnvOf(a) = FlattenSeq([k \in DOMAIN a |-> NamesOf(a[k])])
    BY Zenon DEF EnvOf
  <2>4. EnvOf(b) = FlattenSeq([k \in DOMAIN b |-> NamesOf(b[k])])
    BY Zenon DEF EnvOf
  <2>. QED
    BY <2>2, <2>3, <2>4, Zenon
<1>2. ASSUME NEW k \in 1 .. Len(c) + 1
      PROVE  EnvOf(SubSeq(c, 1, k - 1)) = EnvOf(SubSeq(d, 1, k - 1))
  <2>1. PICK a, b : a = SubSeq(c, 1, k - 1) /\ b = SubSeq(d, 1, k - 1)
    OBVIOUS
  <2>2. /\ a \in Seq(FunctionChunk) /\ b \in Seq(FunctionChunk)
        /\ Len(a) = k - 1 /\ Len(b) = k - 1 /\ Len(c) \in Nat
        /\ \A j \in 1 .. k - 1 : a[j] = c[j] /\ b[j] = d[j]
    BY <2>1
  <2>3. \A j \in 1 .. Len(a) : NamesOf(a[j]) = NamesOf(b[j])
    BY <2>2
  <2>4. EnvOf(a) = EnvOf(b)
    BY <1>1, <2>2, <2>3
  <2>. QED
    BY <2>1, <2>4, Zenon
<1>. QED
  BY <1>1, <1>2 DEF Base

(* What the locals of the last function add. *)
LEMMA EnvOfBack ==
  ASSUME NEW c \in Seq(FunctionChunk), c # <<>>
  PROVE  /\ Len(c) \in Nat \ {0} /\ c[Len(c)] \in FunctionChunk
         /\ Front(c) \in Seq(FunctionChunk) /\ Len(Front(c)) = Len(c) - 1
         /\ \A k \in 1 .. Len(c) - 1 : Front(c)[k] = c[k]
         /\ \A k \in 1 .. Len(c) : Base(Front(c), k) = Base(c, k)
         /\ EnvOf(Front(c)) \in Seq(Name) /\ Len(EnvOf(Front(c))) = Base(c, Len(c))
         /\ EnvOf(c) = EnvOf(Front(c)) \o NamesOf(c[Len(c)])
         /\ Len(EnvOf(c)) = Base(c, Len(c)) + Len(Locals(c, Len(c)))
<1>1. /\ Len(c) \in Nat \ {0} /\ c[Len(c)] \in FunctionChunk
      /\ Front(c) \in Seq(FunctionChunk) /\ Len(Front(c)) = Len(c) - 1
      /\ \A k \in 1 .. Len(c) - 1 : Front(c)[k] = c[k]
      /\ c = Append(Front(c), c[Len(c)])
  BY FrontLast
<1>2. \A k \in 1 .. Len(c) : Base(Front(c), k) = Base(c, k)
  <2>1. PICK m : m = Len(c) - 1
    OBVIOUS
  <2>2. m \in 0 .. Len(Front(c)) /\ m <= Len(c) /\ m + 1 = Len(c)
    BY <1>1, <2>1
  <2>3. \A k \in 1 .. m : Front(c)[k] = c[k]
    BY <1>1, <2>1
  <2>4. \A k \in 1 .. m + 1 : Base(Front(c), k) = Base(c, k)
    BY <1>1, <2>2, <2>3, BasePrefix
  <2>. QED
    BY <2>2, <2>4
<1>3. EnvOf(Front(c)) \in Seq(Name) /\ EnvOf(c) = EnvOf(Front(c)) \o NamesOf(c[Len(c)])
  BY <1>1, EnvAppend
<1>4. Len(EnvOf(Front(c))) = Base(c, Len(c))
  BY Zenon DEF Front, Base
<1>5. Len(EnvOf(c)) = Base(c, Len(c)) + Len(Locals(c, Len(c)))
  BY <1>1, EnvFacts
<1>. QED
  BY <1>1, <1>2, <1>3, <1>4, <1>5

(* Two states of the compiler that differ in the last function only. *)
LEMMA BackDiffers ==
  ASSUME NEW c \in Seq(FunctionChunk), c # <<>>, NEW d \in Seq(FunctionChunk),
         Len(d) = Len(c), \A k \in 1 .. Len(c) - 1 : d[k] = c[k]
  PROVE  /\ \A k \in 1 .. Len(c) : Base(d, k) = Base(c, k)
         /\ Front(d) = Front(c)
         /\ EnvOf(d) = EnvOf(Front(c)) \o NamesOf(d[Len(c)])
         /\ Len(EnvOf(d)) = Base(c, Len(c)) + Len(Locals(d, Len(c)))
<1>1. Len(c) \in Nat \ {0} /\ d # <<>>
  OBVIOUS
<1>2. \A k \in 1 .. Len(c) : Base(d, k) = Base(c, k)
  <2>1. PICK m : m = Len(c) - 1
    OBVIOUS
  <2>2. m \in 0 .. Len(d) /\ m <= Len(c) /\ m + 1 = Len(c)
    BY <1>1, <2>1
  <2>3. \A k \in 1 .. m : d[k] = c[k]
    BY <1>1, <2>1
  <2>4. \A k \in 1 .. m + 1 : Base(d, k) = Base(c, k)
    BY <1>1, <2>2, <2>3, BasePrefix
  <2>. QED
    BY <2>2, <2>4
<1>3. Front(d) = Front(c)
  <2>1. PICK f, g : f = Front(c) /\ g = Front(d)
    OBVIOUS
  <2>2. /\ f \in Seq(FunctionChunk) /\ Len(f) = Len(c) - 1
        /\ \A k \in 1 .. Len(c) - 1 : f[k] = c[k]
    BY <2>1, FrontLast
  <2>3. /\ g \in Seq(FunctionChunk) /\ Len(g) = Len(d) - 1
        /\ \A k \in 1 .. Len(d) - 1 : g[k] = d[k]
    BY <1>1, <2>1, FrontLast
  <2>4. Len(g) = Len(f) /\ \A k \in 1 .. Len(f) : g[k] = f[k]
    BY <1>1, <2>2, <2>3
  <2>5. g = f
    BY <2>2, <2>3, <2>4
  <2>. QED
    BY <2>1, <2>5
<1>4. EnvOf(d) = EnvOf(Front(c)) \o NamesOf(d[Len(c)])
  BY <1>1, <1>3, EnvOfBack
<1>5. Len(EnvOf(d)) = Base(d, Len(c)) + Len(Locals(d, Len(c)))
  BY <1>1, EnvOfBack
<1>. QED
  BY <1>1, <1>2, <1>3, <1>4, <1>5

LEMMA BackChanges ==
  ASSUME NEW c \in Seq(FunctionChunk), c # <<>>, NEW b \in FunctionChunk
  PROVE  /\ [c EXCEPT ![Len(c)] = b] \in Seq(FunctionChunk)
         /\ Len([c EXCEPT ![Len(c)] = b]) = Len(c)
         /\ [c EXCEPT ![Len(c)] = b][Len(c)] = b
         /\ \A k \in 1 .. Len(c) - 1 : [c EXCEPT ![Len(c)] = b][k] = c[k]
OBVIOUS

(* A function begins. *)
LEMMA ChunkBegins ==
  ASSUME NEW c \in Seq(FunctionChunk), NEW b \in FunctionChunk,
         NEW d \in Seq(FunctionChunk), Len(d) = Len(c) + 1, d[Len(c) + 1] = b,
         \A k \in 1 .. Len(c) : d[k] = c[k]
  PROVE  /\ \A k \in 1 .. Len(c) + 1 : Base(d, k) = Base(c, k)
         /\ EnvOf(d) = EnvOf(c) \o NamesOf(b)
         /\ Base(d, Len(c) + 1) = Len(EnvOf(c))
         /\ Len(EnvOf(d)) = Len(EnvOf(c)) + Len(b.tracked_locals)
<1>1. Len(c) \in Nat /\ d # <<>> /\ d = Append(c, b)
  OBVIOUS
<1>2. \A k \in 1 .. Len(c) + 1 : Base(d, k) = Base(c, k)
  <2>1. PICK m : m = Len(c)
    OBVIOUS
  <2>2. m \in 0 .. Len(d) /\ m <= Len(c)
    BY <1>1, <2>1
  <2>3. \A k \in 1 .. m : d[k] = c[k]
    BY <1>1, <2>1
  <2>4. \A k \in 1 .. m + 1 : Base(d, k) = Base(c, k)
    BY <1>1, <2>2, <2>3, BasePrefix
  <2>. QED
    BY <2>1, <2>4
<1>3. EnvOf(d) = EnvOf(c) \o NamesOf(b)
  BY <1>1, EnvAppend, Zenon
<1>4. Base(c, Len(c) + 1) = Len(EnvOf(c))
  BY EnvFacts
<1>5. Len(EnvOf(d)) = Base(d, Len(d)) + Len(Locals(d, Len(d)))
  BY <1>1, EnvOfBack
<1>6. Locals(d, Len(d)) = b.tracked_locals
  BY Zenon DEF Locals
<1>7. Len(c) + 1 \in 1 .. Len(c) + 1
  BY <1>1
<1>8. Base(d, Len(c) + 1) = Len(EnvOf(c)) /\ Base(d, Len(d)) = Len(EnvOf(c))
  BY <1>2, <1>4, <1>7
<1>. QED
  BY <1>2, <1>3, <1>5, <1>6, <1>8

-----------------------------------------------------------------------------
(* The inductive invariant.  The open scopes say which function each is in  *)
(* and how many variables were in scope when it began; the depth of a local *)
(* says between which of them it is.  A placeholder's depth is 0, though it *)
(* is in the first scope.                                                   *)

FunctionKind == {"fun", "anonymous", "method"}

Home(scopes, e) == 1 + Cardinality({i \in 1 .. e : scopes[i].kind \in FunctionKind})
ScopeOf(local) == IF local.depth = 0 THEN 1 ELSE local.depth

(* There is a function for each open scope of a function; the scopes begin  *)
(* in order, each within its function, and a function's before its locals.  *)
ScopesFit(c, scopes) ==
  /\ c \in Seq(FunctionChunk) /\ c # <<>> /\ scopes \in Seq(Construct)
  /\ Len(c) = Home(scopes, Len(scopes))
  /\ \A e \in 1 .. Len(scopes) :
       /\ Home(scopes, e) \in 1 .. Len(c)
       /\ scopes[e].from \in Base(c, Home(scopes, e)) .. Len(EnvOf(c))
       /\ scopes[e].kind \in FunctionKind => scopes[e].from = Base(c, Home(scopes, e))
       /\ \A d \in 1 .. e : scopes[d].from <= scopes[e].from
  /\ scopes # <<>> => scopes[1].from = 0

(* A local of depth d was declared between the start of the d-th open scope *)
(* and the start of the next.                                               *)
LocalsPlaced(c, scopes) ==
  \A k \in 1 .. Len(c) : \A i \in DOMAIN Locals(c, k) :
    LET d == ScopeOf(Locals(c, k)[i])
        p == Base(c, k) + i
    IN  /\ d \in 1 .. Len(scopes)
        /\ scopes[d].from < p
        /\ d < Len(scopes) => p <= scopes[d + 1].from

LEMMA ConstructFields ==
  ASSUME NEW ns \in Seq(Construct), NEW e \in 1 .. Len(ns)
  PROVE  /\ ns[e] \in Construct /\ ns[e].name \in Name /\ ns[e].from \in Nat
         /\ ns[e].kind \in {"block", "var", "fun", "anonymous", "class", "subclass", "method"}
<1>1. ns[e] \in Construct
  OBVIOUS
<1>. QED
  BY <1>1 DEF Construct

LEMMA HomeFacts ==
  ASSUME NEW scopes \in Seq(Construct)
  PROVE  /\ Home(scopes, 0) = 1
         /\ \A e \in 0 .. Len(scopes) : Home(scopes, e) \in Nat \ {0}
         /\ \A e \in 1 .. Len(scopes) :
              Home(scopes, e) = Home(scopes, e - 1) + IF scopes[e].kind \in FunctionKind THEN 1 ELSE 0
<1> DEFINE F(e) == {i \in 1 .. e : scopes[i].kind \in FunctionKind}
<1>1. Len(scopes) \in Nat
  OBVIOUS
<1>2. \A e \in 0 .. Len(scopes) : IsFiniteSet(F(e)) /\ Cardinality(F(e)) \in Nat
  <2>1. ASSUME NEW e \in 0 .. Len(scopes)
        PROVE  IsFiniteSet(F(e)) /\ Cardinality(F(e)) \in Nat
    <3>1. IsFiniteSet(1 .. e)
      BY <1>1, FS_Interval
    <3>2. F(e) \subseteq 1 .. e
      OBVIOUS
    <3>. QED
      BY <3>1, <3>2, FS_Subset, FS_CardinalityType
  <2>. QED
    BY <2>1
<1>3. Cardinality(F(0)) = 0
  <2>1. F(0) = {}
    OBVIOUS
  <2>. QED
    BY <2>1, FS_EmptySet
<1>4. ASSUME NEW e \in 1 .. Len(scopes)
      PROVE  Cardinality(F(e)) = Cardinality(F(e - 1)) + IF scopes[e].kind \in FunctionKind THEN 1 ELSE 0
  <2>1. e - 1 \in 0 .. Len(scopes)
    BY <1>1
  <2>2. CASE scopes[e].kind \in FunctionKind
    <3>1. F(e) = F(e - 1) \cup {e} /\ e \notin F(e - 1)
      BY <2>2
    <3>. HIDE DEF F
    <3>2. Cardinality(F(e)) = Cardinality(F(e - 1)) + 1
      BY <1>2, <2>1, <3>1, FS_AddElement
    <3>. QED
      BY <2>2, <3>2
  <2>3. CASE scopes[e].kind \notin FunctionKind
    <3>1. F(e) = F(e - 1)
      BY <2>3
    <3>. HIDE DEF F
    <3>2. Cardinality(F(e - 1)) \in Nat
      BY <1>2, <2>1
    <3>. QED
      BY <2>3, <3>1, <3>2
  <2>. QED
    BY <2>2, <2>3
<1>. HIDE DEF F
<1>5. \A e : Home(scopes, e) = 1 + Cardinality(F(e))
  BY DEF Home, F
<1>. QED
  <2>1. \A e \in 0 .. Len(scopes) : Home(scopes, e) \in Nat \ {0}
    BY <1>2, <1>5
  <2>2. Home(scopes, 0) = 1
    BY <1>3, <1>5
  <2>3. ASSUME NEW e \in 1 .. Len(scopes)
        PROVE  Home(scopes, e) = Home(scopes, e - 1) + IF scopes[e].kind \in FunctionKind THEN 1 ELSE 0
    <3>1. e - 1 \in 0 .. Len(scopes)
      BY <1>1
    <3>. QED
      BY <1>2, <1>4, <1>5, <3>1
  <2>. QED
    BY <2>1, <2>2, <2>3

LEMMA HomePrefix ==
  ASSUME NEW scopes, NEW more, NEW m \in Nat, \A i \in 1 .. m : scopes[i].kind = more[i].kind
  PROVE  \A e \in 0 .. m : Home(scopes, e) = Home(more, e)
<1>1. ASSUME NEW e \in 0 .. m
      PROVE  {i \in 1 .. e : scopes[i].kind \in FunctionKind} = {i \in 1 .. e : more[i].kind \in FunctionKind}
  OBVIOUS
<1>. QED
  BY <1>1 DEF Home

(* A local is in the e-th scope, or in one inside it, when it is after the  *)
(* variables that were there when that scope began.                         *)
LEMMA InScope ==
  ASSUME NEW c, NEW scopes, ScopesFit(c, scopes), LocalsPlaced(c, scopes),
         NEW e \in 1 .. Len(scopes), NEW k \in 1 .. Len(c), NEW i \in DOMAIN Locals(c, k)
  PROVE  /\ ScopeOf(Locals(c, k)[i]) \in 1 .. Len(scopes)
         /\ ScopeOf(Locals(c, k)[i]) >= e <=> Base(c, k) + i > scopes[e].from
<1>1. c \in Seq(FunctionChunk) /\ scopes \in Seq(Construct) /\ Len(scopes) \in Nat
  BY DEF ScopesFit
<1>2. PICK d, p : d = ScopeOf(Locals(c, k)[i]) /\ p = Base(c, k) + i
  OBVIOUS
<1>3. d \in 1 .. Len(scopes) /\ scopes[d].from < p /\ (d < Len(scopes) => p <= scopes[d + 1].from)
  BY <1>2 DEF LocalsPlaced
<1>4. p \in Nat
  BY <1>1, <1>2, EnvFacts
<1>5. /\ \A a \in 1 .. Len(scopes) : scopes[a].from \in Nat
      /\ \A a, b \in 1 .. Len(scopes) : a <= b => scopes[a].from <= scopes[b].from
  <2>1. ASSUME NEW a \in 1 .. Len(scopes)
        PROVE  scopes[a].from \in Nat
    BY <1>1, ConstructFields
  <2>2. ASSUME NEW a \in 1 .. Len(scopes), NEW b \in 1 .. Len(scopes), a <= b
        PROVE  scopes[a].from <= scopes[b].from
    <3>1. a \in 1 .. b
      BY <2>2
    <3>. QED
      BY <3>1 DEF ScopesFit
  <2>. QED
    BY <2>1, <2>2
<1>6. CASE d >= e
  <2>1. scopes[e].from <= scopes[d].from
    BY <1>3, <1>5, <1>6
  <2>. QED
    BY <1>2, <1>3, <1>4, <1>5, <1>6, <2>1
<1>7. CASE d < e
  <2>1. d + 1 \in 1 .. Len(scopes) /\ d + 1 <= e /\ d < Len(scopes)
    BY <1>1, <1>3, <1>7
  <2>2. p <= scopes[d + 1].from /\ scopes[d + 1].from <= scopes[e].from
    BY <1>3, <1>5, <2>1
  <2>. QED
    BY <1>2, <1>3, <1>4, <1>5, <1>7, <2>1, <2>2
<1>. QED
  BY <1>3, <1>6, <1>7

NoName == ""

(* The only local of depth 0 is the script's first, while a subclass at the *)
(* top level is compiled: it stands for the class on the stack and has no   *)
(* name a program can use.                                                  *)
Placeholder(c, scopes) ==
  /\ scopes # <<>> /\ scopes[1].kind = "subclass" =>
       Locals(c, 1) # <<>> /\ Locals(c, 1)[1].depth = 0
  /\ \A k \in 1 .. Len(c) : \A i \in DOMAIN Locals(c, k) :
       Locals(c, k)[i].depth = 0 =>
         /\ k = 1 /\ i = 1 /\ Locals(c, k)[i].name = NoName
         /\ scopes # <<>> /\ scopes[1].kind = "subclass"

(* A captured variable is in scope and its local is marked. *)
CapturedMarked(c, cap) ==
  /\ cap \subseteq 1 .. Len(EnvOf(c))
  /\ \A k \in 1 .. Len(c) : \A i \in DOMAIN Locals(c, k) :
       /\ Base(c, k) + i \in cap => Locals(c, k)[i].is_captured
       /\ Locals(c, k)[i].name = NoName => ~Locals(c, k)[i].is_captured

Upvalues(c, k) == c[k].tracked_upvalues

(* An upvalue names a marked local or an upvalue of the function around it, *)
(* and no function tracks the same one twice.                               *)
UpvalueOK(c, k, u) ==
  /\ k > 1
  /\ u.direct => /\ u.index \in DOMAIN Locals(c, k - 1)
                 /\ Locals(c, k - 1)[u.index].is_captured
  /\ ~u.direct => u.index \in DOMAIN Upvalues(c, k - 1)

UpvaluesOK(c) ==
  \A k \in 1 .. Len(c) :
    /\ \A j \in DOMAIN Upvalues(c, k) : UpvalueOK(c, k, Upvalues(c, k)[j])
    /\ \A i, j \in DOMAIN Upvalues(c, k) : Upvalues(c, k)[i] = Upvalues(c, k)[j] => i = j

(* Unless it may, no function has two locals of one name. *)
NoShadows(c) == ~ShadowInFunction => \A k \in 1 .. Len(c) : IsInjective(NamesOf(c[k]))

-----------------------------------------------------------------------------
(* How the steps change the functions and the open scopes *)

(* A scope opens that is no function's. *)
LEMMA ScopeOpens ==
  ASSUME NEW c, NEW scopes, ScopesFit(c, scopes), LocalsPlaced(c, scopes),
         NEW s \in Construct, s.kind \notin FunctionKind, s.from = Len(EnvOf(c)),
         scopes = <<>> => EnvOf(c) = <<>>
  PROVE  ScopesFit(c, Append(scopes, s)) /\ LocalsPlaced(c, Append(scopes, s))
<1> DEFINE more == Append(scopes, s)
           D == Len(scopes)
<1>1. c \in Seq(FunctionChunk) /\ c # <<>> /\ scopes \in Seq(Construct) /\ D \in Nat
  BY DEF ScopesFit
<1>2. /\ more \in Seq(Construct) /\ Len(more) = D + 1 /\ more[D + 1] = s
      /\ \A e \in 1 .. D : more[e] = scopes[e]
  BY <1>1, AppendProperties
<1>. HIDE DEF more
<1>3. \A e \in 0 .. D : Home(more, e) = Home(scopes, e)
  BY <1>1, <1>2, HomePrefix
<1>4. Home(more, D + 1) = Home(scopes, D) /\ Home(scopes, D) = Len(c)
  <2>1. D + 1 \in 1 .. Len(more) /\ (D + 1) - 1 = D /\ more[D + 1].kind \notin FunctionKind
    BY <1>1, <1>2
  <2>2. Home(more, D + 1) = Home(more, D) + 0
    BY <1>2, <2>1, HomeFacts
  <2>3. D \in 0 .. D
    BY <1>1
  <2>4. Home(scopes, D) = Len(c) /\ Len(c) \in Nat
    BY <1>1 DEF ScopesFit
  <2>. QED
    BY <1>3, <2>2, <2>3, <2>4
<1>5. Len(EnvOf(c)) \in Nat /\ \A k \in 1 .. Len(c) : Base(c, k) \in 0 .. Len(EnvOf(c))
  BY <1>1, EnvFacts
<1>6. Len(c) \in 1 .. Len(c)
  BY <1>1
<1>7. \A e \in 1 .. D : scopes[e].from \in 0 .. Len(EnvOf(c))
  BY <1>1, <1>5 DEF ScopesFit
<1>8. ASSUME NEW e \in 1 .. Len(more)
      PROVE  /\ Home(more, e) \in 1 .. Len(c)
             /\ more[e].from \in Base(c, Home(more, e)) .. Len(EnvOf(c))
             /\ more[e].kind \in FunctionKind => more[e].from = Base(c, Home(more, e))
             /\ \A d \in 1 .. e : more[d].from <= more[e].from
  <2>1. CASE e = D + 1
    <3>1. Home(more, e) = Len(c) /\ more[e] = s
      BY <1>2, <1>4, <2>1
    <3>2. ASSUME NEW d \in 1 .. e PROVE more[d].from <= more[e].from
      <4>1. d \in 1 .. D \/ d = e
        BY <1>1, <2>1
      <4>. QED
        BY <1>2, <1>5, <1>7, <2>1, <4>1
    <3>. QED
      BY <1>5, <1>6, <3>1, <3>2
  <2>2. CASE e # D + 1
    <3>1. e \in 1 .. D /\ e \in 0 .. D
      BY <1>1, <1>2, <2>2
    <3>2. more[e] = scopes[e] /\ Home(more, e) = Home(scopes, e)
      BY <1>2, <1>3, <3>1
    <3>3. \A d \in 1 .. e : more[d] = scopes[d]
      BY <1>1, <1>2, <3>1
    <3>. QED
      BY <3>1, <3>2, <3>3 DEF ScopesFit
  <2>. QED
    BY <2>1, <2>2
<1>9. more[1].from = 0
  <2>1. CASE scopes = <<>>
    BY <1>1, <1>2, <2>1
  <2>2. CASE scopes # <<>>
    BY <1>1, <1>2, <2>2 DEF ScopesFit
  <2>. QED
    BY <2>1, <2>2
<1>10. ScopesFit(c, more)
  BY <1>1, <1>2, <1>4, <1>8, <1>9 DEF ScopesFit
<1>11. ASSUME NEW k \in 1 .. Len(c), NEW i \in DOMAIN Locals(c, k),
              NEW d, d = ScopeOf(Locals(c, k)[i])
       PROVE  /\ d \in 1 .. D + 1 /\ more[d].from < Base(c, k) + i
              /\ d < D + 1 => Base(c, k) + i <= more[d + 1].from
  <2>1. /\ d \in 1 .. D /\ scopes[d].from < Base(c, k) + i
        /\ d < D => Base(c, k) + i <= scopes[d + 1].from
    BY <1>11 DEF LocalsPlaced
  <2>2. Base(c, k) + i \in 1 .. Len(EnvOf(c))
    BY <1>1, EnvFacts
  <2>3. CASE d = D
    BY <1>2, <2>1, <2>2, <2>3
  <2>4. CASE d # D
    <3>1. d + 1 \in 1 .. D /\ d < D
      BY <1>1, <2>1, <2>4
    <3>. QED
      BY <1>1, <1>2, <2>1, <3>1
  <2>. QED
    BY <2>3, <2>4
<1>12. LocalsPlaced(c, more)
  BY <1>2, <1>11 DEF LocalsPlaced
<1>. QED
  BY <1>10, <1>12 DEF more

(* Only the last function's locals differ. *)
BackDiffer(c, d) ==
  /\ d \in Seq(FunctionChunk) /\ Len(d) = Len(c)
  /\ \A k \in 1 .. Len(c) - 1 : d[k] = c[k]
  /\ Upvalues(d, Len(c)) = Upvalues(c, Len(c))

LEMMA BackDifferFacts ==
  ASSUME NEW c \in Seq(FunctionChunk), c # <<>>, NEW d, BackDiffer(c, d)
  PROVE  /\ Len(c) \in Nat \ {0} /\ d \in Seq(FunctionChunk) /\ Len(d) = Len(c) /\ d # <<>>
         /\ \A k \in 1 .. Len(c) : Base(d, k) = Base(c, k) /\ Upvalues(d, k) = Upvalues(c, k)
         /\ \A k \in 1 .. Len(c) : k # Len(c) => d[k] = c[k] /\ Locals(d, k) = Locals(c, k)
         /\ EnvOf(d) = EnvOf(Front(c)) \o NamesOf(d[Len(c)])
         /\ Len(EnvOf(d)) = Base(c, Len(c)) + Len(Locals(d, Len(c)))
         /\ Len(EnvOf(c)) = Base(c, Len(c)) + Len(Locals(c, Len(c)))
         /\ Base(c, Len(c)) \in Nat /\ Len(Locals(c, Len(c))) \in Nat /\ Len(Locals(d, Len(c))) \in Nat
<1>1. /\ d \in Seq(FunctionChunk) /\ Len(d) = Len(c) /\ Len(c) \in Nat \ {0} /\ d # <<>>
      /\ \A k \in 1 .. Len(c) - 1 : d[k] = c[k]
      /\ Upvalues(d, Len(c)) = Upvalues(c, Len(c))
  BY DEF BackDiffer
<1>2. \A k \in 1 .. Len(c) : k # Len(c) => k \in 1 .. Len(c) - 1
  BY <1>1
<1>3. /\ \A k \in 1 .. Len(c) : Base(d, k) = Base(c, k)
      /\ EnvOf(d) = EnvOf(Front(c)) \o NamesOf(d[Len(c)])
      /\ Len(EnvOf(d)) = Base(c, Len(c)) + Len(Locals(d, Len(c)))
  BY <1>1, BackDiffers
<1>4. Len(c) \in 1 .. Len(c) /\ Len(c) \in 1 .. Len(d)
  BY <1>1
<1>5. Len(Locals(c, Len(c))) \in Nat /\ Len(Locals(d, Len(c))) \in Nat
  BY <1>1, <1>4, LocalsFacts
<1>6. Len(EnvOf(c)) = Base(c, Len(c)) + Len(Locals(c, Len(c)))
  BY EnvOfBack
<1>7. Base(c, Len(c)) \in Nat
  BY <1>4, EnvFacts
<1>8. \A k \in 1 .. Len(c) : Upvalues(d, k) = Upvalues(c, k)
  BY <1>1, <1>2 DEF Upvalues
<1>9. \A k \in 1 .. Len(c) : k # Len(c) => d[k] = c[k] /\ Locals(d, k) = Locals(c, k)
  BY <1>1, <1>2 DEF Locals
<1>. QED
  BY <1>1, <1>3, <1>5, <1>6, <1>7, <1>8, <1>9

(* Locals are tracked in the innermost open scope. *)
Tracks(c, scopes, d, locals) ==
  /\ BackDiffer(c, d)
  /\ locals \in Seq(TrackedLocal)
  /\ Locals(d, Len(c)) = Locals(c, Len(c)) \o locals
  /\ scopes # <<>>
  /\ \A j \in 1 .. Len(locals) : ScopeOf(locals[j]) = Len(scopes) /\ ~locals[j].is_captured

LEMMA TracksFacts ==
  ASSUME NEW c \in Seq(FunctionChunk), c # <<>>, NEW d, NEW scopes, NEW locals,
         Tracks(c, scopes, d, locals)
  PROVE  /\ Len(locals) \in Nat
         /\ Len(Locals(d, Len(c))) = Len(Locals(c, Len(c))) + Len(locals)
         /\ DOMAIN Locals(d, Len(c)) = 1 .. Len(Locals(c, Len(c))) + Len(locals)
         /\ \A i \in 1 .. Len(Locals(c, Len(c))) : Locals(d, Len(c))[i] = Locals(c, Len(c))[i]
         /\ \A j \in 1 .. Len(locals) : Locals(d, Len(c))[Len(Locals(c, Len(c))) + j] = locals[j]
         /\ \A i \in DOMAIN Locals(d, Len(c)) :
              \/ i \in 1 .. Len(Locals(c, Len(c)))
              \/ /\ i > Len(Locals(c, Len(c)))
                 /\ i - Len(Locals(c, Len(c))) \in 1 .. Len(locals)
                 /\ Locals(d, Len(c))[i] = locals[i - Len(Locals(c, Len(c)))]
<1>1. Len(c) \in 1 .. Len(c)
  OBVIOUS
<1>2. PICK L, M : L = Locals(c, Len(c)) /\ M = Locals(d, Len(c))
  OBVIOUS
<1>3. L \in Seq(TrackedLocal) /\ locals \in Seq(TrackedLocal) /\ M = L \o locals
  BY <1>1, <1>2, LocalsFacts DEF Tracks
<1>4. /\ M \in Seq(TrackedLocal) /\ Len(M) = Len(L) + Len(locals) /\ Len(L) \in Nat /\ Len(locals) \in Nat
      /\ \A i \in 1 .. Len(L) : M[i] = L[i]
      /\ \A j \in 1 .. Len(locals) : M[Len(L) + j] = locals[j]
  BY <1>3, ConcatFacts
<1>5. DOMAIN M = 1 .. Len(L) + Len(locals)
  BY <1>4
<1>6. ASSUME NEW i \in DOMAIN M, i \notin 1 .. Len(L)
      PROVE  i > Len(L) /\ i - Len(L) \in 1 .. Len(locals) /\ M[i] = locals[i - Len(L)]
  <2>1. i > Len(L) /\ i - Len(L) \in 1 .. Len(locals) /\ i = Len(L) + (i - Len(L))
    BY <1>4, <1>5, <1>6
  <2>. QED
    BY <1>4, <2>1
<1>. QED
  BY <1>2, <1>4, <1>5, <1>6

LEMMA LocalsTracked ==
  ASSUME NEW c, NEW scopes, ScopesFit(c, scopes), LocalsPlaced(c, scopes),
         NEW d, NEW locals, Tracks(c, scopes, d, locals)
  PROVE  ScopesFit(d, scopes) /\ LocalsPlaced(d, scopes)
<1> DEFINE D == Len(scopes)
           n == Len(c)
<1>1. /\ c \in Seq(FunctionChunk) /\ c # <<>> /\ scopes \in Seq(Construct)
      /\ scopes # <<>> /\ D \in Nat \ {0} /\ BackDiffer(c, d)
      /\ n = Home(scopes, D)
  BY DEF ScopesFit, Tracks
<1>2. /\ n \in Nat \ {0} /\ d \in Seq(FunctionChunk) /\ Len(d) = n /\ d # <<>>
      /\ \A k \in 1 .. n : Base(d, k) = Base(c, k)
      /\ \A k \in 1 .. n : k # n => Locals(d, k) = Locals(c, k)
      /\ Len(EnvOf(d)) = Base(c, n) + Len(Locals(d, n))
      /\ Len(EnvOf(c)) = Base(c, n) + Len(Locals(c, n))
      /\ Base(c, n) \in Nat /\ Len(Locals(c, n)) \in Nat /\ Len(Locals(d, n)) \in Nat
  BY <1>1, BackDifferFacts
<1>3. /\ Len(locals) \in Nat /\ Len(Locals(d, n)) = Len(Locals(c, n)) + Len(locals)
      /\ \A i \in 1 .. Len(Locals(c, n)) : Locals(d, n)[i] = Locals(c, n)[i]
      /\ \A i \in DOMAIN Locals(d, n) :
              \/ i \in 1 .. Len(Locals(c, n))
              \/ /\ i > Len(Locals(c, n))
                 /\ i - Len(Locals(c, n)) \in 1 .. Len(locals)
                 /\ Locals(d, n)[i] = locals[i - Len(Locals(c, n))]
  BY <1>1, TracksFacts
<1>4. ScopesFit(d, scopes)
  <2>1. ASSUME NEW e \in 1 .. D
        PROVE  /\ Home(scopes, e) \in 1 .. Len(d)
               /\ scopes[e].from \in Base(d, Home(scopes, e)) .. Len(EnvOf(d))
               /\ scopes[e].kind \in FunctionKind => scopes[e].from = Base(d, Home(scopes, e))
               /\ \A b \in 1 .. e : scopes[b].from <= scopes[e].from
    <3>1. /\ Home(scopes, e) \in 1 .. n
          /\ scopes[e].from \in Base(c, Home(scopes, e)) .. Len(EnvOf(c))
          /\ scopes[e].kind \in FunctionKind => scopes[e].from = Base(c, Home(scopes, e))
          /\ \A b \in 1 .. e : scopes[b].from <= scopes[e].from
      BY DEF ScopesFit
    <3>2. Base(d, Home(scopes, e)) = Base(c, Home(scopes, e)) /\ Base(c, Home(scopes, e)) \in Nat
      <4>1. \A k \in 1 .. n : Base(c, k) \in Nat
        BY <1>1, EnvFacts
      <4>. QED
        BY <1>2, <3>1, <4>1
    <3>. QED
      BY <1>2, <1>3, <3>1, <3>2
  <2>2. scopes[1].from = 0
    BY <1>1 DEF ScopesFit
  <2>. QED
    BY <1>1, <1>2, <2>1, <2>2 DEF ScopesFit
<1>5. ASSUME NEW k \in 1 .. n, NEW i \in DOMAIN Locals(d, k),
             NEW s, s = ScopeOf(Locals(d, k)[i])
      PROVE  /\ s \in 1 .. D /\ scopes[s].from < Base(d, k) + i
             /\ s < D => Base(d, k) + i <= scopes[s + 1].from
  <2>1. CASE i \in DOMAIN Locals(c, k) /\ Locals(d, k)[i] = Locals(c, k)[i]
    BY <1>2, <1>5, <2>1 DEF LocalsPlaced
  <2>2. CASE k = n /\ i \notin 1 .. Len(Locals(c, n))
    <3>1. i > Len(Locals(c, n)) /\ s = D
      BY <1>3, <1>5, <2>2 DEF Tracks
    <3>2. D \in 1 .. D
      BY <1>1
    <3>3. scopes[D].from <= Len(EnvOf(c)) /\ scopes[D].from \in Nat
      BY <1>1, <3>2, ConstructFields DEF ScopesFit
    <3>4. i \in Nat
      BY <1>2, <1>3, <2>2
    <3>5. scopes[D].from < Base(d, k) + i
      BY SMTT(40), <1>2, <2>2, <3>1, <3>3, <3>4
    <3>. QED
      BY <1>1, <3>1, <3>2, <3>5
  <2>3. n \in 1 .. n /\ DOMAIN Locals(c, n) = 1 .. Len(Locals(c, n))
    BY <1>1, <1>2, LocalsFacts
  <2>. QED
    BY <1>2, <1>3, <2>1, <2>2, <2>3
<1>6. LocalsPlaced(d, scopes)
  BY <1>2, <1>5 DEF LocalsPlaced
<1>. QED
  BY <1>4, <1>6

(* Upvalues name locals and upvalues of the function around theirs: what    *)
(* the last function's locals become does not matter to them.               *)
LEMMA UpvaluesKept ==
  ASSUME NEW c \in Seq(FunctionChunk), NEW d \in Seq(FunctionChunk), UpvaluesOK(c),
         Len(d) <= Len(c),
         \A k \in 1 .. Len(d) : Upvalues(d, k) = Upvalues(c, k),
         \A k \in 1 .. Len(d) - 1 : \A i \in DOMAIN Locals(c, k) :
           /\ i \in DOMAIN Locals(d, k)
           /\ Locals(c, k)[i].is_captured => Locals(d, k)[i].is_captured
  PROVE  UpvaluesOK(d)
<1>1. Len(c) \in Nat /\ Len(d) \in Nat
  OBVIOUS
<1>2. ASSUME NEW k \in 1 .. Len(d)
      PROVE  /\ \A j \in DOMAIN Upvalues(d, k) : UpvalueOK(d, k, Upvalues(d, k)[j])
             /\ \A i, j \in DOMAIN Upvalues(d, k) : Upvalues(d, k)[i] = Upvalues(d, k)[j] => i = j
  <2>1. k \in 1 .. Len(c) /\ Upvalues(d, k) = Upvalues(c, k)
    BY <1>1
  <2>2. \A i, j \in DOMAIN Upvalues(d, k) : Upvalues(d, k)[i] = Upvalues(d, k)[j] => i = j
    BY <2>1 DEF UpvaluesOK
  <2>3. ASSUME NEW j \in DOMAIN Upvalues(d, k), NEW u, u = Upvalues(d, k)[j]
        PROVE  UpvalueOK(d, k, u)
    <3>1. UpvalueOK(c, k, u)
      BY <2>1, <2>3 DEF UpvaluesOK
    <3>2. k > 1 /\ k - 1 \in 1 .. Len(d) /\ k - 1 \in 1 .. Len(d) - 1
      BY <1>1, <3>1 DEF UpvalueOK
    <3>3. Upvalues(d, k - 1) = Upvalues(c, k - 1)
      BY <3>2
    <3>. QED
      BY <3>1, <3>2, <3>3 DEF UpvalueOK
  <2>. QED
    BY <2>2, <2>3
<1>. QED
  BY <1>2 DEF UpvaluesOK

LEMMA TrackedStaysSound ==
  ASSUME NEW c \in Seq(FunctionChunk), c # <<>>, NEW d, NEW scopes, NEW locals, NEW cap,
         Tracks(c, scopes, d, locals), CapturedMarked(c, cap), UpvaluesOK(c)
  PROVE  CapturedMarked(d, cap) /\ UpvaluesOK(d)
<1> DEFINE n == Len(c)
<1>1. BackDiffer(c, d)
  BY DEF Tracks
<1>2. /\ n \in Nat \ {0} /\ d \in Seq(FunctionChunk) /\ Len(d) = n
      /\ \A k \in 1 .. n : Base(d, k) = Base(c, k) /\ Upvalues(d, k) = Upvalues(c, k)
      /\ \A k \in 1 .. n : k # n => Locals(d, k) = Locals(c, k)
      /\ Len(EnvOf(d)) = Base(c, n) + Len(Locals(d, n))
      /\ Len(EnvOf(c)) = Base(c, n) + Len(Locals(c, n))
      /\ Base(c, n) \in Nat /\ Len(Locals(c, n)) \in Nat /\ Len(Locals(d, n)) \in Nat
  BY <1>1, BackDifferFacts
<1>3. /\ Len(locals) \in Nat /\ Len(Locals(d, n)) = Len(Locals(c, n)) + Len(locals)
      /\ \A i \in 1 .. Len(Locals(c, n)) : Locals(d, n)[i] = Locals(c, n)[i]
      /\ \A i \in DOMAIN Locals(d, n) :
              \/ i \in 1 .. Len(Locals(c, n))
              \/ /\ i > Len(Locals(c, n))
                 /\ i - Len(Locals(c, n)) \in 1 .. Len(locals)
                 /\ Locals(d, n)[i] = locals[i - Len(Locals(c, n))]
  BY TracksFacts
<1>4. UpvaluesOK(d)
  <2>1. \A k \in 1 .. n - 1 : Locals(d, k) = Locals(c, k)
    BY <1>2
  <2>2. Len(d) <= Len(c)
    BY <1>2
  <2>. QED
    BY <1>2, <2>1, <2>2, UpvaluesKept
<1>5. cap \subseteq 1 .. Len(EnvOf(d))
  BY <1>2, <1>3 DEF CapturedMarked
<1>6. ASSUME NEW k \in 1 .. n, NEW i \in DOMAIN Locals(d, k)
      PROVE  /\ Base(d, k) + i \in cap => Locals(d, k)[i].is_captured
             /\ Locals(d, k)[i].name = NoName => ~Locals(d, k)[i].is_captured
  <2>1. CASE i \in DOMAIN Locals(c, k) /\ Locals(d, k)[i] = Locals(c, k)[i]
    BY <1>2, <2>1 DEF CapturedMarked
  <2>2. CASE k = n /\ i \notin 1 .. Len(Locals(c, n))
    <3>1. i > Len(Locals(c, n)) /\ i \in Int /\ ~Locals(d, n)[i].is_captured
      BY SMTT(40), <1>2, <1>3, <2>2 DEF Tracks
    <3>2. Base(d, k) + i \notin cap
      BY <1>2, <2>2, <3>1 DEF CapturedMarked
    <3>. QED
      BY <2>2, <3>1, <3>2
  <2>3. n \in 1 .. n /\ DOMAIN Locals(c, n) = 1 .. Len(Locals(c, n))
    BY <1>2, LocalsFacts
  <2>. QED
    BY <1>2, <1>3, <2>1, <2>2, <2>3
<1>. QED
  BY <1>2, <1>4, <1>5, <1>6 DEF CapturedMarked

(* The innermost open scope ends, and is no function's: the variables that  *)
(* were there when it began stay.                                           *)
Pops(c, scopes, d) ==
  /\ BackDiffer(c, d)
  /\ scopes # <<>> /\ scopes[Len(scopes)].kind \notin FunctionKind
  /\ Locals(d, Len(c))
       = SubSeq(Locals(c, Len(c)), 1, scopes[Len(scopes)].from - Base(c, Len(c)))

LEMMA PopsFacts ==
  ASSUME NEW c, NEW scopes, ScopesFit(c, scopes), NEW d, Pops(c, scopes, d)
  PROVE  /\ Len(c) \in Nat \ {0} /\ Len(scopes) \in Nat \ {0}
         /\ scopes[Len(scopes)].from \in Base(c, Len(c)) .. Len(EnvOf(c))
         /\ Base(c, Len(c)) \in Nat
         /\ Len(EnvOf(d)) = scopes[Len(scopes)].from
         /\ DOMAIN Locals(d, Len(c)) = 1 .. scopes[Len(scopes)].from - Base(c, Len(c))
         /\ \A k \in 1 .. Len(c) : \A i \in DOMAIN Locals(d, k) :
              i \in DOMAIN Locals(c, k) /\ Locals(d, k)[i] = Locals(c, k)[i]
         /\ \A k \in 1 .. Len(c) : \A i \in DOMAIN Locals(d, k) :
              Base(c, k) + i \in 1 .. scopes[Len(scopes)].from
         /\ \A k \in 1 .. Len(c) : \A i \in DOMAIN Locals(c, k) :
              Base(c, k) + i <= scopes[Len(scopes)].from => i \in DOMAIN Locals(d, k)
<1> DEFINE D == Len(scopes)
           n == Len(c)
           f == scopes[D].from
<1>1. /\ c \in Seq(FunctionChunk) /\ c # <<>> /\ scopes \in Seq(Construct)
      /\ scopes # <<>> /\ D \in Nat \ {0} /\ BackDiffer(c, d) /\ n = Home(scopes, D)
  BY DEF ScopesFit, Pops
<1>2. /\ n \in Nat \ {0} /\ d \in Seq(FunctionChunk) /\ Len(d) = n
      /\ \A k \in 1 .. n : k # n => Locals(d, k) = Locals(c, k)
      /\ Len(EnvOf(d)) = Base(c, n) + Len(Locals(d, n))
      /\ Len(EnvOf(c)) = Base(c, n) + Len(Locals(c, n))
      /\ Base(c, n) \in Nat /\ Len(Locals(c, n)) \in Nat
  BY <1>1, BackDifferFacts
<1>3. f \in Base(c, n) .. Len(EnvOf(c))
  <2>1. D \in 1 .. D
    BY <1>1
  <2>. QED
    BY <1>1, <2>1 DEF ScopesFit
<1>4. PICK L, M, m : L = Locals(c, n) /\ M = Locals(d, n) /\ m = f - Base(c, n)
  OBVIOUS
<1>5. L \in Seq(TrackedLocal) /\ M = SubSeq(L, 1, m) /\ m \in 0 .. Len(L)
  <2>1. n \in 1 .. n
    BY <1>2
  <2>2. L \in Seq(TrackedLocal)
    BY <1>1, <1>4, <2>1, LocalsFacts
  <2>3. M = SubSeq(L, 1, m)
    BY <1>4 DEF Pops
  <2>4. m \in 0 .. Len(L)
    <3>1. Base(c, n) \in Nat /\ Len(EnvOf(c)) = Base(c, n) + Len(Locals(c, n))
      BY <1>2
    <3>2. Len(Locals(c, n)) \in Nat
      BY <1>4, <2>2
    <3>. QED
      BY <1>3, <1>4, <3>1, <3>2
  <2>. QED
    BY <2>2, <2>3, <2>4
<1>6. DOMAIN M = 1 .. m /\ Len(M) = m /\ DOMAIN L = 1 .. Len(L) /\ Len(L) \in Nat
      /\ \A i \in 1 .. m : M[i] = L[i]
  BY <1>5
<1>7. Len(EnvOf(d)) = f
  BY SMTT(40), <1>2, <1>3, <1>4, <1>6
<1>8. ASSUME NEW k \in 1 .. n, NEW i \in DOMAIN Locals(d, k)
      PROVE  i \in DOMAIN Locals(c, k) /\ Locals(d, k)[i] = Locals(c, k)[i]
  <2>1. CASE k = n
    <3>1. i \in DOMAIN M
      BY <1>4, <1>8, <2>1
    <3>2. i \in DOMAIN L /\ M[i] = L[i]
      BY <1>5, <1>6, <3>1
    <3>. QED
      BY <1>4, <2>1, <3>2
  <2>2. CASE k # n
    BY <1>2, <1>8, <2>2
  <2>. QED
    BY <2>1, <2>2
<1>9. ASSUME NEW k \in 1 .. n, k # n, NEW i \in DOMAIN Locals(c, k)
      PROVE  Base(c, k) + i \in 1 .. f
  <2>1. k + 1 \in 1 .. n + 1 /\ n \in 1 .. n + 1 /\ k + 1 <= n /\ k \in 1 .. n + 1
    BY <1>2, <1>9
  <2>2. Base(c, k + 1) = Base(c, k) + Len(Locals(c, k)) /\ Base(c, k + 1) <= Base(c, n)
        /\ Base(c, k) \in Nat
    BY <1>1, <2>1, EnvFacts
  <2>3. i \in 1 .. Len(Locals(c, k)) /\ Len(Locals(c, k)) \in Nat
    BY <1>1, LocalsFacts
  <2>4. Base(c, k) + i \in 1 .. Base(c, n)
    BY SMTT(40), <1>2, <2>2, <2>3
  <2>5. Base(c, n) <= f /\ f \in Nat
    BY <1>2, <1>3
  <2>. QED
    BY <1>2, <2>4, <2>5
<1>10. ASSUME NEW i \in DOMAIN M PROVE Base(c, n) + i \in 1 .. f
  <2>1. i \in 1 .. m /\ m = f - Base(c, n) /\ m \in Nat
    BY <1>4, <1>5, <1>6
  <2>2. Base(c, n) \in Nat /\ f \in Nat
    <3>1. Base(c, n) \in Nat /\ Len(EnvOf(c)) \in Nat
      BY <1>2
    <3>. QED
      BY <1>3, <3>1
  <2>. QED
    BY <2>1, <2>2
<1>11. ASSUME NEW i \in DOMAIN L, Base(c, n) + i <= f PROVE i \in DOMAIN M
  BY SMTT(40), <1>2, <1>3, <1>4, <1>6, <1>11
<1>. QED
  <2>1. ASSUME NEW k \in 1 .. n, NEW i \in DOMAIN Locals(d, k)
        PROVE  Base(c, k) + i \in 1 .. f
    BY <1>4, <1>8, <1>9, <1>10
  <2>2. ASSUME NEW k \in 1 .. n, NEW i \in DOMAIN Locals(c, k), Base(c, k) + i <= f
        PROVE  i \in DOMAIN Locals(d, k)
    BY <1>2, <1>4, <1>11, <2>2
  <2>. QED
    BY <1>1, <1>2, <1>3, <1>4, <1>6, <1>7, <1>8, <2>1, <2>2

LEMMA ScopePops ==
  ASSUME NEW c, NEW scopes, ScopesFit(c, scopes), LocalsPlaced(c, scopes),
         NEW d, Pops(c, scopes, d)
  PROVE  ScopesFit(d, Front(scopes)) /\ LocalsPlaced(d, Front(scopes))
<1> DEFINE less == Front(scopes)
           D == Len(scopes)
           n == Len(c)
           f == scopes[D].from
<1>1. /\ c \in Seq(FunctionChunk) /\ c # <<>> /\ scopes \in Seq(Construct)
      /\ scopes # <<>> /\ D \in Nat \ {0} /\ BackDiffer(c, d) /\ n = Home(scopes, D)
  BY DEF ScopesFit, Pops
<1>2. /\ n \in Nat \ {0} /\ d \in Seq(FunctionChunk) /\ Len(d) = n /\ d # <<>>
      /\ \A k \in 1 .. n : Base(d, k) = Base(c, k)
  BY <1>1, BackDifferFacts
<1>3. /\ f \in Base(c, n) .. Len(EnvOf(c)) /\ Base(c, n) \in Nat /\ Len(EnvOf(d)) = f
      /\ \A k \in 1 .. n : \A i \in DOMAIN Locals(d, k) :
           i \in DOMAIN Locals(c, k) /\ Locals(d, k)[i] = Locals(c, k)[i]
      /\ \A k \in 1 .. n : \A i \in DOMAIN Locals(d, k) : Base(c, k) + i \in 1 .. f
  BY PopsFacts
<1>4. /\ less \in Seq(Construct) /\ Len(less) = D - 1
      /\ \A e \in 1 .. D - 1 : less[e] = scopes[e]
  BY <1>1, FrontLast
<1>. HIDE DEF less
<1>5. \A e \in 0 .. D - 1 : Home(less, e) = Home(scopes, e)
  <2>1. D - 1 \in Nat /\ \A e \in 1 .. D - 1 : less[e].kind = scopes[e].kind
    BY <1>1, <1>4
  <2>. QED
    BY <2>1, HomePrefix
<1>6. Home(scopes, D - 1) = n
  <2>1. D \in 1 .. D /\ D - 1 \in 0 .. D
    BY <1>1
  <2>2. Home(scopes, D) = Home(scopes, D - 1) + 0 /\ Home(scopes, D - 1) \in Nat
    BY <1>1, <2>1, HomeFacts DEF Pops
  <2>. QED
    BY <1>1, <2>2
<1>7. \A k \in 1 .. n : Base(c, k) \in Nat
  BY <1>1, EnvFacts
<1>8. ASSUME NEW e \in 1 .. D - 1
      PROVE  /\ Home(less, e) \in 1 .. Len(d)
             /\ less[e].from \in Base(d, Home(less, e)) .. Len(EnvOf(d))
             /\ less[e].kind \in FunctionKind => less[e].from = Base(d, Home(less, e))
             /\ \A b \in 1 .. e : less[b].from <= less[e].from
  <2>1. e \in 1 .. D /\ e \in 0 .. D - 1 /\ D \in 1 .. D /\ e \in 1 .. D
    BY <1>1
  <2>2. /\ Home(scopes, e) \in 1 .. n
        /\ scopes[e].from \in Base(c, Home(scopes, e)) .. Len(EnvOf(c))
        /\ scopes[e].kind \in FunctionKind => scopes[e].from = Base(c, Home(scopes, e))
        /\ \A b \in 1 .. e : scopes[b].from <= scopes[e].from
    BY <2>1 DEF ScopesFit
  <2>3. scopes[e].from <= f
    BY <2>1 DEF ScopesFit
  <2>4. Base(d, Home(scopes, e)) = Base(c, Home(scopes, e)) /\ Base(c, Home(scopes, e)) \in Nat
    BY <1>2, <1>7, <2>2
  <2>5. scopes[e].from \in Nat
    BY <1>1, <2>1, ConstructFields
  <2>6. scopes[e].from \in Base(d, Home(scopes, e)) .. Len(EnvOf(d))
    BY <1>3, <2>2, <2>3, <2>4, <2>5
  <2>7. less[e] = scopes[e] /\ Home(less, e) = Home(scopes, e)
    BY <1>4, <1>5, <2>1
  <2>8. \A b \in 1 .. e : less[b] = scopes[b]
    BY <1>1, <1>4
  <2>. QED
    BY <1>2, <2>2, <2>4, <2>6, <2>7, <2>8
<1>9. ScopesFit(d, less)
  <2>1. Len(d) = Home(less, D - 1)
    <3>1. D - 1 \in 0 .. D - 1
      BY <1>1
    <3>. QED
      BY <1>2, <1>5, <1>6, <3>1
  <2>2. less # <<>> => less[1].from = 0
    <3>1. less # <<>> => 1 \in 1 .. D - 1
      BY <1>1, <1>4
    <3>. QED
      BY <1>1, <1>4, <3>1 DEF ScopesFit
  <2>. QED
    BY <1>2, <1>4, <1>8, <2>1, <2>2 DEF ScopesFit
<1>10. ASSUME NEW k \in 1 .. n, NEW i \in DOMAIN Locals(d, k),
              NEW s, s = ScopeOf(Locals(d, k)[i])
       PROVE  /\ s \in 1 .. D - 1 /\ less[s].from < Base(d, k) + i
              /\ s < D - 1 => Base(d, k) + i <= less[s + 1].from
  <2>1. i \in DOMAIN Locals(c, k) /\ s = ScopeOf(Locals(c, k)[i]) /\ Base(d, k) = Base(c, k)
    BY <1>2, <1>3, <1>10
  <2>2. s \in 1 .. D /\ scopes[s].from < Base(d, k) + i
        /\ (s < D => Base(d, k) + i <= scopes[s + 1].from)
    BY <2>1 DEF LocalsPlaced
  <2>3. ~ (Base(c, k) + i > f) /\ D \in 1 .. D
    <3>1. PICK p : p = Base(c, k) + i
      OBVIOUS
    <3>2. p \in 1 .. f /\ f \in Nat
      BY <1>3, <3>1
    <3>. QED
      BY <1>1, <3>1, <3>2
  <2>4. ~ (s >= D)
    BY <2>1, <2>3, InScope
  <2>5. s \in 1 .. D - 1
    BY <1>1, <2>2, <2>4
  <2>6. less[s] = scopes[s]
    BY <1>4, <2>5
  <2>7. s < D - 1 => s + 1 \in 1 .. D - 1 /\ s < D
    BY <1>1, <2>5
  <2>. QED
    BY <1>4, <2>2, <2>5, <2>6, <2>7
<1>11. LocalsPlaced(d, less)
  BY <1>2, <1>4, <1>10 DEF LocalsPlaced
<1>. QED
  BY <1>9, <1>11 DEF less

(* What is in scope before and after variables are removed. *)
LEMMA EnvShrinks ==
  ASSUME NEW c \in Seq(FunctionChunk), NEW d \in Seq(FunctionChunk),
         Len(d) <= Len(c), Len(EnvOf(d)) <= Len(EnvOf(c)),
         \A k \in 1 .. Len(d) :
           /\ Base(d, k) = Base(c, k)
           /\ \A i \in DOMAIN Locals(d, k) :
                i \in DOMAIN Locals(c, k) /\ Locals(d, k)[i].name = Locals(c, k)[i].name
  PROVE  EnvOf(d) = SubSeq(EnvOf(c), 1, Len(EnvOf(d)))
<1>1. PICK e, g : e = EnvOf(c) /\ g = EnvOf(d)
  OBVIOUS
<1>2. e \in Seq(Name) /\ g \in Seq(Name) /\ Len(g) <= Len(e)
  BY <1>1, EnvFacts
<1>3. ASSUME NEW p \in 1 .. Len(g)
      PROVE  g[p] = e[p]
  <2>1. PICK k \in 1 .. Len(d) : \E i \in DOMAIN Locals(d, k) : p = Base(d, k) + i
    BY <1>1, EnvFacts
  <2>2. PICK i \in DOMAIN Locals(d, k) : p = Base(d, k) + i
    BY <2>1
  <2>3. EnvOf(d)[Base(d, k) + i] = Locals(d, k)[i].name
    BY EnvFacts
  <2>4. k \in 1 .. Len(c)
    OBVIOUS
  <2>5. i \in DOMAIN Locals(c, k) /\ Locals(d, k)[i].name = Locals(c, k)[i].name
        /\ Base(d, k) = Base(c, k)
    OBVIOUS
  <2>6. EnvOf(c)[Base(c, k) + i] = Locals(c, k)[i].name
    BY <2>4, <2>5, EnvFacts
  <2>. QED
    BY <1>1, <2>2, <2>3, <2>5, <2>6
<1>4. g = SubSeq(e, 1, Len(g))
  BY <1>2, <1>3
<1>. QED
  BY <1>1, <1>4

LEMMA PoppedStaysSound ==
  ASSUME NEW c, NEW scopes, ScopesFit(c, scopes), NEW d, Pops(c, scopes, d), NEW cap,
         CapturedMarked(c, cap), UpvaluesOK(c), NoShadows(c)
  PROVE  /\ CapturedMarked(d, cap \cap 1 .. Len(EnvOf(d))) /\ UpvaluesOK(d) /\ NoShadows(d)
         /\ EnvOf(d) = SubSeq(EnvOf(c), 1, scopes[Len(scopes)].from)
<1> DEFINE n == Len(c)
           f == scopes[Len(scopes)].from
<1>1. c \in Seq(FunctionChunk) /\ c # <<>> /\ BackDiffer(c, d)
  BY DEF ScopesFit, Pops
<1>2. /\ n \in Nat \ {0} /\ d \in Seq(FunctionChunk) /\ Len(d) = n
      /\ \A k \in 1 .. n : Base(d, k) = Base(c, k) /\ Upvalues(d, k) = Upvalues(c, k)
      /\ \A k \in 1 .. n : k # n => d[k] = c[k] /\ Locals(d, k) = Locals(c, k)
  BY <1>1, BackDifferFacts
<1>3. /\ f \in Base(c, n) .. Len(EnvOf(c)) /\ Base(c, n) \in Nat /\ Len(EnvOf(d)) = f
      /\ \A k \in 1 .. n : \A i \in DOMAIN Locals(d, k) :
           i \in DOMAIN Locals(c, k) /\ Locals(d, k)[i] = Locals(c, k)[i]
  BY PopsFacts
<1>4. UpvaluesOK(d)
  <2>1. \A k \in 1 .. n - 1 : Locals(d, k) = Locals(c, k)
    BY <1>2
  <2>2. Len(d) <= Len(c)
    BY <1>2
  <2>. QED
    BY <1>1, <1>2, <2>1, <2>2, UpvaluesKept
<1>5. EnvOf(d) = SubSeq(EnvOf(c), 1, f)
  <2>1. Len(d) <= Len(c) /\ Len(EnvOf(d)) <= Len(EnvOf(c))
    BY <1>1, <1>2, <1>3, EnvFacts
  <2>2. EnvOf(d) = SubSeq(EnvOf(c), 1, Len(EnvOf(d)))
    BY <1>1, <1>2, <1>3, <2>1, EnvShrinks
  <2>. QED
    BY <1>3, <2>2
<1>6. CapturedMarked(d, cap \cap 1 .. Len(EnvOf(d)))
  BY <1>2, <1>3 DEF CapturedMarked
<1>7. NoShadows(d)
  <2>1. ASSUME ~ShadowInFunction, NEW k \in 1 .. n
        PROVE  IsInjective(NamesOf(d[k]))
    <3>1. d[k] \in FunctionChunk /\ c[k] \in FunctionChunk
      BY <1>1, <1>2, LocalsFacts
    <3>2. \A a \in FunctionChunk : DOMAIN NamesOf(a) = DOMAIN a.tracked_locals
            /\ \A i \in DOMAIN a.tracked_locals : NamesOf(a)[i] = a.tracked_locals[i].name
      BY NamesOfFacts
    <3>3. \A i \in DOMAIN NamesOf(d[k]) :
            i \in DOMAIN NamesOf(c[k]) /\ NamesOf(d[k])[i] = NamesOf(c[k])[i]
      BY <1>2, <1>3, <3>1, <3>2 DEF Locals
    <3>4. IsInjective(NamesOf(c[k]))
      BY <1>2, <2>1 DEF NoShadows
    <3>. QED
      BY <3>3, <3>4 DEF IsInjective
  <2>. QED
    BY <1>2, <2>1 DEF NoShadows
<1>. QED
  BY <1>4, <1>5, <1>6, <1>7

(* A function begins, with a scope for its first locals. *)
Begins(c, scopes, d, more, b, s) ==
  /\ b \in FunctionChunk /\ s \in Construct
  /\ d = Append(c, b) /\ more = Append(scopes, s)
  /\ s.kind \in FunctionKind /\ s.from = Len(EnvOf(c))
  /\ b.tracked_upvalues = <<>>
  /\ \A i \in DOMAIN b.tracked_locals :
       ScopeOf(b.tracked_locals[i]) = Len(scopes) + 1 /\ ~b.tracked_locals[i].is_captured

LEMMA FunctionBegins ==
  ASSUME NEW c, NEW scopes, ScopesFit(c, scopes), LocalsPlaced(c, scopes),
         scopes = <<>> => EnvOf(c) = <<>>,
         NEW d, NEW more, NEW b, NEW s, Begins(c, scopes, d, more, b, s)
  PROVE  ScopesFit(d, more) /\ LocalsPlaced(d, more)
<1> DEFINE D == Len(scopes)
           n == Len(c)
<1>1. /\ c \in Seq(FunctionChunk) /\ c # <<>> /\ scopes \in Seq(Construct) /\ D \in Nat
      /\ n = Home(scopes, D) /\ n \in Nat \ {0}
      /\ b \in FunctionChunk /\ s \in Construct
      /\ s.kind \in FunctionKind /\ s.from = Len(EnvOf(c))
  BY DEF ScopesFit, Begins
<1>2. /\ more \in Seq(Construct) /\ Len(more) = D + 1 /\ more[D + 1] = s
      /\ \A e \in 1 .. D : more[e] = scopes[e]
  <2>1. more = Append(scopes, s)
    BY DEF Begins
  <2>. QED
    BY <1>1, <2>1, AppendProperties
<1>3. /\ d \in Seq(FunctionChunk) /\ Len(d) = n + 1 /\ d[n + 1] = b /\ d # <<>>
      /\ \A k \in 1 .. n : d[k] = c[k]
      /\ \A k \in 1 .. n + 1 : Base(d, k) = Base(c, k)
      /\ Base(d, n + 1) = Len(EnvOf(c))
      /\ Len(EnvOf(d)) = Len(EnvOf(c)) + Len(b.tracked_locals)
  <2>1. d = Append(c, b)
    BY DEF Begins
  <2>. QED
    <3>1. c \in Seq(FunctionChunk) /\ b \in FunctionChunk
      BY <1>1
    <3>2. /\ d \in Seq(FunctionChunk) /\ Len(d) = n + 1 /\ d[n + 1] = b /\ d # <<>>
          /\ \A k \in 1 .. n : d[k] = c[k]
      BY <2>1, <3>1, AppendProperties
    <3>3. /\ \A k \in 1 .. n + 1 : Base(d, k) = Base(c, k)
          /\ Base(d, n + 1) = Len(EnvOf(c))
          /\ Len(EnvOf(d)) = Len(EnvOf(c)) + Len(b.tracked_locals)
      BY <3>1, <3>2, ChunkBegins
    <3>. QED
      BY <3>2, <3>3
<1>4. Len(b.tracked_locals) \in Nat
  BY <1>1, NamesOfFacts
<1>5. Len(EnvOf(c)) \in Nat /\ \A k \in 1 .. n + 1 : Base(c, k) \in 0 .. Len(EnvOf(c))
  BY <1>1, EnvFacts
<1>6. \A e \in 0 .. D : Home(more, e) = Home(scopes, e)
  <2>1. \A e \in 1 .. D : more[e].kind = scopes[e].kind
    BY <1>2
  <2>. QED
    BY <1>1, <2>1, HomePrefix
<1>7. Home(more, D + 1) = n + 1
  <2>1. D + 1 \in 1 .. Len(more) /\ (D + 1) - 1 = D /\ more[D + 1].kind \in FunctionKind
    BY <1>1, <1>2
  <2>2. Home(more, D + 1) = Home(more, D) + 1
    BY <1>2, <2>1, HomeFacts
  <2>3. D \in 0 .. D
    BY <1>1
  <2>. QED
    BY <1>1, <1>6, <2>2, <2>3
<1>8. \A e \in 1 .. D : scopes[e].from \in 0 .. Len(EnvOf(c))
  BY <1>1, <1>5 DEF ScopesFit
<1>9. ASSUME NEW e \in 1 .. D + 1
      PROVE  /\ Home(more, e) \in 1 .. n + 1
             /\ more[e].from \in Base(d, Home(more, e)) .. Len(EnvOf(d))
             /\ more[e].kind \in FunctionKind => more[e].from = Base(d, Home(more, e))
             /\ \A a \in 1 .. e : more[a].from <= more[e].from
  <2>1. CASE e = D + 1
    <3>1. Home(more, e) = n + 1 /\ more[e] = s
      BY <1>2, <1>7, <2>1
    <3>2. ASSUME NEW a \in 1 .. e PROVE more[a].from <= more[e].from
      <4>1. a \in 1 .. D \/ a = e
        BY <1>1, <2>1
      <4>. QED
        BY <1>1, <1>2, <1>5, <1>8, <3>1, <4>1
    <3>3. s.from \in Base(d, n + 1) .. Len(EnvOf(d)) /\ s.from = Base(d, n + 1)
      BY <1>1, <1>3, <1>4, <1>5
    <3>4. n + 1 \in 1 .. n + 1
      BY <1>1
    <3>. QED
      BY <3>1, <3>2, <3>3, <3>4
  <2>2. CASE e # D + 1
    <3>1. e \in 1 .. D /\ e \in 0 .. D
      BY <1>1, <2>2
    <3>2. more[e] = scopes[e] /\ Home(more, e) = Home(scopes, e)
      BY <1>2, <1>6, <3>1
    <3>3. \A a \in 1 .. e : more[a] = scopes[a]
      BY <1>1, <1>2, <3>1
    <3>4. PICK h, f : h = Home(scopes, e) /\ f = scopes[e].from
      OBVIOUS
    <3>5. /\ h \in 1 .. n /\ f \in Base(c, h) .. Len(EnvOf(c))
          /\ scopes[e].kind \in FunctionKind => f = Base(c, h)
          /\ \A a \in 1 .. e : scopes[a].from <= f
      BY <3>1, <3>4 DEF ScopesFit
    <3>6. h \in 1 .. n + 1 /\ Base(d, h) = Base(c, h) /\ f \in Base(d, h) .. Len(EnvOf(d))
      BY <1>1, <1>3, <1>4, <1>5, <3>5
    <3>. QED
      BY <3>2, <3>3, <3>4, <3>5, <3>6
  <2>. QED
    BY <2>1, <2>2
<1>10. more[1].from = 0
  <2>1. CASE scopes = <<>>
    <3>1. D = 0 /\ Len(EnvOf(c)) = 0
      BY <2>1
    <3>. QED
      BY <1>1, <1>2, <3>1
  <2>2. CASE scopes # <<>>
    BY <1>1, <1>2, <2>2 DEF ScopesFit
  <2>. QED
    BY <2>1, <2>2
<1>11. ScopesFit(d, more)
  BY <1>2, <1>3, <1>7, <1>9, <1>10 DEF ScopesFit
<1>12. ASSUME NEW k \in 1 .. n + 1, NEW i \in DOMAIN Locals(d, k),
              NEW t, t = ScopeOf(Locals(d, k)[i])
       PROVE  /\ t \in 1 .. D + 1 /\ more[t].from < Base(d, k) + i
              /\ t < D + 1 => Base(d, k) + i <= more[t + 1].from
  <2>1. CASE k = n + 1
    <3>1. Locals(d, k) = b.tracked_locals
      BY <1>3, <2>1 DEF Locals
    <3>2. t = D + 1 /\ i \in 1 .. Len(b.tracked_locals)
      BY <1>1, <1>12, <3>1, NamesOfFacts DEF Begins
    <3>. QED
      BY <1>1, <1>2, <1>3, <1>4, <1>5, <2>1, <3>2
  <2>2. CASE k # n + 1
    <3>1. k \in 1 .. n
      BY <1>1, <2>2
    <3>2. Locals(d, k) = Locals(c, k) /\ Base(d, k) = Base(c, k)
      BY <1>1, <1>3, <3>1 DEF Locals
    <3>3. t \in 1 .. D /\ scopes[t].from < Base(c, k) + i
          /\ (t < D => Base(c, k) + i <= scopes[t + 1].from)
      BY <1>12, <3>1, <3>2 DEF LocalsPlaced
    <3>4. Base(c, k) + i <= Len(EnvOf(c))
      BY <1>1, <1>5, <3>1, <3>2, EnvFacts
    <3>5. t = D \/ (t < D /\ t + 1 \in 1 .. D)
      BY <1>1, <3>3
    <3>6. t \in 1 .. D + 1
      BY <1>1, <3>3
    <3>7. CASE t = D
      BY <1>1, <1>2, <3>2, <3>3, <3>4, <3>6, <3>7
    <3>8. CASE t < D /\ t + 1 \in 1 .. D
      BY <1>2, <3>2, <3>3, <3>6, <3>8
    <3>. QED
      BY <3>5, <3>7, <3>8
  <2>. QED
    BY <2>1, <2>2
<1>13. LocalsPlaced(d, more)
  BY <1>2, <1>3, <1>12 DEF LocalsPlaced
<1>. QED
  BY <1>11, <1>13

LEMMA BegunStaysSound ==
  ASSUME NEW c, NEW scopes, ScopesFit(c, scopes), NEW d, NEW more, NEW b, NEW s,
         Begins(c, scopes, d, more, b, s), NEW cap,
         CapturedMarked(c, cap), UpvaluesOK(c)
  PROVE  CapturedMarked(d, cap) /\ UpvaluesOK(d)
<1> DEFINE n == Len(c)
<1>1. c \in Seq(FunctionChunk) /\ b \in FunctionChunk /\ n \in Nat /\ d = Append(c, b)
  BY DEF ScopesFit, Begins
<1>2. /\ d \in Seq(FunctionChunk) /\ Len(d) = n + 1 /\ d[n + 1] = b /\ d # <<>>
      /\ \A k \in 1 .. n : d[k] = c[k]
  BY <1>1, AppendProperties
<1>3. /\ \A k \in 1 .. n + 1 : Base(d, k) = Base(c, k)
      /\ Base(d, n + 1) = Len(EnvOf(c))
      /\ Len(EnvOf(d)) = Len(EnvOf(c)) + Len(b.tracked_locals)
  BY <1>1, <1>2, ChunkBegins
<1>4. /\ Len(b.tracked_locals) \in Nat /\ Len(EnvOf(c)) \in Nat
      /\ DOMAIN b.tracked_locals = 1 .. Len(b.tracked_locals)
  BY <1>1, NamesOfFacts, EnvFacts
<1>5. \A k \in 1 .. n : Locals(d, k) = Locals(c, k) /\ Upvalues(d, k) = Upvalues(c, k)
  BY <1>2 DEF Locals, Upvalues
<1>6. Locals(d, n + 1) = b.tracked_locals /\ Upvalues(d, n + 1) = <<>>
  BY <1>2 DEF Locals, Upvalues, Begins
<1>7. CapturedMarked(d, cap)
  <2>1. cap \subseteq 1 .. Len(EnvOf(d))
    BY <1>3, <1>4 DEF CapturedMarked
  <2>2. ASSUME NEW k \in 1 .. n + 1, NEW i \in DOMAIN Locals(d, k)
        PROVE  /\ Base(d, k) + i \in cap => Locals(d, k)[i].is_captured
               /\ Locals(d, k)[i].name = NoName => ~Locals(d, k)[i].is_captured
    <3>1. CASE k = n + 1
      <4>1. ~Locals(d, k)[i].is_captured /\ i \in 1 .. Len(b.tracked_locals)
        BY <1>4, <1>6, <3>1 DEF Begins
      <4>2. Base(d, k) + i \notin cap
        BY <1>3, <1>4, <3>1, <4>1 DEF CapturedMarked
      <4>. QED
        BY <4>1, <4>2
    <3>2. CASE k # n + 1
      <4>1. k \in 1 .. n
        BY <1>1, <3>2
      <4>. QED
        BY <1>3, <1>5, <4>1 DEF CapturedMarked
    <3>. QED
      BY <3>1, <3>2
  <2>. QED
    BY <1>2, <2>1, <2>2 DEF CapturedMarked
<1>8. UpvaluesOK(d)
  <2>1. ASSUME NEW k \in 1 .. n + 1
        PROVE  /\ \A j \in DOMAIN Upvalues(d, k) : UpvalueOK(d, k, Upvalues(d, k)[j])
               /\ \A i, j \in DOMAIN Upvalues(d, k) : Upvalues(d, k)[i] = Upvalues(d, k)[j] => i = j
    <3>1. CASE k = n + 1
      BY <1>6, <3>1
    <3>2. CASE k # n + 1
      <4>1. k \in 1 .. n
        BY <1>1, <3>2
      <4>2. ASSUME NEW u, UpvalueOK(c, k, u)
            PROVE  UpvalueOK(d, k, u)
        <5>1. k > 1 /\ k - 1 \in 1 .. n
          BY <1>1, <4>1, <4>2 DEF UpvalueOK
        <5>2. Locals(d, k - 1) = Locals(c, k - 1) /\ Upvalues(d, k - 1) = Upvalues(c, k - 1)
          BY <1>5, <5>1
        <5>. QED
          BY <4>2, <5>1, <5>2 DEF UpvalueOK
      <4>. QED
        BY <1>5, <4>1, <4>2 DEF UpvaluesOK
    <3>. QED
      BY <3>1, <3>2
  <2>. QED
    BY <1>2, <2>1 DEF UpvaluesOK
<1>. QED
  BY <1>7, <1>8

(* A function ends, and its first scope with it. *)
LEMMA HomeMonotone ==
  ASSUME NEW scopes, NEW b \in Nat, NEW a \in 0 .. b
  PROVE  Home(scopes, a) <= Home(scopes, b)
<1> DEFINE F(e) == {i \in 1 .. e : scopes[i].kind \in FunctionKind}
<1>1. IsFiniteSet(F(b))
  <2>1. IsFiniteSet(1 .. b) /\ F(b) \subseteq 1 .. b
    BY FS_Interval
  <2>. QED
    BY <2>1, FS_Subset
<1>2. F(a) \subseteq F(b)
  OBVIOUS
<1>3. Cardinality(F(a)) <= Cardinality(F(b)) /\ Cardinality(F(a)) \in Nat /\ Cardinality(F(b)) \in Nat
  <2>. HIDE DEF F
  <2>. QED
    BY <1>1, <1>2, FS_Subset, FS_CardinalityType
<1>. QED
  BY <1>3 DEF Home

LEMMA FunctionEnds ==
  ASSUME NEW c, NEW scopes, ScopesFit(c, scopes), LocalsPlaced(c, scopes),
         scopes # <<>>, scopes[Len(scopes)].kind \in FunctionKind
  PROVE  /\ Len(c) \in Nat \ {0, 1}
         /\ scopes[Len(scopes)].from = Len(EnvOf(Front(c)))
         /\ ScopesFit(Front(c), Front(scopes)) /\ LocalsPlaced(Front(c), Front(scopes))
<1> DEFINE less == Front(scopes)
           d == Front(c)
           D == Len(scopes)
           n == Len(c)
           f == scopes[D].from
<1>1. /\ c \in Seq(FunctionChunk) /\ c # <<>> /\ scopes \in Seq(Construct)
      /\ D \in Nat \ {0} /\ n \in Nat \ {0} /\ n = Home(scopes, D) /\ D \in 1 .. D
  BY DEF ScopesFit
<1>2. /\ less \in Seq(Construct) /\ Len(less) = D - 1
      /\ \A e \in 1 .. D - 1 : less[e] = scopes[e]
  BY <1>1, FrontLast
<1>3. /\ d \in Seq(FunctionChunk) /\ Len(d) = n - 1
      /\ \A k \in 1 .. n - 1 : d[k] = c[k]
      /\ \A k \in 1 .. n : Base(d, k) = Base(c, k)
      /\ Len(EnvOf(d)) = Base(c, n)
  BY <1>1, EnvOfBack
<1>4. f = Base(c, n)
  BY <1>1 DEF ScopesFit
<1>. HIDE DEF less, d
<1>5. \A e \in 0 .. D - 1 : Home(less, e) = Home(scopes, e)
  <2>1. D - 1 \in Nat /\ \A e \in 1 .. D - 1 : less[e].kind = scopes[e].kind
    BY <1>1, <1>2
  <2>. QED
    BY <2>1, HomePrefix
<1>6. Home(scopes, D - 1) = n - 1 /\ n - 1 \in Nat \ {0}
  <2>1. D - 1 \in 0 .. D
    BY <1>1
  <2>2. Home(scopes, D) = Home(scopes, D - 1) + 1 /\ Home(scopes, D - 1) \in Nat \ {0}
    BY <1>1, <2>1, HomeFacts
  <2>. QED
    BY <1>1, <2>2
<1>7. \A k \in 1 .. n : Base(c, k) \in Nat
  BY <1>1, EnvFacts
<1>8. n \in 1 .. n /\ f \in Nat /\ d # <<>>
  BY <1>1, <1>3, <1>4, <1>6, <1>7
<1>9. ASSUME NEW e \in 1 .. D - 1
      PROVE  /\ Home(less, e) \in 1 .. Len(d)
             /\ less[e].from \in Base(d, Home(less, e)) .. Len(EnvOf(d))
             /\ less[e].kind \in FunctionKind => less[e].from = Base(d, Home(less, e))
             /\ \A b \in 1 .. e : less[b].from <= less[e].from
  <2>1. e \in 1 .. D /\ e \in 0 .. D - 1 /\ D - 1 \in Nat
    BY <1>1
  <2>2. PICK h, g : h = Home(scopes, e) /\ g = scopes[e].from
    OBVIOUS
  <2>3. /\ h \in 1 .. n /\ g \in Base(c, h) .. Len(EnvOf(c))
        /\ scopes[e].kind \in FunctionKind => g = Base(c, h)
        /\ \A b \in 1 .. e : scopes[b].from <= g
    BY <2>1, <2>2 DEF ScopesFit
  <2>4. h <= n - 1
    BY <1>6, <2>1, <2>2, HomeMonotone
  <2>5. h \in 1 .. n - 1
    BY <1>1, <2>3, <2>4
  <2>6. g <= f
    BY <1>1, <2>1, <2>2 DEF ScopesFit
  <2>7. Base(d, h) = Base(c, h) /\ Base(c, h) \in Nat
    BY <1>3, <1>7, <2>3
  <2>8. g \in Nat
    BY <1>1, <2>1, <2>2, ConstructFields
  <2>9. g \in Base(d, h) .. Len(EnvOf(d))
    BY <1>3, <1>4, <1>8, <2>3, <2>6, <2>7, <2>8
  <2>10. less[e] = scopes[e] /\ Home(less, e) = h
    BY <1>2, <1>5, <2>1, <2>2
  <2>11. \A b \in 1 .. e : less[b] = scopes[b]
    BY <1>1, <1>2
  <2>. QED
    BY <1>3, <2>2, <2>3, <2>5, <2>7, <2>9, <2>10, <2>11
<1>10. ScopesFit(d, less)
  <2>1. Len(d) = Home(less, D - 1)
    <3>1. D - 1 \in 0 .. D - 1
      BY <1>1
    <3>. QED
      BY <1>3, <1>5, <1>6, <3>1
  <2>2. less # <<>> => less[1].from = 0
    <3>1. less # <<>> => 1 \in 1 .. D - 1
      BY <1>1, <1>2
    <3>. QED
      BY <1>1, <1>2, <3>1 DEF ScopesFit
  <2>. QED
    BY <1>2, <1>3, <1>8, <1>9, <2>1, <2>2 DEF ScopesFit
<1>11. ASSUME NEW k \in 1 .. n - 1, NEW i \in DOMAIN Locals(d, k),
              NEW s, s = ScopeOf(Locals(d, k)[i])
       PROVE  /\ s \in 1 .. D - 1 /\ less[s].from < Base(d, k) + i
              /\ s < D - 1 => Base(d, k) + i <= less[s + 1].from
  <2>1. k \in 1 .. n /\ Locals(d, k) = Locals(c, k) /\ Base(d, k) = Base(c, k)
    BY <1>1, <1>3 DEF Locals
  <2>2. s \in 1 .. D /\ scopes[s].from < Base(d, k) + i
        /\ (s < D => Base(d, k) + i <= scopes[s + 1].from)
    BY <1>11, <2>1 DEF LocalsPlaced
  <2>3. Base(d, k) + i <= Len(EnvOf(d)) /\ Base(d, k) + i \in Nat
    <3>1. k \in 1 .. Len(d)
      BY <1>3
    <3>2. Base(d, k) + i \in 1 .. Len(EnvOf(d)) /\ Len(EnvOf(d)) \in Nat
      BY <1>3, <3>1, EnvFacts
    <3>3. PICK p, l : p = Base(d, k) + i /\ l = Len(EnvOf(d))
      OBVIOUS
    <3>4. p \in 1 .. l /\ l \in Nat
      BY <3>2, <3>3
    <3>5. p <= l /\ p \in Nat
      BY <3>4
    <3>. QED
      BY <3>3, <3>5
  <2>4. ~ (Base(c, k) + i > f)
    BY <1>3, <1>4, <1>8, <2>1, <2>3
  <2>5. ~ (s >= D)
    BY <1>1, <1>11, <2>1, <2>4, InScope
  <2>6. s \in 1 .. D - 1
    BY <1>1, <2>2, <2>5
  <2>7. less[s] = scopes[s]
    BY <1>2, <2>6
  <2>8. s < D - 1 => s + 1 \in 1 .. D - 1 /\ s < D
    BY <1>1, <2>6
  <2>. QED
    BY <1>2, <2>2, <2>6, <2>7, <2>8
<1>12. LocalsPlaced(d, less)
  BY <1>2, <1>3, <1>11 DEF LocalsPlaced
<1>13. n \in Nat \ {0, 1}
  BY <1>1, <1>6
<1>14. f = Len(EnvOf(d))
  BY <1>3, <1>4
<1>. QED
  BY <1>10, <1>12, <1>13, <1>14 DEF less, d

LEMMA EndedStaysSound ==
  ASSUME NEW c, NEW scopes, ScopesFit(c, scopes), LocalsPlaced(c, scopes),
         scopes # <<>>, scopes[Len(scopes)].kind \in FunctionKind,
         NEW cap, CapturedMarked(c, cap), UpvaluesOK(c), NoShadows(c)
  PROVE  LET d == Front(c)
             ups == {Position(c, Len(c) - 1, u.index) :
                       u \in {v \in ToSet(Upvalues(c, Len(c))) : v.direct}}
         IN  /\ CapturedMarked(d, (cap \cup ups) \cap 1 .. Len(EnvOf(d)))
             /\ UpvaluesOK(d) /\ NoShadows(d)
             /\ EnvOf(d) = SubSeq(EnvOf(c), 1, scopes[Len(scopes)].from)
<1> DEFINE d == Front(c)
           n == Len(c)
           U == Upvalues(c, n)
           ups == {Position(c, n - 1, u.index) : u \in {v \in ToSet(U) : v.direct}}
<1>1. /\ c \in Seq(FunctionChunk) /\ c # <<>> /\ scopes \in Seq(Construct)
      /\ n \in Nat \ {0, 1} /\ scopes[Len(scopes)].from = Len(EnvOf(d))
  BY FunctionEnds DEF ScopesFit
<1>2. /\ d \in Seq(FunctionChunk) /\ Len(d) = n - 1
      /\ \A k \in 1 .. n - 1 : d[k] = c[k]
      /\ \A k \in 1 .. n : Base(d, k) = Base(c, k)
      /\ Len(EnvOf(d)) = Base(c, n)
  BY <1>1, EnvOfBack
<1>3. U = c[n].tracked_upvalues
  BY DEF Upvalues
<1>. HIDE DEF d
<1>4. \A k \in 1 .. n - 1 : k \in 1 .. n /\ Locals(d, k) = Locals(c, k) /\ Upvalues(d, k) = Upvalues(c, k)
  BY <1>1, <1>2 DEF Locals, Upvalues
<1>5. Len(d) <= Len(c)
  BY <1>1, <1>2
<1>6. UpvaluesOK(d)
  <2>1. \A k \in 1 .. Len(d) - 1 : Locals(d, k) = Locals(c, k)
    BY <1>1, <1>2, <1>4
  <2>. QED
    BY <1>1, <1>2, <1>4, <1>5, <2>1, UpvaluesKept
<1>7. NoShadows(d)
  BY <1>2, <1>4 DEF NoShadows
<1>8. EnvOf(d) = SubSeq(EnvOf(c), 1, Len(EnvOf(d)))
  <2>1. Base(c, n) <= Len(EnvOf(c))
    <3>1. n \in 1 .. n + 1 /\ n \in Nat
      BY <1>1
    <3>2. Base(c, n) \in 0 .. Len(EnvOf(c)) /\ Len(EnvOf(c)) \in Nat
      BY <1>1, <3>1, EnvFacts
    <3>. QED
      BY <3>2
  <2>2. Len(EnvOf(d)) <= Len(EnvOf(c))
    BY <1>2, <2>1
  <2>. QED
    BY <1>1, <1>2, <1>4, <1>5, <2>2, EnvShrinks
<1>9. ASSUME NEW p \in ups
      PROVE  \E i \in DOMAIN Locals(c, n - 1) : p = Base(c, n - 1) + i /\ Locals(c, n - 1)[i].is_captured
  <2>1. PICK u \in ToSet(U) : u.direct /\ p = Base(c, n - 1) + u.index
    BY PositionIsBase
  <2>2. PICK j \in DOMAIN U : u = U[j]
    BY <2>1 DEF ToSet
  <2>3. n \in 1 .. n
    BY <1>1
  <2>4. UpvalueOK(c, n, u)
    BY <2>2, <2>3 DEF UpvaluesOK
  <2>. QED
    BY <2>1, <2>4 DEF UpvalueOK
<1>. HIDE DEF ups
<1>10. CapturedMarked(d, (cap \cup ups) \cap 1 .. Len(EnvOf(d)))
  <2>1. ASSUME NEW k \in 1 .. n - 1, NEW i \in DOMAIN Locals(d, k)
        PROVE  /\ Base(d, k) + i \in cap \cup ups => Locals(d, k)[i].is_captured
               /\ Locals(d, k)[i].name = NoName => ~Locals(d, k)[i].is_captured
    <3>1. k \in 1 .. n /\ Locals(d, k) = Locals(c, k) /\ Base(d, k) = Base(c, k)
      BY <1>2, <1>4
    <3>2. /\ Base(d, k) + i \in cap => Locals(d, k)[i].is_captured
          /\ Locals(d, k)[i].name = NoName => ~Locals(d, k)[i].is_captured
      BY <3>1 DEF CapturedMarked
    <3>3. ASSUME Base(d, k) + i \in ups
          PROVE  Locals(d, k)[i].is_captured
      <4>1. PICK a \in DOMAIN Locals(c, n - 1) :
              Base(d, k) + i = Base(c, n - 1) + a /\ Locals(c, n - 1)[a].is_captured
        BY <1>9, <3>3
      <4>2. n - 1 \in 1 .. n
        BY <1>1
      <4>3. k = n - 1 /\ i = a
        BY <1>1, <3>1, <4>1, <4>2, PositionInjective
      <4>. QED
        BY <3>1, <4>1, <4>3
    <3>. QED
      BY <3>2, <3>3
  <2>. QED
    BY <1>2, <2>1 DEF CapturedMarked
<1>. QED
  BY <1>1, <1>6, <1>7, <1>8, <1>10 DEF d, ups

(* Flags and upvalues change, and what is captured stays so. *)
Alike(c, d) ==
  /\ d \in Seq(FunctionChunk) /\ Len(d) = Len(c)
  /\ \A k \in 1 .. Len(c) :
       /\ DOMAIN Locals(d, k) = DOMAIN Locals(c, k)
       /\ \A i \in DOMAIN Locals(c, k) :
            /\ Locals(d, k)[i].name = Locals(c, k)[i].name
            /\ Locals(d, k)[i].depth = Locals(c, k)[i].depth
            /\ Locals(c, k)[i].is_captured => Locals(d, k)[i].is_captured
            /\ Locals(d, k)[i].name = NoName => ~Locals(d, k)[i].is_captured

LEMMA AlikeStaysSound ==
  ASSUME NEW c, NEW scopes, NEW cap, NEW d, Alike(c, d),
         ScopesFit(c, scopes), LocalsPlaced(c, scopes), Placeholder(c, scopes),
         CapturedMarked(c, cap), NoShadows(c)
  PROVE  /\ EnvOf(d) = EnvOf(c) /\ \A k \in 1 .. Len(c) + 1 : Base(d, k) = Base(c, k)
         /\ ScopesFit(d, scopes) /\ LocalsPlaced(d, scopes) /\ Placeholder(d, scopes)
         /\ CapturedMarked(d, cap) /\ NoShadows(d)
<1>1. /\ c \in Seq(FunctionChunk) /\ d \in Seq(FunctionChunk) /\ Len(d) = Len(c)
      /\ c # <<>> /\ d # <<>> /\ Len(c) \in Nat \ {0} /\ scopes \in Seq(Construct)
  BY DEF ScopesFit, Alike
<1>2. ASSUME NEW k \in 1 .. Len(c)
      PROVE  NamesOf(d[k]) = NamesOf(c[k])
  <2>1. c[k] \in FunctionChunk /\ d[k] \in FunctionChunk
    BY <1>1
  <2>2. PICK a, b : a = NamesOf(c[k]) /\ b = NamesOf(d[k])
    OBVIOUS
  <2>3. /\ a \in Seq(Name) /\ DOMAIN a = DOMAIN Locals(c, k)
        /\ \A i \in DOMAIN Locals(c, k) : a[i] = Locals(c, k)[i].name
    BY <2>1, <2>2, NamesOfFacts DEF Locals
  <2>4. /\ b \in Seq(Name) /\ DOMAIN b = DOMAIN Locals(d, k)
        /\ \A i \in DOMAIN Locals(d, k) : b[i] = Locals(d, k)[i].name
    BY <2>1, <2>2, NamesOfFacts DEF Locals
  <2>5. DOMAIN a = DOMAIN b /\ \A i \in DOMAIN a : a[i] = b[i]
    BY <2>3, <2>4 DEF Alike
  <2>6. a = b
    BY <2>3, <2>4, <2>5
  <2>. QED
    BY <2>2, <2>6
<1>3. EnvOf(d) = EnvOf(c) /\ \A k \in 1 .. Len(c) + 1 : Base(d, k) = Base(c, k)
  BY <1>1, <1>2, SameEnv
<1>4. \A k \in 1 .. Len(c) : Base(d, k) = Base(c, k)
  BY <1>1, <1>3
<1>5. \A k \in 1 .. Len(c) : \A i \in DOMAIN Locals(d, k) :
        i \in DOMAIN Locals(c, k) /\ ScopeOf(Locals(d, k)[i]) = ScopeOf(Locals(c, k)[i])
  BY DEF Alike, ScopeOf
<1>6. ScopesFit(d, scopes)
  BY <1>1, <1>3, <1>4 DEF ScopesFit
<1>7. LocalsPlaced(d, scopes)
  BY <1>1, <1>4, <1>5 DEF LocalsPlaced
<1>8. Placeholder(d, scopes)
  <2>1. 1 \in 1 .. Len(c)
    BY <1>1
  <2>2. scopes # <<>> /\ scopes[1].kind = "subclass" =>
          Locals(d, 1) # <<>> /\ Locals(d, 1)[1].depth = 0
    <3>1. ASSUME scopes # <<>> /\ scopes[1].kind = "subclass"
          PROVE  Locals(d, 1) # <<>> /\ Locals(d, 1)[1].depth = 0
      <4>1. Locals(c, 1) # <<>> /\ Locals(c, 1)[1].depth = 0
        BY <3>1 DEF Placeholder
      <4>2. Locals(c, 1) \in Seq(TrackedLocal) /\ Locals(d, 1) \in Seq(TrackedLocal)
        BY <1>1, <2>1, LocalsFacts
      <4>3. 1 \in DOMAIN Locals(c, 1)
        BY <4>1, <4>2
      <4>4. 1 \in DOMAIN Locals(d, 1) /\ Locals(d, 1)[1].depth = 0
        BY <2>1, <4>1, <4>3 DEF Alike
      <4>. QED
        BY <4>2, <4>4
    <3>. QED
      BY <3>1
  <2>3. \A k \in 1 .. Len(c) : \A i \in DOMAIN Locals(d, k) :
          Locals(d, k)[i].depth = 0 =>
            /\ k = 1 /\ i = 1 /\ Locals(d, k)[i].name = NoName
            /\ scopes # <<>> /\ scopes[1].kind = "subclass"
    BY DEF Alike, Placeholder
  <2>. QED
    BY <1>1, <2>2, <2>3 DEF Placeholder
<1>9. CapturedMarked(d, cap)
  <2>1. cap \subseteq 1 .. Len(EnvOf(d))
    BY <1>3 DEF CapturedMarked
  <2>. QED
    BY <1>1, <1>4, <2>1 DEF CapturedMarked, Alike
<1>10. NoShadows(d)
  BY <1>1, <1>2 DEF NoShadows
<1>. QED
  BY <1>3, <1>6, <1>7, <1>8, <1>9, <1>10

LEMMA AlikeItself ==
  ASSUME NEW c \in Seq(FunctionChunk), NEW cap, CapturedMarked(c, cap)
  PROVE  Alike(c, c)
BY DEF Alike, CapturedMarked

LEMMA AlikeTransitive ==
  ASSUME NEW c, NEW d, NEW e, Alike(c, d), Alike(d, e)
  PROVE  Alike(c, e)
BY DEF Alike

-----------------------------------------------------------------------------
(* What the upvalues mean *)

LEMMA MeaningUnfolds ==
  ASSUME NEW c \in Seq(FunctionChunk), UpvaluesOK(c)
  PROVE  \A k \in 1 .. Len(c) :
           /\ DOMAIN MeaningOf(c)[k] = DOMAIN Upvalues(c, k)
           /\ \A j \in DOMAIN Upvalues(c, k) :
                MeaningOf(c)[k][j] =
                  IF Upvalues(c, k)[j].direct THEN Position(c, k - 1, Upvalues(c, k)[j].index)
                  ELSE MeaningOf(c)[k - 1][Upvalues(c, k)[j].index]
<1> DEFINE Body(f, k) ==
             [j \in DOMAIN c[k].tracked_upvalues |->
                LET u == c[k].tracked_upvalues[j]
                IN  IF u.direct THEN Position(c, k - 1, u.index) ELSE f[k - 1][u.index]]
           Solves(K, f) == f = [k \in K |-> Body(f, k)]
           B == {m \in 0 .. Len(c) : \E f : Solves(1 .. m, f)}
<1>1. Len(c) \in Nat /\ DOMAIN c = 1 .. Len(c)
  OBVIOUS
<1>2. ASSUME NEW k \in 1 .. Len(c), NEW f, NEW g, k > 1 => f[k - 1] = g[k - 1]
      PROVE  Body(f, k) = Body(g, k)
  <2>1. CASE k > 1
    BY <1>2, <2>1
  <2>2. CASE ~ (k > 1)
    <3>1. \A j \in DOMAIN c[k].tracked_upvalues : FALSE
      BY <2>2 DEF UpvaluesOK, UpvalueOK, Upvalues
    <3>. QED
      BY <3>1
  <2>. QED
    BY <2>1, <2>2
<1>. HIDE DEF Body
<1>3. 0 \in B
  <2>1. PICK f : f = [k \in 1 .. 0 |-> Body(c, k)]
    OBVIOUS
  <2>2. Solves(1 .. 0, f)
    BY <2>1
  <2>3. 0 \in 0 .. Len(c)
    BY <1>1
  <2>. HIDE DEF Solves
  <2>. QED
    BY <2>2, <2>3
<1>4. ASSUME NEW m \in 0 .. Len(c), m \in B, m < Len(c)
      PROVE  m + 1 \in B
  <2>1. PICK f : Solves(1 .. m, f)
    BY <1>4
  <2>2. PICK g : g = [k \in 1 .. m + 1 |-> IF k = m + 1 THEN Body(f, k) ELSE f[k]]
    OBVIOUS
  <2>3. \A k \in 1 .. m : g[k] = f[k] /\ f[k] = Body(f, k)
    BY <1>1, <2>1, <2>2
  <2>4. ASSUME NEW k \in 1 .. m + 1
        PROVE  g[k] = Body(g, k)
    <3>1. g[k] = Body(f, k)
      <4>1. CASE k = m + 1
        BY <2>2, <4>1
      <4>2. CASE k # m + 1
        <5>1. k \in 1 .. m
          BY <4>2
        <5>. QED
          BY <2>3, <5>1
      <4>. QED
        BY <4>1, <4>2
    <3>2. k > 1 => f[k - 1] = g[k - 1]
      BY <1>1, <2>3
    <3>3. k \in 1 .. Len(c)
      BY <1>1, <1>4
    <3>. QED
      BY <1>2, <3>1, <3>2, <3>3
  <2>5. g = [k \in 1 .. m + 1 |-> g[k]]
    BY <2>2
  <2>6. Solves(1 .. m + 1, g)
    BY <2>4, <2>5
  <2>7. m + 1 \in 0 .. Len(c)
    BY <1>1, <1>4
  <2>. QED
    BY <2>6, <2>7
<1>5. Len(c) \in B
  <2>. HIDE DEF B
  <2>1. 0 .. Len(c) \subseteq B
    BY <1>1, <1>3, <1>4, StepByStep
  <2>. QED
    BY <1>1, <2>1
<1>6. \E f : Solves(DOMAIN c, f)
  BY <1>1, <1>5
<1>7. PICK f : f = CHOOSE g : Solves(DOMAIN c, g)
  OBVIOUS
<1>8. Solves(DOMAIN c, f)
  BY <1>6, <1>7
<1>9. MeaningOf(c) = f
  BY <1>7 DEF MeaningOf, Body
<1>10. \A k \in 1 .. Len(c) : f[k] = Body(f, k)
  BY <1>1, <1>8
<1>11. ASSUME NEW k \in 1 .. Len(c)
       PROVE  /\ DOMAIN f[k] = DOMAIN Upvalues(c, k)
              /\ \A j \in DOMAIN Upvalues(c, k) :
                   f[k][j] = IF Upvalues(c, k)[j].direct
                             THEN Position(c, k - 1, Upvalues(c, k)[j].index)
                             ELSE f[k - 1][Upvalues(c, k)[j].index]
  <2>1. f[k] = Body(f, k)
    BY <1>10
  <2>. QED
    BY <2>1, Zenon DEF Body, Upvalues
<1>. QED
  BY <1>9, <1>11, Zenon

(* An upvalue means a variable of a function around its own. *)
LEMMA MeaningBelow ==
  ASSUME NEW c \in Seq(FunctionChunk), UpvaluesOK(c)
  PROVE  \A k \in 1 .. Len(c) : \A j \in DOMAIN Upvalues(c, k) :
           MeaningOf(c)[k][j] \in 1 .. Base(c, k)
<1> DEFINE B == {m \in 0 .. Len(c) : m = 0 \/ \A j \in DOMAIN Upvalues(c, m) :
                   MeaningOf(c)[m][j] \in 1 .. Base(c, m)}
<1>1. Len(c) \in Nat /\ 0 \in B
  <2>1. Len(c) \in Nat /\ 0 \in 0 .. Len(c)
    OBVIOUS
  <2>. QED
    BY <2>1
<1>2. ASSUME NEW m \in 0 .. Len(c), m \in B, m < Len(c)
      PROVE  m + 1 \in B
  <2>1. m + 1 \in 0 .. Len(c) /\ m + 1 \in 1 .. Len(c) /\ (m + 1) - 1 = m /\ m + 1 # 0
    BY <1>1, <1>2
  <2>2. ASSUME NEW j \in DOMAIN Upvalues(c, m + 1), NEW u, u = Upvalues(c, m + 1)[j]
        PROVE  MeaningOf(c)[m + 1][j] \in 1 .. Base(c, m + 1)
    <3>1. UpvalueOK(c, m + 1, u)
      BY <2>1, <2>2 DEF UpvaluesOK
    <3>2. /\ m \in 1 .. Len(c) /\ m # 0
          /\ u.direct => u.index \in DOMAIN Locals(c, m)
          /\ ~u.direct => u.index \in DOMAIN Upvalues(c, m)
      BY <1>1, <1>2, <2>1, <3>1 DEF UpvalueOK
    <3>3. MeaningOf(c)[m + 1][j]
            = IF u.direct THEN Position(c, m, u.index) ELSE MeaningOf(c)[m][u.index]
      <4>1. MeaningOf(c)[m + 1][j]
              = IF u.direct THEN Position(c, (m + 1) - 1, u.index) ELSE MeaningOf(c)[(m + 1) - 1][u.index]
        BY <2>1, <2>2, MeaningUnfolds
      <4>. QED
        BY <2>1, <4>1, Zenon
    <3>4. PICK b, d, l : b = Base(c, m) /\ d = Base(c, m + 1) /\ l = Len(Locals(c, m))
      OBVIOUS
    <3>5. d = b + l
      BY <3>2, <3>4, EnvFacts
    <3>6. l \in Nat /\ DOMAIN Locals(c, m) = 1 .. l
      BY <3>2, <3>4, LocalsFacts
    <3>7. b \in Nat
      <4>1. \A k \in 1 .. Len(c) + 1 : Base(c, k) \in 0 .. Len(EnvOf(c))
        BY EnvFacts
      <4>. QED
        BY <3>2, <3>4, <4>1
    <3>8. CASE u.direct
      <4>1. MeaningOf(c)[m + 1][j] = b + u.index /\ u.index \in 1 .. l
        BY <3>2, <3>3, <3>4, <3>6, <3>8, PositionIsBase
      <4>. QED
        BY <3>4, <3>5, <3>6, <3>7, <4>1
    <3>9. CASE ~u.direct
      <4>1. MeaningOf(c)[m + 1][j] = MeaningOf(c)[m][u.index] /\ u.index \in DOMAIN Upvalues(c, m)
        BY <3>2, <3>3, <3>9
      <4>2. MeaningOf(c)[m][u.index] \in 1 .. b
        BY <1>2, <3>2, <3>4, <4>1
      <4>. QED
        BY <3>4, <3>5, <3>6, <3>7, <4>1, <4>2
    <3>. QED
      BY <3>8, <3>9
  <2>. QED
    BY <2>1, <2>2
<1>3. 0 .. Len(c) \subseteq B
  <2>. HIDE DEF B
  <2>. QED
    BY <1>1, <1>2, StepByStep
<1>4. ASSUME NEW k \in 1 .. Len(c), NEW j \in DOMAIN Upvalues(c, k)
      PROVE  MeaningOf(c)[k][j] \in 1 .. Base(c, k)
  <2>1. k \in B /\ k # 0
    <3>1. k \in 0 .. Len(c) /\ k # 0
      BY <1>1
    <3>. HIDE DEF B
    <3>. QED
      BY <1>3, <3>1
  <2>. QED
    BY <2>1
<1>. QED
  BY <1>4

(* Upvalues that differ mean different variables. *)
LEMMA MeaningInjective ==
  ASSUME NEW c \in Seq(FunctionChunk), UpvaluesOK(c)
  PROVE  \A k \in 1 .. Len(c) : \A i, j \in DOMAIN Upvalues(c, k) :
           MeaningOf(c)[k][i] = MeaningOf(c)[k][j] => i = j
<1> DEFINE One(k) == \A i, j \in DOMAIN Upvalues(c, k) :
                       MeaningOf(c)[k][i] = MeaningOf(c)[k][j] => i = j
           B == {m \in 0 .. Len(c) : m = 0 \/ One(m)}
<1>1. Len(c) \in Nat /\ 0 \in B
  <2>1. Len(c) \in Nat /\ 0 \in 0 .. Len(c)
    OBVIOUS
  <2>. QED
    BY <2>1
<1>2. ASSUME NEW m \in 0 .. Len(c), m \in B, m < Len(c)
      PROVE  m + 1 \in B
  <2>1. m + 1 \in 0 .. Len(c) /\ m + 1 \in 1 .. Len(c) /\ (m + 1) - 1 = m /\ m + 1 # 0
    BY <1>1, <1>2
  <2>2. ASSUME NEW j \in DOMAIN Upvalues(c, m + 1)
        PROVE  LET u == Upvalues(c, m + 1)[j]
               IN  /\ m \in 1 .. Len(c) /\ m # 0 /\ u \in TrackedUpvalue
                   /\ u.direct => /\ u.index \in DOMAIN Locals(c, m)
                                  /\ MeaningOf(c)[m + 1][j] = Base(c, m) + u.index
                                  /\ u.index \in Nat \ {0}
                   /\ ~u.direct => /\ u.index \in DOMAIN Upvalues(c, m)
                                   /\ MeaningOf(c)[m + 1][j] = MeaningOf(c)[m][u.index]
                                   /\ MeaningOf(c)[m][u.index] \in 1 .. Base(c, m)
    <3>1. PICK u : u = Upvalues(c, m + 1)[j]
      OBVIOUS
    <3>2. UpvalueOK(c, m + 1, u)
      BY <2>1, <3>1 DEF UpvaluesOK
    <3>3. /\ m \in 1 .. Len(c) /\ m # 0
          /\ u.direct => u.index \in DOMAIN Locals(c, m)
          /\ ~u.direct => u.index \in DOMAIN Upvalues(c, m)
      BY <1>1, <1>2, <2>1, <3>2 DEF UpvalueOK
    <3>4. MeaningOf(c)[m + 1][j]
            = IF u.direct THEN Position(c, m, u.index) ELSE MeaningOf(c)[m][u.index]
      <4>1. MeaningOf(c)[m + 1][j]
              = IF u.direct THEN Position(c, (m + 1) - 1, u.index) ELSE MeaningOf(c)[(m + 1) - 1][u.index]
        BY <2>1, <3>1, MeaningUnfolds
      <4>. QED
        BY <2>1, <4>1, Zenon
    <3>5. u \in TrackedUpvalue
      <4>1. c[m + 1] \in FunctionChunk
        BY <2>1
      <4>2. Upvalues(c, m + 1) \in Seq(TrackedUpvalue)
        BY <4>1, NamesOfFacts DEF Upvalues
      <4>. QED
        BY <3>1, <4>2
    <3>6. u.direct => u.index \in Nat \ {0}
      <4>1. DOMAIN Locals(c, m) = 1 .. Len(Locals(c, m)) /\ Len(Locals(c, m)) \in Nat
        BY <3>3, LocalsFacts
      <4>. QED
        BY <3>3, <4>1
    <3>7. u.direct => MeaningOf(c)[m + 1][j] = Base(c, m) + u.index
      BY <3>4, PositionIsBase
    <3>8. ~u.direct => /\ MeaningOf(c)[m + 1][j] = MeaningOf(c)[m][u.index]
                       /\ MeaningOf(c)[m][u.index] \in 1 .. Base(c, m)
      BY <3>3, <3>4, MeaningBelow
    <3>. QED
      BY <3>1, <3>3, <3>5, <3>6, <3>7, <3>8
  <2>3. ASSUME NEW i \in DOMAIN Upvalues(c, m + 1), NEW j \in DOMAIN Upvalues(c, m + 1),
               MeaningOf(c)[m + 1][i] = MeaningOf(c)[m + 1][j]
        PROVE  i = j
    <3>1. PICK u, v, b : u = Upvalues(c, m + 1)[i] /\ v = Upvalues(c, m + 1)[j] /\ b = Base(c, m)
      OBVIOUS
    <3>2. /\ m \in 1 .. Len(c) /\ m # 0 /\ u \in TrackedUpvalue
          /\ u.direct => /\ u.index \in DOMAIN Locals(c, m)
                         /\ MeaningOf(c)[m + 1][i] = b + u.index
                         /\ u.index \in Nat \ {0}
          /\ ~u.direct => /\ u.index \in DOMAIN Upvalues(c, m)
                          /\ MeaningOf(c)[m + 1][i] = MeaningOf(c)[m][u.index]
                          /\ MeaningOf(c)[m][u.index] \in 1 .. b
      BY <2>2, <3>1
    <3>3. /\ v \in TrackedUpvalue
          /\ v.direct => /\ v.index \in DOMAIN Locals(c, m)
                         /\ MeaningOf(c)[m + 1][j] = b + v.index
                         /\ v.index \in Nat \ {0}
          /\ ~v.direct => /\ v.index \in DOMAIN Upvalues(c, m)
                          /\ MeaningOf(c)[m + 1][j] = MeaningOf(c)[m][v.index]
                          /\ MeaningOf(c)[m][v.index] \in 1 .. b
      BY <2>2, <3>1
    <3>4. b \in Nat
      <4>1. \A k \in 1 .. Len(c) + 1 : Base(c, k) \in 0 .. Len(EnvOf(c))
        BY EnvFacts
      <4>. QED
        BY <3>1, <3>2, <4>1
    <3>5. One(m)
      BY <1>2, <3>2
    <3>6. u.direct \in BOOLEAN /\ v.direct \in BOOLEAN
      BY <3>2, <3>3 DEF TrackedUpvalue
    <3>7. ~(u.direct /\ ~v.direct)
      BY <2>3, <3>2, <3>3, <3>4
    <3>8. ~(~u.direct /\ v.direct)
      BY <2>3, <3>2, <3>3, <3>4
    <3>9. u.direct = v.direct /\ u.index = v.index
      <4>1. CASE u.direct /\ v.direct
        BY <2>3, <3>2, <3>3, <3>4, <3>6, <4>1
      <4>2. CASE ~u.direct /\ ~v.direct
        BY <2>3, <3>2, <3>3, <3>5, <3>6, <4>2
      <4>. QED
        BY <3>6, <3>7, <3>8, <4>1, <4>2
    <3>10. u = v
      BY <3>2, <3>3, <3>9 DEF TrackedUpvalue
    <3>. QED
      BY <2>1, <3>1, <3>10 DEF UpvaluesOK
  <2>. QED
    BY <2>1, <2>3
<1>3. 0 .. Len(c) \subseteq B
  <2>. HIDE DEF B
  <2>. QED
    BY <1>1, <1>2, StepByStep
<1>4. ASSUME NEW k \in 1 .. Len(c)
      PROVE  One(k)
  <2>1. k \in B /\ k # 0
    <3>1. k \in 0 .. Len(c) /\ k # 0
      BY <1>1
    <3>. HIDE DEF B
    <3>. QED
      BY <1>3, <3>1
  <2>. HIDE DEF One
  <2>. QED
    BY <2>1
<1>. QED
  BY <1>4

(* Upvalues that are added change the meaning of none. *)
LEMMA MeaningKept ==
  ASSUME NEW c \in Seq(FunctionChunk), UpvaluesOK(c),
         NEW d \in Seq(FunctionChunk), UpvaluesOK(d),
         NEW m \in Nat, m <= Len(c), m <= Len(d),
         \A k \in 1 .. m :
           /\ Base(d, k) = Base(c, k)
           /\ \A j \in DOMAIN Upvalues(c, k) :
                j \in DOMAIN Upvalues(d, k) /\ Upvalues(d, k)[j] = Upvalues(c, k)[j]
  PROVE  \A k \in 1 .. m : \A j \in DOMAIN Upvalues(c, k) :
           MeaningOf(d)[k][j] = MeaningOf(c)[k][j]
<1> DEFINE B == {n \in 0 .. m : n = 0 \/ \A j \in DOMAIN Upvalues(c, n) :
                   MeaningOf(d)[n][j] = MeaningOf(c)[n][j]}
<1>1. 0 \in B /\ Len(c) \in Nat /\ Len(d) \in Nat
  OBVIOUS
<1>2. ASSUME NEW n \in 0 .. m, n \in B, n < m
      PROVE  n + 1 \in B
  <2>1. n + 1 \in 0 .. m /\ n + 1 \in 1 .. m /\ (n + 1) - 1 = n
    BY <1>2
  <2>2. n + 1 \in 1 .. Len(c) /\ n + 1 \in 1 .. Len(d)
    BY <1>1, <2>1
  <2>3. ASSUME NEW j \in DOMAIN Upvalues(c, n + 1)
        PROVE  MeaningOf(d)[n + 1][j] = MeaningOf(c)[n + 1][j]
    <3>1. PICK u : u = Upvalues(c, n + 1)[j]
      OBVIOUS
    <3>2. j \in DOMAIN Upvalues(d, n + 1) /\ u = Upvalues(d, n + 1)[j]
      BY <2>1, <3>1
    <3>3. UpvalueOK(c, n + 1, u)
      BY <2>2, <3>1 DEF UpvaluesOK
    <3>4. n \in 1 .. m /\ n # 0 /\ (~u.direct => u.index \in DOMAIN Upvalues(c, n))
      BY <1>2, <2>1, <3>3 DEF UpvalueOK
    <3>5. MeaningOf(c)[n + 1][j]
            = IF u.direct THEN Position(c, (n + 1) - 1, u.index) ELSE MeaningOf(c)[(n + 1) - 1][u.index]
      BY <2>2, <3>1, MeaningUnfolds
    <3>6. MeaningOf(d)[n + 1][j]
            = IF u.direct THEN Position(d, (n + 1) - 1, u.index) ELSE MeaningOf(d)[(n + 1) - 1][u.index]
      BY <2>2, <3>2, MeaningUnfolds
    <3>7. Position(d, n, u.index) = Position(c, n, u.index)
      BY <3>4, PositionIsBase
    <3>8. CASE u.direct
      BY <2>1, <3>5, <3>6, <3>7, <3>8, Zenon
    <3>9. CASE ~u.direct
      <4>1. MeaningOf(d)[n][u.index] = MeaningOf(c)[n][u.index]
        BY <1>2, <3>4, <3>9
      <4>. QED
        BY <2>1, <3>5, <3>6, <3>9, <4>1, Zenon
    <3>. QED
      BY <3>8, <3>9
  <2>. QED
    BY <2>1, <2>3
<1>3. 0 .. m \subseteq B
  <2>. HIDE DEF B
  <2>. QED
    BY <1>1, <1>2, StepByStep
<1>4. ASSUME NEW k \in 1 .. m, NEW j \in DOMAIN Upvalues(c, k)
      PROVE  MeaningOf(d)[k][j] = MeaningOf(c)[k][j]
  <2>1. k \in B /\ k # 0
    <3>1. k \in 0 .. m /\ k # 0
      OBVIOUS
    <3>. HIDE DEF B
    <3>. QED
      BY <1>3, <3>1
  <2>. QED
    BY <2>1
<1>. QED
  BY <1>4

(* One function gets an upvalue, or has it, for what the function around it *)
(* knows by `found'.                                                        *)
TracksOne(c, k, u, r) ==
  /\ r.direct = FALSE /\ r.index \in DOMAIN Upvalues(r.chunks, k) /\ r.index \in Nat
  /\ r.chunks \in Seq(FunctionChunk) /\ Len(r.chunks) = Len(c)
  /\ \A j \in 1 .. Len(c) : Locals(r.chunks, j) = Locals(c, j)
  /\ UpvaluesOK(r.chunks)
  /\ MeaningOf(r.chunks)[k][r.index]
       = IF u.direct THEN Base(c, k - 1) + u.index ELSE MeaningOf(c)[k - 1][u.index]

LEMMA OneTracked ==
  ASSUME NEW c \in Seq(FunctionChunk), UpvaluesOK(c), NEW k \in 2 .. Len(c),
         NEW u \in TrackedUpvalue, UpvalueOK(c, k, u),
         NEW found, found = [direct |-> u.direct, index |-> u.index, chunks |-> c]
  PROVE  TracksOne(c, k, u, TrackOneUpvalue(found, k))
<1>. SUFFICES LET r == TrackOneUpvalue(found, k)
              IN  /\ r.direct = FALSE /\ r.index \in DOMAIN Upvalues(r.chunks, k) /\ r.index \in Nat
                  /\ r.chunks \in Seq(FunctionChunk) /\ Len(r.chunks) = Len(c)
                  /\ \A j \in 1 .. Len(c) : Locals(r.chunks, j) = Locals(c, j)
                  /\ UpvaluesOK(r.chunks)
                  /\ MeaningOf(r.chunks)[k][r.index]
                       = IF u.direct THEN Base(c, k - 1) + u.index ELSE MeaningOf(c)[k - 1][u.index]
  BY Zenon DEF TracksOne
<1> DEFINE known == Upvalues(c, k)
           p == IF u.direct THEN Base(c, k - 1) + u.index ELSE MeaningOf(c)[k - 1][u.index]
<1>1. /\ k \in 1 .. Len(c) /\ Len(c) \in Nat /\ k - 1 \in 1 .. Len(c) /\ c[k] \in FunctionChunk
      /\ k - 1 # k
  OBVIOUS
<1>2. known \in Seq(TrackedUpvalue) /\ Len(known) \in Nat /\ DOMAIN known = 1 .. Len(known)
  <2>1. known \in Seq(TrackedUpvalue)
    BY <1>1, NamesOfFacts DEF Upvalues
  <2>. QED
    BY <2>1
<1>3. u = [direct |-> u.direct, index |-> u.index]
  BY DEF TrackedUpvalue
<1>. HIDE DEF known
<1>4. TrackOneUpvalue(found, k)
        = IF Contains(known, u)
          THEN [found EXCEPT !.direct = FALSE, !.index = Min({j \in DOMAIN known : known[j] = u})]
          ELSE [direct |-> FALSE, index |-> Len(known) + 1,
                chunks |-> [c EXCEPT ![k].tracked_upvalues = Append(@, u)]]
  <2>1. found.direct = u.direct /\ found.index = u.index /\ found.chunks = c
    OBVIOUS
  <2>. QED
    BY <1>3, <2>1, Zenon DEF TrackOneUpvalue, known, Upvalues
<1>5. PICK r : r = TrackOneUpvalue(found, k)
  OBVIOUS
<1>6. CASE Contains(known, u)
  <2> DEFINE at == {j \in DOMAIN known : known[j] = u}
  <2>1. at \in SUBSET Nat /\ at # {}
    BY <1>2, <1>6 DEF Contains
  <2>2. PICK x : x = Min(at)
    OBVIOUS
  <2>3. x \in DOMAIN known /\ known[x] = u /\ x \in Nat
    <3>. HIDE DEF at
    <3>1. x \in at
      BY <2>1, <2>2, MinFacts
    <3>. QED
      BY <1>2, <3>1 DEF at
  <2>4. r = [found EXCEPT !.direct = FALSE, !.index = x]
    BY <1>4, <1>5, <1>6, <2>2
  <2>5. r.direct = FALSE /\ r.index = x /\ r.chunks = c
    BY <2>4
  <2>6. MeaningOf(c)[k][x] = p
    <3>1. MeaningOf(c)[k][x] = IF u.direct THEN Position(c, k - 1, u.index) ELSE MeaningOf(c)[k - 1][u.index]
      BY <1>1, <2>3, MeaningUnfolds DEF known
    <3>. QED
      BY <3>1, PositionIsBase
  <2>. QED
    BY <1>5, <2>3, <2>5, <2>6, Zenon DEF known
<1>7. CASE ~Contains(known, u)
  <2>1. PICK d : d = [c EXCEPT ![k].tracked_upvalues = Append(@, u)]
    OBVIOUS
  <2>2. r.direct = FALSE /\ r.index = Len(known) + 1 /\ r.chunks = d
    BY <1>4, <1>5, <1>7, <2>1
  <2>3. PICK more : more = Append(known, u)
    OBVIOUS
  <2>4. /\ more \in Seq(TrackedUpvalue) /\ Len(more) = Len(known) + 1 /\ more[Len(known) + 1] = u
        /\ DOMAIN more = 1 .. Len(known) + 1
        /\ \A j \in 1 .. Len(known) : more[j] = known[j]
    BY <1>2, <2>3
  <2>5. /\ d \in Seq(FunctionChunk) /\ Len(d) = Len(c)
        /\ \A j \in 1 .. Len(c) : j # k => d[j] = c[j]
        /\ d[k].tracked_locals = c[k].tracked_locals /\ d[k].tracked_upvalues = more
    <3>1. d = [c EXCEPT ![k] = [c[k] EXCEPT !.tracked_upvalues = more]]
      BY <2>1, <2>3 DEF known, Upvalues
    <3>2. PICK b : b = [c[k] EXCEPT !.tracked_upvalues = more]
      OBVIOUS
    <3>3. b \in FunctionChunk /\ b.tracked_locals = c[k].tracked_locals /\ b.tracked_upvalues = more
      BY <1>1, <2>4, <3>2 DEF FunctionChunk
    <3>4. d = [c EXCEPT ![k] = b]
      BY <3>1, <3>2
    <3>5. d \in Seq(FunctionChunk) /\ Len(d) = Len(c) /\ d[k] = b
          /\ \A j \in 1 .. Len(c) : j # k => d[j] = c[j]
      BY <1>1, <3>3, <3>4
    <3>. QED
      BY <3>3, <3>5
  <2>6. /\ \A j \in 1 .. Len(c) : Locals(d, j) = Locals(c, j)
        /\ \A j \in 1 .. Len(c) : j # k => Upvalues(d, j) = Upvalues(c, j)
        /\ Upvalues(d, k) = more
    BY <2>5 DEF Locals, Upvalues
  <2>7. UpvaluesOK(d)
    <3>1. ASSUME NEW j \in 1 .. Len(c), NEW i \in DOMAIN Upvalues(d, j)
          PROVE  UpvalueOK(d, j, Upvalues(d, j)[i])
      <4>1. UpvalueOK(c, j, Upvalues(d, j)[i])
        <5>1. CASE j = k /\ i = Len(known) + 1
          BY <2>4, <2>6, <5>1
        <5>2. CASE ~(j = k /\ i = Len(known) + 1)
          <6>1. i \in DOMAIN Upvalues(c, j) /\ Upvalues(d, j)[i] = Upvalues(c, j)[i]
            <7>1. CASE j = k
              BY <1>2, <2>4, <2>6, <5>2, <7>1 DEF known
            <7>2. CASE j # k
              BY <2>6, <7>2
            <7>. QED
              BY <7>1, <7>2
          <6>. QED
            BY <6>1 DEF UpvaluesOK
        <5>. QED
          BY <5>1, <5>2
      <4>2. j > 1 /\ j - 1 \in 1 .. Len(c)
        BY <1>1, <4>1 DEF UpvalueOK
      <4>3. Locals(d, j - 1) = Locals(c, j - 1)
        BY <2>6, <4>2
      <4>4. \A y \in DOMAIN Upvalues(c, j - 1) : y \in DOMAIN Upvalues(d, j - 1)
        BY <1>2, <2>4, <2>6, <4>2 DEF known
      <4>. QED
        BY <4>1, <4>3, <4>4 DEF UpvalueOK
    <3>2. ASSUME NEW j \in 1 .. Len(c), NEW a \in DOMAIN Upvalues(d, j), NEW b \in DOMAIN Upvalues(d, j),
                 Upvalues(d, j)[a] = Upvalues(d, j)[b]
          PROVE  a = b
      <4>1. CASE j # k
        BY <2>6, <3>2, <4>1 DEF UpvaluesOK
      <4>2. CASE j = k
        <5>1. a \in 1 .. Len(known) + 1 /\ b \in 1 .. Len(known) + 1 /\ more[a] = more[b]
          BY <2>4, <2>6, <3>2, <4>2
        <5>2. \A y \in 1 .. Len(known) : known[y] # u
          BY <1>2, <1>7 DEF Contains
        <5>3. \A y, z \in 1 .. Len(known) : known[y] = known[z] => y = z
          BY <1>1, <1>2 DEF known, UpvaluesOK
        <5>. QED
          BY <1>2, <2>4, <5>1, <5>2, <5>3
      <4>. QED
        BY <4>1, <4>2
    <3>. QED
      BY <2>5, <3>1, <3>2 DEF UpvaluesOK
  <2>8. MeaningOf(d)[k][Len(known) + 1] = p
    <3>1. k \in 1 .. Len(d) /\ Len(known) + 1 \in DOMAIN Upvalues(d, k)
          /\ Upvalues(d, k)[Len(known) + 1] = u
      BY <1>1, <1>2, <2>4, <2>5, <2>6
    <3>2. MeaningOf(d)[k][Len(known) + 1]
            = IF u.direct THEN Position(d, k - 1, u.index) ELSE MeaningOf(d)[k - 1][u.index]
      BY <2>5, <2>7, <3>1, MeaningUnfolds
    <3>3. \A j \in 1 .. Len(c) : Base(d, j) = Base(c, j)
      <4>1. \A j \in 1 .. Len(c) : NamesOf(c[j]) = NamesOf(d[j])
        BY <2>6, Zenon DEF NamesOf, Locals
      <4>2. \A j \in 1 .. Len(c) + 1 : Base(c, j) = Base(d, j)
        BY <2>5, <4>1, SameEnv
      <4>. QED
        BY <1>1, <4>2
    <3>4. CASE u.direct
      BY <1>1, <3>2, <3>3, <3>4, PositionIsBase
    <3>5. CASE ~u.direct
      <4>1. u.index \in DOMAIN Upvalues(c, k - 1)
        BY <3>5 DEF UpvalueOK
      <4>2. PICK m : m = k - 1
        OBVIOUS
      <4>3. m \in Nat /\ m <= Len(c) /\ m <= Len(d) /\ m \in 1 .. m
        BY <1>1, <2>5, <4>2
      <4>4. \A j \in 1 .. m : /\ Base(d, j) = Base(c, j)
              /\ \A y \in DOMAIN Upvalues(c, j) :
                   y \in DOMAIN Upvalues(d, j) /\ Upvalues(d, j)[y] = Upvalues(c, j)[y]
        BY <1>1, <2>6, <3>3, <4>2
      <4>5. \A j \in 1 .. m : \A y \in DOMAIN Upvalues(c, j) : MeaningOf(d)[j][y] = MeaningOf(c)[j][y]
        BY <2>5, <2>7, <4>3, <4>4, MeaningKept
      <4>6. MeaningOf(d)[k - 1][u.index] = MeaningOf(c)[k - 1][u.index]
        BY <4>1, <4>2, <4>3, <4>5
      <4>. QED
        BY <3>2, <3>5, <4>6
    <3>. QED
      BY <3>4, <3>5
  <2>9. Len(known) + 1 \in DOMAIN Upvalues(d, k) /\ Len(known) + 1 \in Nat
    BY <1>2, <2>4, <2>6
  <2>. QED
    BY <1>5, <2>2, <2>5, <2>6, <2>7, <2>8, <2>9, Zenon
<1>. QED
  BY <1>6, <1>7

TrackedFrom(e, n, first) ==
  CHOOSE f : f = [k \in e .. n |-> IF k = e THEN first ELSE TrackOneUpvalue(f[k - 1], k)]

LEMMA TrackUnfolds ==
  ASSUME NEW e \in Nat, NEW n \in Nat, e <= n, NEW first
  PROVE  /\ TrackedFrom(e, n, first)[e] = first
         /\ \A k \in e + 1 .. n :
              TrackedFrom(e, n, first)[k] = TrackOneUpvalue(TrackedFrom(e, n, first)[k - 1], k)
<1> DEFINE Solves(m, f) == f = [k \in e .. m |->
                                  IF k = e THEN first ELSE TrackOneUpvalue(f[k - 1], k)]
           B == {m \in 0 .. n - e : \E f : Solves(e + m, f)}
<1>1. 0 \in B
  <2>1. PICK f : f = [k \in e .. e |-> first]
    OBVIOUS
  <2>2. f = [k \in e .. e |-> IF k = e THEN first ELSE TrackOneUpvalue(f[k - 1], k)]
    BY <2>1
  <2>3. e + 0 = e /\ 0 \in 0 .. n - e
    OBVIOUS
  <2>4. Solves(e + 0, f)
    BY <2>2, <2>3, Zenon
  <2>. HIDE DEF Solves
  <2>. QED
    BY <2>3, <2>4
<1>2. ASSUME NEW m \in 0 .. n - e, m \in B, m < n - e
      PROVE  m + 1 \in B
  <2>1. PICK f : Solves(e + m, f)
    BY <1>2
  <2>2. PICK g : g = [k \in e .. e + (m + 1) |-> IF k = e + (m + 1) THEN TrackOneUpvalue(f[k - 1], k) ELSE f[k]]
    OBVIOUS
  <2>3. \A k \in e .. e + m : /\ g[k] = f[k]
          /\ f[k] = IF k = e THEN first ELSE TrackOneUpvalue(f[k - 1], k)
    BY <2>1, <2>2
  <2>4. ASSUME NEW k \in e .. e + (m + 1)
        PROVE  g[k] = IF k = e THEN first ELSE TrackOneUpvalue(g[k - 1], k)
    <3>1. CASE k = e + (m + 1)
      <4>1. k # e /\ k - 1 \in e .. e + m
        BY <3>1
      <4>2. g[k] = TrackOneUpvalue(f[k - 1], k) /\ f[k - 1] = g[k - 1]
        BY <2>2, <2>3, <3>1, <4>1
      <4>. QED
        BY <4>1, <4>2
    <3>2. CASE k # e + (m + 1)
      <4>1. k \in e .. e + m /\ (k # e => k - 1 \in e .. e + m)
        BY <3>2
      <4>2. k # e => g[k - 1] = f[k - 1]
        BY <2>3, <4>1
      <4>. QED
        BY <2>3, <4>1, <4>2
    <3>. QED
      BY <3>1, <3>2
  <2>5. g = [k \in e .. e + (m + 1) |-> g[k]]
    BY <2>2
  <2>6. Solves(e + (m + 1), g)
    BY <2>4, <2>5
  <2>7. m + 1 \in 0 .. n - e
    BY <1>2
  <2>. HIDE DEF Solves
  <2>. QED
    BY <2>6, <2>7
<1>3. n - e \in B
  <2>. HIDE DEF B
  <2>1. n - e \in Nat
    OBVIOUS
  <2>2. 0 .. n - e \subseteq B
    BY <1>1, <1>2, <2>1, StepByStep
  <2>. QED
    BY <2>1, <2>2
<1>4. \E f : Solves(n, f)
  <2>1. e + (n - e) = n
    OBVIOUS
  <2>. HIDE DEF Solves
  <2>. QED
    BY <1>3, <2>1
<1>5. PICK f : f = TrackedFrom(e, n, first)
  OBVIOUS
<1>6. Solves(n, f)
  <2>1. f = CHOOSE g : Solves(n, g)
    BY <1>5, Zenon DEF TrackedFrom
  <2>. HIDE DEF Solves
  <2>. QED
    BY <1>4, <2>1
<1>7. e \in e .. n /\ \A k \in e + 1 .. n : k \in e .. n /\ k # e
  OBVIOUS
<1>8. f[e] = first
  BY <1>6, <1>7
<1>9. \A k \in e + 1 .. n : f[k] = TrackOneUpvalue(f[k - 1], k)
  BY <1>6, <1>7
<1>. QED
  BY <1>5, <1>8, <1>9

-----------------------------------------------------------------------------
(* Where a name is found *)

LEMMA FindsOwn ==
  ASSUME function_chunks \in Seq(FunctionChunk), function_chunks # <<>>, NEW n
  PROVE  LET L == Locals(function_chunks, Len(function_chunks))
         IN  /\ OwnLocal(n) \in 0 .. Len(L) /\ Len(L) \in Nat
             /\ OwnLocal(n) = 0 => \A i \in DOMAIN L : L[i].name # n
             /\ OwnLocal(n) # 0 =>
                  /\ OwnLocal(n) \in DOMAIN L /\ L[OwnLocal(n)].name = n
                  /\ \A i \in DOMAIN L : L[i].name = n => i <= OwnLocal(n)
<1>1. PICK L : L = Locals(function_chunks, Len(function_chunks))
  OBVIOUS
<1>2. L \in Seq(TrackedLocal) /\ Len(L) \in Nat /\ DOMAIN L = 1 .. Len(L)
  <2>1. Len(function_chunks) \in 1 .. Len(function_chunks)
    OBVIOUS
  <2>. QED
    BY <1>1, <2>1, LocalsFacts
<1> DEFINE I == {i \in 1 .. Len(L) : L[i].name = n}
<1>3. OwnLocal(n) = IF I # {} THEN Max(I) ELSE 0
  BY <1>1, Zenon DEF OwnLocal, SelectLastInSeq, Back, Locals
<1>4. I \in SUBSET (1 .. Len(L)) /\ \A i : i \in I <=> i \in 1 .. Len(L) /\ L[i].name = n
  OBVIOUS
<1>5. PICK k : k = OwnLocal(n)
  OBVIOUS
<1>. HIDE DEF I
<1>6. k \in 0 .. Len(L) /\ (k = 0 <=> I = {}) /\ (k # 0 => k \in I /\ \A i \in I : i <= k)
  BY <1>2, <1>3, <1>4, <1>5, SelectLastFacts
<1>. QED
  BY <1>1, <1>2, <1>4, <1>5, <1>6

LEMMA FindsEnclosing ==
  ASSUME function_chunks \in Seq(FunctionChunk), function_chunks # <<>>, NEW n
  PROVE  LET c == function_chunks
             e == Enclosing(n)
             i == EnclosingLocal(n)
             Has(k) == \E j \in DOMAIN Locals(c, k) : Locals(c, k)[j].name = n
         IN  /\ e \in 0 .. Len(c) - 1
             /\ e = 0 => \A k \in 1 .. Len(c) - 1 : ~Has(k)
             /\ e # 0 => /\ \A k \in 1 .. Len(c) - 1 : Has(k) => k <= e
                         /\ i \in DOMAIN Locals(c, e) /\ Locals(c, e)[i].name = n
<1> DEFINE c == function_chunks
           Has(k) == \E j \in DOMAIN Locals(c, k) : Locals(c, k)[j].name = n
           around == SubSeq(c, 1, Len(c) - 1)
           I == {k \in 1 .. Len(around) : Has(k)}
<1>1. Len(c) \in Nat \ {0} /\ around \in Seq(FunctionChunk) /\ Len(around) = Len(c) - 1
      /\ \A k \in 1 .. Len(c) - 1 : around[k] = c[k]
  <2>1. around = Front(c)
    BY DEF Front
  <2>. HIDE DEF around
  <2>. QED
    BY <2>1, EnvOfBack
<1>. HIDE DEF around
<1>2. {k \in 1 .. Len(around) : \E j \in DOMAIN around[k].tracked_locals : around[k].tracked_locals[j].name = n} = I
  BY <1>1 DEF Locals
<1>3. Enclosing(n) = IF I # {} THEN Max(I) ELSE 0
  BY <1>2, Zenon DEF Enclosing, SelectLastInSeq, around
<1>4. I \in SUBSET (1 .. Len(c) - 1) /\ \A k : k \in I <=> k \in 1 .. Len(c) - 1 /\ Has(k)
  BY <1>1
<1>5. PICK e : e = Enclosing(n)
  OBVIOUS
<1>. HIDE DEF I, Has
<1>6. e \in 0 .. Len(c) - 1 /\ (e = 0 <=> I = {}) /\ (e # 0 => e \in I /\ \A k \in I : k <= e)
  <2>1. PICK m : m = Len(c) - 1
    OBVIOUS
  <2>2. m \in Nat /\ I \in SUBSET (1 .. m)
    BY <1>1, <1>4, <2>1
  <2>3. e \in 0 .. m /\ (e = 0 <=> I = {}) /\ (e # 0 => e \in I /\ \A k \in I : k <= e)
    BY <1>3, <1>5, <2>2, SelectLastFacts
  <2>. QED
    BY <2>1, <2>3
<1>7. e # 0 => EnclosingLocal(n) \in DOMAIN Locals(c, e) /\ Locals(c, e)[EnclosingLocal(n)].name = n
  <2>1. SUFFICES ASSUME e # 0
                 PROVE  EnclosingLocal(n) \in DOMAIN Locals(c, e) /\ Locals(c, e)[EnclosingLocal(n)].name = n
    OBVIOUS
  <2>2. PICK L : L = Locals(c, e)
    OBVIOUS
  <2>3. e \in 1 .. Len(c) /\ Has(e)
    BY <1>1, <1>4, <1>6, <2>1
  <2>4. L \in Seq(TrackedLocal) /\ Len(L) \in Nat /\ DOMAIN L = 1 .. Len(L)
    BY <2>2, <2>3, LocalsFacts
  <2> DEFINE J == {j \in 1 .. Len(L) : L[j].name = n}
  <2>5. J \in SUBSET (1 .. Len(L)) /\ \A j : j \in J <=> j \in 1 .. Len(L) /\ L[j].name = n
    OBVIOUS
  <2>6. J # {}
    BY <2>2, <2>3, <2>4 DEF Has
  <2>7. PICK x : x = EnclosingLocal(n)
    OBVIOUS
  <2>8. x = IF J # {} THEN Min(J) ELSE 0
    BY <1>5, <2>2, <2>7, Zenon DEF EnclosingLocal, SelectInSeq, Locals
  <2>. HIDE DEF J
  <2>9. x \in J
    BY <2>4, <2>5, <2>6, <2>8, SelectFirstFacts
  <2>. QED
    BY <2>2, <2>4, <2>5, <2>7, <2>9
<1>. QED
  BY <1>4, <1>5, <1>6, <1>7 DEF Has

(* One local changes. *)
LEMMA LocalChanges ==
  ASSUME NEW c \in Seq(FunctionChunk), NEW e \in 1 .. Len(c), NEW i \in DOMAIN Locals(c, e),
         NEW l \in TrackedLocal
  PROVE  \E d \in Seq(FunctionChunk) :
           /\ d = [c EXCEPT ![e] = [c[e] EXCEPT !.tracked_locals = [c[e].tracked_locals EXCEPT ![i] = l]]]
           /\ Len(d) = Len(c)
           /\ \A k \in 1 .. Len(c) : /\ Upvalues(d, k) = Upvalues(c, k)
                                     /\ DOMAIN Locals(d, k) = DOMAIN Locals(c, k)
                                     /\ k # e => Locals(d, k) = Locals(c, k)
           /\ Locals(d, e)[i] = l
           /\ \A j \in DOMAIN Locals(c, e) : j # i => Locals(d, e)[j] = Locals(c, e)[j]
<1>1. PICK L : L = Locals(c, e)
  OBVIOUS
<1>2. PICK M : M = [L EXCEPT ![i] = l]
  OBVIOUS
<1>3. L \in Seq(TrackedLocal) /\ c[e] \in FunctionChunk
  BY <1>1, LocalsFacts
<1>4. M \in Seq(TrackedLocal) /\ DOMAIN M = DOMAIN L /\ M[i] = l /\ \A j \in DOMAIN L : j # i => M[j] = L[j]
  BY <1>1, <1>2, <1>3
<1>5. PICK b : b = [c[e] EXCEPT !.tracked_locals = M]
  OBVIOUS
<1>6. b \in FunctionChunk /\ b.tracked_locals = M /\ b.tracked_upvalues = c[e].tracked_upvalues
  BY <1>3, <1>4, <1>5 DEF FunctionChunk
<1>7. PICK d : d = [c EXCEPT ![e] = b]
  OBVIOUS
<1>8. d \in Seq(FunctionChunk) /\ Len(d) = Len(c) /\ d[e] = b /\ \A k \in 1 .. Len(c) : k # e => d[k] = c[k]
  BY <1>6, <1>7
<1>9. d = [c EXCEPT ![e] = [c[e] EXCEPT !.tracked_locals = [c[e].tracked_locals EXCEPT ![i] = l]]]
  BY <1>1, <1>2, <1>5, <1>7 DEF Locals
<1>10. \A k \in 1 .. Len(c) : /\ Upvalues(d, k) = Upvalues(c, k)
                              /\ DOMAIN Locals(d, k) = DOMAIN Locals(c, k)
                              /\ k # e => Locals(d, k) = Locals(c, k)
  BY <1>1, <1>4, <1>6, <1>8 DEF Upvalues, Locals
<1>11. Locals(d, e)[i] = l /\ \A j \in DOMAIN Locals(c, e) : j # i => Locals(d, e)[j] = Locals(c, e)[j]
  BY <1>1, <1>4, <1>6, <1>8 DEF Locals
<1>. QED
  BY <1>8, <1>9, <1>10, <1>11

(* A captured local is marked, and the value of a `var' makes its local     *)
(* initialized.                                                             *)
LEMMA FlagsStaySound ==
  ASSUME NEW c \in Seq(FunctionChunk), NEW e \in 1 .. Len(c), NEW i \in DOMAIN Locals(c, e),
         NEW cap, CapturedMarked(c, cap), UpvaluesOK(c),
         NEW l \in TrackedLocal, l.name = Locals(c, e)[i].name, l.depth = Locals(c, e)[i].depth,
         Locals(c, e)[i].is_captured => l.is_captured,
         l.name = NoName => ~l.is_captured
  PROVE  \E d : /\ d = [c EXCEPT ![e] = [c[e] EXCEPT !.tracked_locals =
                           [c[e].tracked_locals EXCEPT ![i] = l]]]
                /\ Alike(c, d) /\ UpvaluesOK(d) /\ Locals(d, e)[i] = l
<1>1. PICK d \in Seq(FunctionChunk) :
           /\ d = [c EXCEPT ![e] = [c[e] EXCEPT !.tracked_locals = [c[e].tracked_locals EXCEPT ![i] = l]]]
           /\ Len(d) = Len(c)
           /\ \A k \in 1 .. Len(c) : /\ Upvalues(d, k) = Upvalues(c, k)
                                     /\ DOMAIN Locals(d, k) = DOMAIN Locals(c, k)
                                     /\ k # e => Locals(d, k) = Locals(c, k)
           /\ Locals(d, e)[i] = l
           /\ \A j \in DOMAIN Locals(c, e) : j # i => Locals(d, e)[j] = Locals(c, e)[j]
  BY LocalChanges
<1>5. /\ Len(d) = Len(c) /\ Len(c) \in Nat /\ Locals(d, e)[i] = l
      /\ \A k \in 1 .. Len(c) : /\ Upvalues(d, k) = Upvalues(c, k)
                                /\ DOMAIN Locals(d, k) = DOMAIN Locals(c, k)
                                /\ k # e => Locals(d, k) = Locals(c, k)
      /\ \A j \in DOMAIN Locals(c, e) : j # i => Locals(d, e)[j] = Locals(c, e)[j]
  <2>1. Len(c) \in Nat
    OBVIOUS
  <2>. QED
    BY <1>1, <2>1, Zenon
<1>2. ASSUME NEW k \in 1 .. Len(c), NEW j \in DOMAIN Locals(c, k)
      PROVE  /\ Locals(d, k)[j].name = Locals(c, k)[j].name
             /\ Locals(d, k)[j].depth = Locals(c, k)[j].depth
             /\ Locals(c, k)[j].is_captured => Locals(d, k)[j].is_captured
             /\ Locals(d, k)[j].name = NoName => ~Locals(d, k)[j].is_captured
  <2>1. CASE k = e /\ j = i
    BY <1>5, <2>1
  <2>2. CASE ~(k = e /\ j = i)
    <3>1. Locals(d, k)[j] = Locals(c, k)[j]
      BY <1>5, <2>2
    <3>. QED
      BY <3>1 DEF CapturedMarked
  <2>. QED
    BY <2>1, <2>2
<1>3. Alike(c, d)
  BY <1>1, <1>2, <1>5 DEF Alike
<1>4. UpvaluesOK(d)
  <2>1. Len(d) <= Len(c) /\ \A k \in 1 .. Len(d) : Upvalues(d, k) = Upvalues(c, k)
    BY <1>5
  <2>2. ASSUME NEW k \in 1 .. Len(d) - 1, NEW j \in DOMAIN Locals(c, k)
        PROVE  /\ j \in DOMAIN Locals(d, k)
               /\ Locals(c, k)[j].is_captured => Locals(d, k)[j].is_captured
    BY <1>2, <1>5
  <2>. QED
    BY <2>1, <2>2, UpvaluesKept
<1>. QED
  BY <1>1, <1>3, <1>4

(* The functions, the open scopes and the captured variables fit together. *)
Sound(c, scopes, cap) ==
  /\ ScopesFit(c, scopes) /\ LocalsPlaced(c, scopes) /\ Placeholder(c, scopes)
  /\ CapturedMarked(c, cap) /\ UpvaluesOK(c) /\ NoShadows(c)

LEMMA AlikeSound ==
  ASSUME NEW c, NEW scopes, NEW cap, Sound(c, scopes, cap),
         NEW d, Alike(c, d), UpvaluesOK(d)
  PROVE  /\ Sound(d, scopes, cap)
         /\ EnvOf(d) = EnvOf(c) /\ \A k \in 1 .. Len(c) + 1 : Base(d, k) = Base(c, k)
<1>1. /\ ScopesFit(c, scopes) /\ LocalsPlaced(c, scopes) /\ Placeholder(c, scopes)
      /\ CapturedMarked(c, cap) /\ NoShadows(c)
  BY DEF Sound
<1>. QED
  BY <1>1, AlikeStaysSound DEF Sound

LEMMA TrackedShape ==
  ASSUME NEW a, NEW b, NEW c, NEW k
  PROVE  LET r == TrackOneUpvalue([direct |-> a, index |-> b, chunks |-> c], k)
         IN  r = [direct |-> r.direct, index |-> r.index, chunks |-> r.chunks]
<1>1. PICK r : r = TrackOneUpvalue([direct |-> a, index |-> b, chunks |-> c], k)
  OBVIOUS
<1>2. PICK found : found = [direct |-> a, index |-> b, chunks |-> c]
  OBVIOUS
<1>3. \A m, v : \/ r = [found EXCEPT !.direct = m, !.index = v] \/ r = [direct |-> m, index |-> v, chunks |-> r.chunks]
                => r = [direct |-> r.direct, index |-> r.index, chunks |-> r.chunks]
  BY <1>2
<1>4. \E m, v : r = [found EXCEPT !.direct = m, !.index = v] \/ r = [direct |-> m, index |-> v, chunks |-> r.chunks]
  <2>1. PICK v : v = Min({j \in DOMAIN c[k].tracked_upvalues : c[k].tracked_upvalues[j] = [direct |-> a, index |-> b]})
    OBVIOUS
  <2>2. PICK w : w = [c EXCEPT ![k].tracked_upvalues = Append(@, [direct |-> a, index |-> b])]
    OBVIOUS
  <2>3. found.direct = a /\ found.index = b /\ found.chunks = c
    BY <1>2
  <2>4. \/ r = [found EXCEPT !.direct = FALSE, !.index = v]
        \/ r = [direct |-> FALSE, index |-> Len(c[k].tracked_upvalues) + 1, chunks |-> w]
    BY <1>1, <1>2, <2>1, <2>2, <2>3, Zenon DEF TrackOneUpvalue
  <2>5. r = [direct |-> FALSE, index |-> Len(c[k].tracked_upvalues) + 1, chunks |-> w] =>
          r = [direct |-> FALSE, index |-> Len(c[k].tracked_upvalues) + 1, chunks |-> r.chunks]
    OBVIOUS
  <2>. QED
    BY <2>4, <2>5, Zenon
<1>. QED
  BY <1>1, <1>3, <1>4

(* What track_upvalue reaches, in the functions from the one that declares  *)
(* the variable to the last.                                                *)
Reaches(c, e, i, k, r) ==
  /\ r.direct \in BOOLEAN /\ r.index \in Nat
  /\ r = [direct |-> r.direct, index |-> r.index, chunks |-> r.chunks]
  /\ Alike(c, r.chunks) /\ UpvaluesOK(r.chunks)
  /\ k = e => r.direct /\ r.index = i /\ Locals(r.chunks, e)[i].is_captured
  /\ k # e => /\ ~r.direct /\ r.index \in DOMAIN Upvalues(r.chunks, k)
              /\ MeaningOf(r.chunks)[k][r.index] = Base(c, e) + i

LEMMA ReachesFurther ==
  ASSUME NEW c, NEW scopes, NEW cap, Sound(c, scopes, cap),
         NEW e \in 1 .. Len(c), NEW i \in DOMAIN Locals(c, e),
         NEW k \in e .. Len(c) - 1, NEW r, Reaches(c, e, i, k, r)
  PROVE  Reaches(c, e, i, k + 1, TrackOneUpvalue(r, k + 1))
<1>1. PICK d : d = r.chunks
  OBVIOUS
<1>2. PICK u : u = [direct |-> r.direct, index |-> r.index]
  OBVIOUS
<1>3. u \in TrackedUpvalue /\ u.direct = r.direct /\ u.index = r.index
  BY <1>2 DEF Reaches, TrackedUpvalue
<1>4. Alike(c, d) /\ UpvaluesOK(d)
  BY <1>1 DEF Reaches
<1>5. d \in Seq(FunctionChunk) /\ Len(d) = Len(c) /\ Len(c) \in Nat
      /\ \A j \in 1 .. Len(c) + 1 : Base(d, j) = Base(c, j)
  <2>1. d \in Seq(FunctionChunk) /\ Len(d) = Len(c)
    BY <1>4 DEF Alike
  <2>2. Len(d) \in Nat
    BY <2>1
  <2>. QED
    BY <1>4, <2>1, <2>2, AlikeSound
<1>6. /\ k + 1 \in 2 .. Len(d) /\ k + 1 > 1 /\ (k + 1) - 1 = k /\ k + 1 # e
      /\ k \in 1 .. Len(c) + 1 /\ e \in 1 .. Len(c) + 1
  BY <1>5
<1>7. u.direct => k = e /\ u.index = i /\ i \in DOMAIN Locals(d, e) /\ Locals(d, e)[i].is_captured
  <2>1. DOMAIN Locals(d, e) = DOMAIN Locals(c, e)
    BY <1>4 DEF Alike
  <2>. QED
    BY <1>1, <1>3, <2>1 DEF Reaches
<1>8. ~u.direct => k # e /\ u.index \in DOMAIN Upvalues(d, k) /\ MeaningOf(d)[k][u.index] = Base(c, e) + i
  BY <1>1, <1>3 DEF Reaches
<1>9. UpvalueOK(d, k + 1, u)
  BY <1>6, <1>7, <1>8, Zenon DEF UpvalueOK
<1>10. r = [direct |-> u.direct, index |-> u.index, chunks |-> d]
  BY <1>1, <1>3, Zenon DEF Reaches
<1>11. PICK t : t = TrackOneUpvalue(r, k + 1)
  OBVIOUS
<1>12. /\ t.direct = FALSE /\ t.index \in DOMAIN Upvalues(t.chunks, k + 1) /\ t.index \in Nat
       /\ t.chunks \in Seq(FunctionChunk) /\ Len(t.chunks) = Len(d)
       /\ \A j \in 1 .. Len(d) : Locals(t.chunks, j) = Locals(d, j)
       /\ UpvaluesOK(t.chunks)
       /\ MeaningOf(t.chunks)[k + 1][t.index]
            = IF u.direct THEN Base(d, (k + 1) - 1) + u.index ELSE MeaningOf(d)[(k + 1) - 1][u.index]
  <2>1. PICK w : w = k + 1
    OBVIOUS
  <2>2. d \in Seq(FunctionChunk) /\ UpvaluesOK(d) /\ w \in 2 .. Len(d) /\ u \in TrackedUpvalue
        /\ UpvalueOK(d, w, u)
    BY <1>3, <1>4, <1>5, <1>6, <1>9, <2>1
  <2>3. t = TrackOneUpvalue(r, w)
    BY <1>11, <2>1
  <2>4. /\ t.direct = FALSE /\ t.index \in DOMAIN Upvalues(t.chunks, w) /\ t.index \in Nat
        /\ t.chunks \in Seq(FunctionChunk) /\ Len(t.chunks) = Len(d)
        /\ \A j \in 1 .. Len(d) : Locals(t.chunks, j) = Locals(d, j)
        /\ UpvaluesOK(t.chunks)
        /\ MeaningOf(t.chunks)[w][t.index]
             = IF u.direct THEN Base(d, w - 1) + u.index ELSE MeaningOf(d)[w - 1][u.index]
    <3>1. TracksOne(d, w, u, t)
      BY <1>10, <2>2, <2>3, OneTracked
    <3>. QED
      BY <3>1, Zenon DEF TracksOne
  <2>. QED
    BY <2>1, <2>4
<1>13. MeaningOf(t.chunks)[k + 1][t.index] = Base(c, e) + i
  <2>1. MeaningOf(t.chunks)[k + 1][t.index]
            = IF u.direct THEN Base(d, k) + u.index ELSE MeaningOf(d)[k][u.index]
    BY <1>6, <1>12, Zenon
  <2>2. Base(d, k) = Base(c, k)
    BY <1>5, <1>6
  <2>3. CASE u.direct
    BY <1>7, <2>1, <2>2, <2>3
  <2>4. CASE ~u.direct
    BY <1>8, <2>1, <2>4
  <2>. QED
    BY <2>3, <2>4
<1>14. Alike(c, t.chunks)
  BY <1>4, <1>5, <1>12 DEF Alike
<1>15. t = [direct |-> t.direct, index |-> t.index, chunks |-> t.chunks]
  BY <1>10, <1>11, TrackedShape
<1>. QED
  BY <1>6, <1>11, <1>12, <1>13, <1>14, <1>15 DEF Reaches

LEMMA TrackSound ==
  ASSUME NEW scopes, NEW cap, Sound(function_chunks, scopes, cap),
         NEW n, n # NoName, Enclosing(n) # 0
  PROVE  LET c == function_chunks
             t == TrackUpvalue(n)
         IN  /\ Alike(c, t.chunks) /\ UpvaluesOK(t.chunks)
             /\ t.index \in DOMAIN Upvalues(t.chunks, Len(c)) /\ t.index \in Nat
             /\ MeaningOf(t.chunks)[Len(c)][t.index] = Base(c, Enclosing(n)) + EnclosingLocal(n)
<1>1. PICK c : c = function_chunks
  OBVIOUS
<1>2. PICK e, i : e = Enclosing(n) /\ i = EnclosingLocal(n)
  OBVIOUS
<1>3. c \in Seq(FunctionChunk) /\ c # <<>> /\ Len(c) \in Nat \ {0}
      /\ ScopesFit(c, scopes) /\ CapturedMarked(c, cap) /\ UpvaluesOK(c)
  <2>1. ScopesFit(c, scopes) /\ CapturedMarked(c, cap) /\ UpvaluesOK(c)
    BY <1>1 DEF Sound
  <2>2. c \in Seq(FunctionChunk) /\ c # <<>>
    BY <2>1 DEF ScopesFit
  <2>. QED
    BY <2>1, <2>2
<1>4. e \in 1 .. Len(c) - 1 /\ i \in DOMAIN Locals(c, e) /\ Locals(c, e)[i].name = n
  BY <1>1, <1>2, <1>3, FindsEnclosing
<1>5. PICK first : first = [direct |-> TRUE, index |-> i,
                            chunks |-> [c EXCEPT ![e].tracked_locals[i].is_captured = TRUE]]
  OBVIOUS
<1>6. e \in 1 .. Len(c) /\ e \in Nat /\ e <= Len(c) /\ i \in Nat
  <2>1. e \in 1 .. Len(c)
    BY <1>3, <1>4
  <2>2. DOMAIN Locals(c, e) \subseteq Nat
    BY <1>3, <2>1, LocalsFacts
  <2>. QED
    BY <1>3, <1>4, <2>1, <2>2
<1>7. Reaches(c, e, i, e, first)
  <2>1. PICK l : l = [Locals(c, e)[i] EXCEPT !.is_captured = TRUE]
    OBVIOUS
  <2>2. Locals(c, e)[i] \in TrackedLocal
    BY <1>3, <1>4, <1>6, LocalsFacts
  <2>3. l \in TrackedLocal /\ l.name = Locals(c, e)[i].name /\ l.depth = Locals(c, e)[i].depth /\ l.is_captured
    BY <2>1, <2>2 DEF TrackedLocal
  <2>4. l.name # NoName
    BY <1>4, <2>3
  <2>5. PICK d : /\ d = [c EXCEPT ![e] = [c[e] EXCEPT !.tracked_locals =
                           [c[e].tracked_locals EXCEPT ![i] = l]]]
                 /\ Alike(c, d) /\ UpvaluesOK(d) /\ Locals(d, e)[i] = l
    BY <1>3, <1>4, <1>6, <2>3, <2>4, FlagsStaySound
  <2>6. d = [c EXCEPT ![e].tracked_locals[i].is_captured = TRUE]
    BY <2>1, <2>5 DEF Locals
  <2>7. first.chunks = d /\ first.direct /\ first.direct \in BOOLEAN /\ first.index = i
        /\ first = [direct |-> first.direct, index |-> first.index, chunks |-> first.chunks]
    BY <1>5, <2>6
  <2>. QED
    BY <1>6, <2>3, <2>5, <2>7, Zenon DEF Reaches
<1>8. PICK f : /\ TrackUpvalue(n) = f[Len(c)]
               /\ f[e] = first
               /\ \A k \in e + 1 .. Len(c) : f[k] = TrackOneUpvalue(f[k - 1], k)
  <2> DEFINE E == Enclosing(n)
             N == Len(function_chunks)
             First == [direct |-> TRUE, index |-> EnclosingLocal(n),
                       chunks |-> [function_chunks EXCEPT
                         ![Enclosing(n)].tracked_locals[EnclosingLocal(n)].is_captured = TRUE]]
             Chosen == TrackedFrom(E, N, First)
  <2>1. TrackUpvalue(n) = Chosen[N]
    BY Zenon DEF TrackUpvalue, TrackedFrom
  <2>2. E \in Nat /\ N \in Nat /\ E <= N /\ First = first /\ E = e /\ N = Len(c)
    BY <1>1, <1>2, <1>3, <1>5, <1>6
  <2>3. Chosen[E] = First /\ \A k \in E + 1 .. N : Chosen[k] = TrackOneUpvalue(Chosen[k - 1], k)
    <3>1. E \in Nat /\ N \in Nat /\ E <= N
      BY <2>2
    <3>. HIDE DEF E, N, First
    <3>. QED
      BY <3>1, TrackUnfolds
  <2>. HIDE DEF E, N, First, Chosen
  <2>. QED
    BY <2>1, <2>2, <2>3, Zenon
<1>9. TrackUpvalue(n) = f[Len(c)]
  BY <1>8
<1>10. \A k \in e + 1 .. Len(c) : f[k] = TrackOneUpvalue(f[k - 1], k)
  BY <1>8
<1>11. f[e] = first
  BY <1>8
<1> DEFINE B == {m \in 0 .. Len(c) - e : Reaches(c, e, i, e + m, f[e + m])}
<1>12. Len(c) - e \in Nat /\ 0 \in B
  <2>1. Len(c) - e \in Nat /\ 0 \in 0 .. Len(c) - e /\ e + 0 = e
    BY <1>3, <1>6
  <2>. QED
    BY <1>7, <1>11, <2>1
<1>13. ASSUME NEW m \in 0 .. Len(c) - e, m \in B, m < Len(c) - e
       PROVE  m + 1 \in B
  <2>1. PICK k : k = e + m
    OBVIOUS
  <2>2. k \in e .. Len(c) - 1 /\ k + 1 \in e + 1 .. Len(c) /\ e + (m + 1) = k + 1 /\ (k + 1) - 1 = k
        /\ m + 1 \in 0 .. Len(c) - e
    BY <1>3, <1>6, <1>13, <2>1
  <2>3. Reaches(c, e, i, k, f[k])
    BY <1>13, <2>1
  <2>4. f[k + 1] = TrackOneUpvalue(f[k], k + 1)
    BY <1>10, <2>2, Zenon
  <2>5. Sound(c, scopes, cap)
    BY <1>1
  <2>6. Reaches(c, e, i, k + 1, f[k + 1])
    BY <1>4, <1>6, <2>2, <2>3, <2>4, <2>5, ReachesFurther
  <2>. QED
    BY <2>2, <2>6
<1>14. Len(c) - e \in B
  <2>. HIDE DEF B
  <2>1. 0 .. Len(c) - e \subseteq B
    BY <1>12, <1>13, StepByStep
  <2>. QED
    BY <1>12, <2>1
<1>15. Reaches(c, e, i, Len(c), f[Len(c)]) /\ Len(c) # e
  <2>1. e + (Len(c) - e) = Len(c) /\ Len(c) # e
    BY <1>3, <1>4
  <2>2. Reaches(c, e, i, e + (Len(c) - e), f[e + (Len(c) - e)])
    BY <1>14
  <2>. QED
    BY <2>1, <2>2, Zenon
<1>. QED
  BY <1>1, <1>2, <1>9, <1>15 DEF Reaches

(* The variable that an instruction reaches, and the one that a name finds: *)
(* 0 when there is none.                                                    *)
Reached(chunks, op, index) ==
  CASE op = "local" -> Position(chunks, Len(chunks), index)
    [] op = "upvalue" -> MeaningOf(chunks)[Len(chunks)][index]
    [] OTHER -> 0
Found(n) ==
  IF OwnLocal(n) # 0 THEN Base(function_chunks, Len(function_chunks)) + OwnLocal(n)
  ELSE IF Enclosing(n) # 0 THEN Base(function_chunks, Enclosing(n)) + EnclosingLocal(n)
  ELSE 0

LEMMA AccessSound ==
  ASSUME NEW scopes, NEW cap, Sound(function_chunks, scopes, cap), NEW n, n # NoName
  PROVE  LET a == Access(n)
         IN  /\ Alike(function_chunks, a.chunks) /\ UpvaluesOK(a.chunks)
             /\ a.op \in {"local", "upvalue", "global"} /\ a.index \in Nat
             /\ Reached(a.chunks, a.op, a.index) = Found(n)
             /\ a.op = "upvalue" => a.index \in DOMAIN Upvalues(a.chunks, Len(a.chunks))
<1>1. PICK c : c = function_chunks
  OBVIOUS
<1>2. c \in Seq(FunctionChunk) /\ c # <<>> /\ Len(c) \in Nat \ {0}
      /\ CapturedMarked(c, cap) /\ UpvaluesOK(c)
  <2>1. ScopesFit(c, scopes) /\ CapturedMarked(c, cap) /\ UpvaluesOK(c)
    BY <1>1 DEF Sound
  <2>2. c \in Seq(FunctionChunk) /\ c # <<>>
    BY <2>1 DEF ScopesFit
  <2>. QED
    BY <2>1, <2>2
<1>3. Alike(c, c)
  BY <1>2, AlikeItself
<1>4. PICK a : a = Access(n)
  OBVIOUS
<1>5. PICK m : m = OwnLocal(n)
  OBVIOUS
<1>6. PICK e : e = Enclosing(n)
  OBVIOUS
<1>7. CASE m # 0
  <2>1. a = [chunks |-> c, op |-> "local", index |-> m, failed |-> ~Back.tracked_locals[m].initialized]
    BY <1>1, <1>4, <1>5, <1>7, Zenon DEF Access
  <2>2. a.chunks = c /\ a.op = "local" /\ a.index = m
    BY <2>1
  <2>3. m \in Nat
    BY <1>1, <1>2, <1>5, FindsOwn
  <2>4. Reached(c, "local", m) = Position(c, Len(c), m)
    BY DEF Reached
  <2>5. Found(n) = Base(c, Len(c)) + m
    BY <1>1, <1>5, <1>7 DEF Found
  <2>6. Reached(a.chunks, a.op, a.index) = Found(n)
    BY <2>2, <2>4, <2>5, PositionIsBase, Zenon
  <2>. QED
    BY <1>1, <1>2, <1>3, <1>4, <2>2, <2>3, <2>6
<1>8. CASE m = 0 /\ e # 0
  <2>1. PICK t : t = TrackUpvalue(n)
    OBVIOUS
  <2>2. a = [chunks |-> t.chunks, op |-> "upvalue", index |-> t.index, failed |-> FALSE]
    BY <1>4, <1>5, <1>6, <1>8, <2>1, Zenon DEF Access
  <2>3. a.chunks = t.chunks /\ a.op = "upvalue" /\ a.index = t.index
    BY <2>2
  <2>4. /\ Alike(c, t.chunks) /\ UpvaluesOK(t.chunks) /\ t.index \in Nat
        /\ MeaningOf(t.chunks)[Len(c)][t.index] = Base(c, e) + EnclosingLocal(n)
        /\ t.index \in DOMAIN Upvalues(t.chunks, Len(c))
    BY <1>1, <1>6, <1>8, <2>1, TrackSound
  <2>5. Len(t.chunks) = Len(c)
    BY <2>4 DEF Alike
  <2>6. Reached(t.chunks, "upvalue", t.index) = MeaningOf(t.chunks)[Len(t.chunks)][t.index]
    BY DEF Reached
  <2>7. Found(n) = Base(c, e) + EnclosingLocal(n)
    BY <1>1, <1>5, <1>6, <1>8 DEF Found
  <2>8. Reached(a.chunks, a.op, a.index) = Found(n)
    BY <2>3, <2>4, <2>5, <2>6, <2>7, Zenon
  <2>9. a.index \in DOMAIN Upvalues(a.chunks, Len(a.chunks))
    BY <2>3, <2>4, <2>5, Zenon
  <2>. QED
    BY <1>1, <1>4, <2>3, <2>4, <2>8, <2>9
<1>9. CASE m = 0 /\ e = 0
  <2>1. a = [chunks |-> c, op |-> "global", index |-> 0, failed |-> FALSE]
    BY <1>1, <1>4, <1>5, <1>6, <1>9, Zenon DEF Access
  <2>2. a.chunks = c /\ a.op = "global" /\ a.index = 0
    BY <2>1
  <2>3. Reached(c, "global", 0) = 0
    BY DEF Reached
  <2>4. Found(n) = 0
    BY <1>5, <1>6, <1>9 DEF Found
  <2>5. Reached(a.chunks, a.op, a.index) = Found(n)
    BY <2>2, <2>3, <2>4, Zenon
  <2>. QED
    BY <1>1, <1>2, <1>3, <1>4, <2>2, <2>5
<1>. QED
  BY <1>7, <1>8, <1>9

(* Where no function declares a name twice, the variable found is the       *)
(* innermost.                                                               *)
LEMMA FoundIsInnermost ==
  ASSUME function_chunks \in Seq(FunctionChunk), function_chunks # <<>>,
         NoShadows(function_chunks), ~ShadowInFunction, NEW n
  PROVE  Found(n) = Max({p \in DOMAIN Env : Env[p] = n} \cup {0})
<1>1. PICK c : c = function_chunks
  OBVIOUS
<1>2. PICK N : N = Len(c)
  OBVIOUS
<1>3. PICK env : env = EnvOf(c)
  OBVIOUS
<1>4. PICK B : B = {p \in DOMAIN Env : Env[p] = n} \cup {0}
  OBVIOUS
<1>5. c \in Seq(FunctionChunk) /\ N \in Nat \ {0} /\ N \in 1 .. Len(c) /\ NoShadows(c)
  BY <1>1, <1>2
<1>6. env \in Seq(Name) /\ Len(env) \in Nat /\ DOMAIN env = 1 .. Len(env)
  <2>1. env \in Seq(Name)
    BY <1>3, <1>5, EnvFacts
  <2>. QED
    BY <2>1
<1>7. \A p : p \in B <=> p = 0 \/ (p \in 1 .. Len(env) /\ env[p] = n)
  BY <1>1, <1>3, <1>4, <1>6 DEF Env
<1>8. B \in SUBSET (0 .. Len(env)) /\ B # {}
  BY <1>6, <1>7
<1>9. ASSUME NEW p \in B, \A q \in B : q <= p
      PROVE  Max(B) = p
  <2>1. PICK m : m = Max(B)
    OBVIOUS
  <2>2. m \in B /\ \A q \in B : q <= m
    BY <1>6, <1>8, <2>1, MaxFacts
  <2>3. m \in 0 .. Len(env) /\ p \in 0 .. Len(env)
    BY <1>8, <2>2
  <2>4. m <= p /\ p <= m
    BY <1>9, <2>2
  <2>. QED
    BY <2>1, <2>3, <2>4
<1>10. \A k \in 1 .. Len(c) : \A i \in DOMAIN Locals(c, k) :
         Base(c, k) + i \in 1 .. Len(env) /\ env[Base(c, k) + i] = Locals(c, k)[i].name
  BY <1>3, <1>5, EnvFacts
<1>11. \A k \in 1 .. Len(c) + 1 : Base(c, k) \in 0 .. Len(env)
  BY <1>3, <1>5, EnvFacts
<1>12. \A p \in 1 .. Len(env) :
         \E k \in 1 .. Len(c) : \E i \in DOMAIN Locals(c, k) : p = Base(c, k) + i
  BY <1>3, <1>5, EnvFacts
<1>13. \A j, k \in 1 .. Len(c) + 1 : j <= k => Base(c, j) <= Base(c, k)
  BY <1>3, <1>5, EnvFacts
<1>14. \A k \in 1 .. Len(c) : Base(c, k + 1) = Base(c, k) + Len(Locals(c, k))
  BY <1>3, <1>5, EnvFacts
<1>15. \A k \in 1 .. Len(c) : \A i \in DOMAIN Locals(c, k) :
         i \in Nat \ {0} /\ i <= Len(Locals(c, k)) /\ Len(Locals(c, k)) \in Nat
  <2>1. ASSUME NEW k \in 1 .. Len(c), NEW i \in DOMAIN Locals(c, k)
        PROVE  i \in Nat \ {0} /\ i <= Len(Locals(c, k)) /\ Len(Locals(c, k)) \in Nat
    <3>1. Len(Locals(c, k)) \in Nat /\ DOMAIN Locals(c, k) = 1 .. Len(Locals(c, k))
      BY <1>5, LocalsFacts
    <3>. QED
      BY <3>1
  <2>. QED
    BY <2>1
(* A variable of that name is at or before the i-th of function e, when no *)
(* function after e has one and no later local of e has the name.          *)
<1>16. ASSUME NEW e \in 1 .. Len(c), NEW i \in DOMAIN Locals(c, e), Locals(c, e)[i].name = n,
              \A k \in 1 .. Len(c) : \A j \in DOMAIN Locals(c, k) :
                Locals(c, k)[j].name = n => (k < e \/ (k = e /\ j <= i))
       PROVE  Max(B) = Base(c, e) + i
  <2>1. Base(c, e) + i \in B
    BY <1>7, <1>10, <1>16
  <2>2. Base(c, e) \in Nat /\ i \in Nat
    <3>1. e \in 1 .. Len(c) + 1
      BY <1>5
    <3>. QED
      BY <1>11, <1>15, <3>1
  <2>3. ASSUME NEW q \in B
        PROVE  q <= Base(c, e) + i
    <3>1. CASE q = 0
      BY <2>2, <3>1
    <3>2. CASE q # 0
      <4>1. q \in 1 .. Len(env) /\ env[q] = n
        BY <1>7, <3>2
      <4>7. PICK k \in 1 .. Len(c) : \E j \in DOMAIN Locals(c, k) : q = Base(c, k) + j
        BY <1>12, <4>1
      <4>2. PICK j \in DOMAIN Locals(c, k) : q = Base(c, k) + j
        BY <4>7
      <4>3. Locals(c, k)[j].name = n
        BY <1>10, <4>1, <4>2
      <4>4. k < e \/ (k = e /\ j <= i)
        BY <1>16, <4>3
      <4>5. CASE k = e /\ j <= i
        <5>1. j \in Nat
          BY <1>15
        <5>. QED
          BY <2>2, <4>2, <4>5, <5>1
      <4>6. CASE k < e
        <5>1. k \in 1 .. Len(c) + 1 /\ k + 1 \in 1 .. Len(c) + 1 /\ e \in 1 .. Len(c) + 1 /\ k + 1 <= e
          BY <1>5, <4>6
        <5>2. Base(c, k + 1) <= Base(c, e)
          BY <1>13, <5>1
        <5>3. j \in Nat /\ j <= Len(Locals(c, k)) /\ Len(Locals(c, k)) \in Nat
          BY <1>15
        <5>4. Base(c, k) \in Nat /\ Base(c, k + 1) = Base(c, k) + Len(Locals(c, k))
          BY <1>11, <1>14, <5>1
        <5>. QED
          BY <2>2, <4>2, <5>2, <5>3, <5>4
      <4>. QED
        BY <4>4, <4>5, <4>6
    <3>. QED
      BY <3>1, <3>2
  <2>. QED
    BY <1>9, <2>1, <2>3
<1>17. CASE OwnLocal(n) # 0
  <2>1. PICK m : m = OwnLocal(n)
    OBVIOUS
  <2>2. /\ m \in DOMAIN Locals(c, N) /\ Locals(c, N)[m].name = n
        /\ \A i \in DOMAIN Locals(c, N) : Locals(c, N)[i].name = n => i <= m
    BY <1>1, <1>2, <1>5, <1>17, <2>1, FindsOwn
  <2>3. \A k \in 1 .. Len(c) : \A j \in DOMAIN Locals(c, k) :
                Locals(c, k)[j].name = n => (k < N \/ (k = N /\ j <= m))
    BY <1>2, <1>5, <2>2
  <2>4. Max(B) = Base(c, N) + m
    BY <1>5, <1>16, <2>2, <2>3
  <2>. QED
    BY <1>1, <1>2, <1>4, <1>17, <2>1, <2>4 DEF Found
<1>18. CASE OwnLocal(n) = 0 /\ Enclosing(n) # 0
  <2>1. PICK e, i : e = Enclosing(n) /\ i = EnclosingLocal(n)
    OBVIOUS
  <2>2. /\ e \in 1 .. N - 1 /\ i \in DOMAIN Locals(c, e) /\ Locals(c, e)[i].name = n
        /\ \A k \in 1 .. N - 1 : (\E j \in DOMAIN Locals(c, k) : Locals(c, k)[j].name = n) => k <= e
    BY <1>1, <1>2, <1>5, <1>18, <2>1, FindsEnclosing
  <2>3. e \in 1 .. Len(c) /\ e < N
    BY <1>2, <1>5, <2>2
  <2>4. \A i_1 \in DOMAIN Locals(c, N) : Locals(c, N)[i_1].name # n
    BY <1>1, <1>2, <1>5, <1>18, FindsOwn
  <2>5. \A j \in DOMAIN Locals(c, e) : Locals(c, e)[j].name = n => j = i
    <3>1. PICK names : names = NamesOf(c[e])
      OBVIOUS
    <3>2. IsInjective(names)
      BY <1>5, <2>3, <3>1 DEF NoShadows
    <3>3. DOMAIN names = DOMAIN Locals(c, e) /\ \A j \in DOMAIN Locals(c, e) : names[j] = Locals(c, e)[j].name
      BY <1>5, <2>3, <3>1, NamesOfFacts DEF Locals
    <3>. QED
      BY <2>2, <3>2, <3>3 DEF IsInjective
  <2>6. ASSUME NEW k \in 1 .. Len(c), NEW j \in DOMAIN Locals(c, k), Locals(c, k)[j].name = n
        PROVE  k < e \/ (k = e /\ j <= i)
    <3>1. k # N
      BY <2>4, <2>6
    <3>2. k \in 1 .. N - 1
      BY <1>2, <1>5, <3>1
    <3>3. k <= e
      BY <2>2, <2>6, <3>2
    <3>4. k = e => j = i /\ i \in Nat
      BY <1>15, <2>5, <2>6
    <3>. QED
      BY <2>3, <3>3, <3>4
  <2>7. Max(B) = Base(c, e) + i
    BY <1>16, <2>2, <2>3, <2>6
  <2>. QED
    BY <1>1, <1>4, <1>18, <2>1, <2>7 DEF Found
<1>19. CASE OwnLocal(n) = 0 /\ Enclosing(n) = 0
  <2>1. \A i \in DOMAIN Locals(c, N) : Locals(c, N)[i].name # n
    BY <1>1, <1>2, <1>5, <1>19, FindsOwn
  <2>2. \A k \in 1 .. N - 1 : \A j \in DOMAIN Locals(c, k) : Locals(c, k)[j].name # n
    BY <1>1, <1>2, <1>5, <1>19, FindsEnclosing
  <2>3. \A k \in 1 .. Len(c) : \A j \in DOMAIN Locals(c, k) : Locals(c, k)[j].name # n
    BY <1>2, <1>5, <2>1, <2>2
  <2>4. \A p \in B : p = 0
    BY <1>7, <1>10, <1>12, <2>3
  <2>5. 0 \in B /\ \A q \in B : q <= 0
    BY <1>7, <2>4
  <2>6. Max(B) = 0
    BY <1>9, <2>5
  <2>. QED
    BY <1>4, <1>19, <2>6 DEF Found
<1>. QED
  BY <1>17, <1>18, <1>19

-----------------------------------------------------------------------------
(* The innermost scope's own variables *)

LEMMA TopScope ==
  ASSUME NEW c, NEW scopes, ScopesFit(c, scopes), LocalsPlaced(c, scopes), Placeholder(c, scopes),
         scopes # <<>>
  PROVE  /\ Len(c) \in Nat \ {0} /\ Len(scopes) \in Nat \ {0}
         /\ scopes[Len(scopes)].from \in Base(c, Len(c)) .. Len(EnvOf(c))
         /\ Base(c, Len(c)) \in Nat /\ Len(EnvOf(c)) \in Nat
         /\ \A i \in DOMAIN Locals(c, Len(c)) :
              LET l == Locals(c, Len(c))[i]
              IN  /\ Base(c, Len(c)) + i > scopes[Len(scopes)].from =>
                       \/ l.depth = Len(scopes)
                       \/ /\ l.depth = 0 /\ Len(scopes) = 1 /\ Len(c) = 1 /\ i = 1
                          /\ l.name = NoName /\ scopes[1].kind = "subclass"
                  /\ Base(c, Len(c)) + i <= scopes[Len(scopes)].from => l.depth # Len(scopes)
<1>1. /\ c \in Seq(FunctionChunk) /\ c # <<>> /\ scopes \in Seq(Construct)
      /\ Len(c) = Home(scopes, Len(scopes))
  BY DEF ScopesFit
<1>2. Len(c) \in Nat \ {0} /\ Len(scopes) \in Nat \ {0} /\ Len(scopes) \in 1 .. Len(scopes)
      /\ Len(c) \in 1 .. Len(c) /\ Len(c) \in 1 .. Len(c) + 1
  BY <1>1
<1>3. scopes[Len(scopes)].from \in Base(c, Len(c)) .. Len(EnvOf(c))
  <2>1. scopes[Len(scopes)].from \in Base(c, Home(scopes, Len(scopes))) .. Len(EnvOf(c))
    BY <1>2 DEF ScopesFit
  <2>. QED
    BY <1>1, <2>1
<1>4. Base(c, Len(c)) \in Nat /\ Len(EnvOf(c)) \in Nat
  <2>1. Len(EnvOf(c)) \in Nat
    BY <1>1, EnvFacts
  <2>2. \A k \in 1 .. Len(c) + 1 : Base(c, k) \in 0 .. Len(EnvOf(c))
    BY <1>1, EnvFacts
  <2>3. Base(c, Len(c)) \in 0 .. Len(EnvOf(c))
    BY <1>2, <2>2
  <2>. QED
    BY <2>1, <2>3
<1>5. ASSUME NEW i \in DOMAIN Locals(c, Len(c))
      PROVE  LET l == Locals(c, Len(c))[i]
              IN  /\ Base(c, Len(c)) + i > scopes[Len(scopes)].from =>
                       \/ l.depth = Len(scopes)
                       \/ /\ l.depth = 0 /\ Len(scopes) = 1 /\ Len(c) = 1 /\ i = 1
                          /\ l.name = NoName /\ scopes[1].kind = "subclass"
                  /\ Base(c, Len(c)) + i <= scopes[Len(scopes)].from => l.depth # Len(scopes)
  <2>1. PICK l : l = Locals(c, Len(c))[i]
    OBVIOUS
  <2>2. PICK D : D = Len(scopes)
    OBVIOUS
  <2>3. PICK p : p = Base(c, Len(c)) + i
    OBVIOUS
  <2>4. PICK from : from = scopes[Len(scopes)].from
    OBVIOUS
  <2>5. D \in 1 .. Len(scopes) /\ D \in Nat \ {0}
    BY <1>2, <2>2
  <2>6. ScopeOf(l) \in 1 .. D /\ (ScopeOf(l) >= D <=> p > from)
    BY <1>2, <2>1, <2>2, <2>3, <2>4, <2>5, InScope
  <2>7. l.depth = 0 => /\ Len(c) = 1 /\ i = 1 /\ l.name = NoName /\ scopes[1].kind = "subclass"
    BY <1>2, <2>1 DEF Placeholder
  <2>8. (l.depth = 0 => ScopeOf(l) = 1) /\ (l.depth # 0 => ScopeOf(l) = l.depth)
    BY DEF ScopeOf
  <2>9. i \in Nat /\ from \in Nat /\ p \in Nat
    <3>1. DOMAIN Locals(c, Len(c)) \subseteq Nat
      BY <1>1, <1>2, LocalsFacts
    <3>2. from \in Base(c, Len(c)) .. Len(EnvOf(c))
      BY <1>3, <2>4
    <3>. QED
      BY <1>4, <2>3, <3>1, <3>2
  <2>10. p > from => l.depth = D \/ (l.depth = 0 /\ D = 1)
    <3>1. SUFFICES ASSUME p > from
                   PROVE  l.depth = D \/ (l.depth = 0 /\ D = 1)
      OBVIOUS
    <3>2. ScopeOf(l) = D
      BY <2>5, <2>6, <3>1
    <3>. QED
      BY <2>8, <3>2
  <2>11. p <= from => l.depth # D
    <3>1. SUFFICES ASSUME p <= from
                   PROVE  l.depth # D
      OBVIOUS
    <3>2. ~(p > from)
      BY <2>9, <3>1
    <3>3. ScopeOf(l) # D
      BY <2>5, <2>6, <3>2
    <3>. QED
      BY <2>5, <2>8, <3>3
  <2>. QED
    BY <2>1, <2>2, <2>3, <2>4, <2>7, <2>10, <2>11
<1>. QED
  BY <1>2, <1>3, <1>4, <1>5

(* pop_top_scope_depth leaves what was there when the scope began.          *)
LEMMA StayingFacts ==
  ASSUME NEW scopes, ScopesFit(function_chunks, scopes), LocalsPlaced(function_chunks, scopes),
         Placeholder(function_chunks, scopes), scopes # <<>>, scope_depth = Len(scopes)
  PROVE  LET c == function_chunks
             L == Locals(c, Len(c))
             keep == scopes[Len(scopes)].from - Base(c, Len(c))
         IN  /\ L \in Seq(TrackedLocal) /\ Len(L) \in Nat /\ keep \in 0 .. Len(L)
             /\ ~(Len(scopes) = 1 /\ scopes[1].kind = "subclass") =>
                  Staying(L) = SubSeq(L, 1, keep) /\ Len(Staying(L)) = keep
             /\ Len(scopes) = 1 /\ scopes[1].kind = "subclass" =>
                  /\ keep = 0 /\ Len(Staying(L)) = 1 /\ Front(Staying(L)) = SubSeq(L, 1, keep)
                  /\ Len(c) = 1 /\ L # <<>> /\ L[1].name = NoName
<1>1. PICK c : c = function_chunks
  OBVIOUS
<1>2. PICK D : D = Len(scopes)
  OBVIOUS
<1>3. PICK L : L = Locals(c, Len(c))
  OBVIOUS
<1>4. PICK b : b = Base(c, Len(c))
  OBVIOUS
<1>5. PICK from : from = scopes[Len(scopes)].from
  OBVIOUS
<1>6. /\ Len(c) \in Nat \ {0} /\ D \in Nat \ {0} /\ from \in b .. Len(EnvOf(c)) /\ b \in Nat
      /\ Len(EnvOf(c)) \in Nat
      /\ \A i \in DOMAIN L :
              /\ b + i > from =>
                       \/ L[i].depth = D
                       \/ /\ L[i].depth = 0 /\ D = 1 /\ Len(c) = 1 /\ i = 1
                          /\ L[i].name = NoName /\ scopes[1].kind = "subclass"
              /\ b + i <= from => L[i].depth # D
  BY <1>1, <1>2, <1>3, <1>4, <1>5, TopScope
<1>7. c \in Seq(FunctionChunk) /\ c # <<>> /\ Len(c) \in 1 .. Len(c)
  BY <1>1, <1>6 DEF ScopesFit
<1>8. L \in Seq(TrackedLocal) /\ Len(L) \in Nat /\ DOMAIN L = 1 .. Len(L)
  BY <1>3, <1>7, LocalsFacts
<1>9. Len(EnvOf(c)) = b + Len(L)
  BY <1>3, <1>4, <1>7, EnvOfBack
<1>10. PICK keep : keep = from - b
  OBVIOUS
<1>11. keep \in 0 .. Len(L) /\ keep \in Nat /\ \A i \in 1 .. Len(L) : b + i > from <=> i > keep
  BY <1>6, <1>8, <1>9, <1>10
<1> DEFINE I == {i \in 1 .. Len(L) : L[i].depth # scope_depth}
<1>12. PICK last : last = IF I # {} THEN Max(I) ELSE 0
  OBVIOUS
<1>13. last \in 0 .. Len(L) /\ (last = 0 <=> I = {}) /\ (last # 0 => last \in I /\ \A i \in I : i <= last)
  <2>1. I \in SUBSET (1 .. Len(L))
    OBVIOUS
  <2>. HIDE DEF I
  <2>. QED
    BY <1>8, <1>12, <2>1, SelectLastFacts
<1>14. Staying(L) = SubSeq(L, 1, last)
  BY <1>12, Zenon DEF Staying, SelectLastInSeq
<1>15. \A i : i \in I <=> i \in 1 .. Len(L) /\ L[i].depth # D
  BY <1>2
<1>. HIDE DEF I
<1>16. CASE ~(D = 1 /\ scopes[1].kind = "subclass")
  <2>1. \A i \in 1 .. Len(L) : i \in I <=> i <= keep
    BY <1>6, <1>8, <1>11, <1>15, <1>16
  <2>2. last = keep
    <3>1. CASE keep = 0
      BY <1>11, <1>13, <2>1, <3>1
    <3>2. CASE keep # 0
      <4>1. keep \in I
        BY <1>11, <2>1, <3>2
      <4>2. last \in I /\ keep <= last
        BY <1>13, <4>1
      <4>3. last \in 1 .. Len(L) /\ last <= keep
        BY <1>15, <2>1, <4>2
      <4>. QED
        BY <1>11, <4>2, <4>3
    <3>. QED
      BY <3>1, <3>2
  <2>3. Len(SubSeq(L, 1, keep)) = keep
    BY <1>8, <1>11
  <2>. QED
    BY <1>1, <1>2, <1>3, <1>4, <1>5, <1>8, <1>10, <1>11, <1>14, <1>16, <2>2, <2>3
<1>17. CASE D = 1 /\ scopes[1].kind = "subclass"
  <2>1. L # <<>> /\ L[1].depth = 0 /\ Len(c) = 1 /\ from = 0 /\ b = 0
    <3>1. Locals(c, 1) # <<>> /\ Locals(c, 1)[1].depth = 0
      BY <1>1, <1>17 DEF Placeholder
    <3>2. from = 0
      BY <1>1, <1>2, <1>5, <1>17 DEF ScopesFit
    <3>3. b = 0
      BY <1>6, <3>2
    <3>4. Locals(c, 1) \in Seq(TrackedLocal) /\ 1 \in 1 .. Len(c)
      BY <1>6, <1>7, LocalsFacts
    <3>5. 1 \in DOMAIN Locals(c, 1)
      BY <3>1, <3>4
    <3>6. ScopeOf(Locals(c, 1)[1]) \in 1 .. D
      BY <1>1, <1>2, <3>4, <3>5 DEF LocalsPlaced
    <3>7. Len(c) = Home(scopes, 1)
      BY <1>1, <1>2, <1>17 DEF ScopesFit
    <3>8. Home(scopes, 1) = 1
      <4>1. scopes \in Seq(Construct) /\ 1 \in 1 .. Len(scopes) /\ 1 - 1 = 0
        BY <1>1, <1>2, <1>17 DEF ScopesFit
      <4>2. scopes[1].kind \notin FunctionKind
        BY <1>17 DEF FunctionKind
      <4>3. Home(scopes, 0) = 1
        BY <4>1, HomeFacts
      <4>4. Home(scopes, 1) = Home(scopes, 1 - 1) + IF scopes[1].kind \in FunctionKind THEN 1 ELSE 0
        BY <4>1, HomeFacts
      <4>. QED
        BY <4>1, <4>2, <4>3, <4>4
    <3>. QED
      BY <1>3, <3>1, <3>2, <3>3, <3>7, <3>8
  <2>2. 1 \in 1 .. Len(L) /\ 1 \in I
    BY <1>8, <1>15, <1>17, <2>1
  <2>3. \A i \in I : i = 1
    BY <1>6, <1>8, <1>15, <1>17, <2>1
  <2>4. last = 1
    BY <1>13, <2>2, <2>3
  <2>5. Staying(L) \in Seq(TrackedLocal) /\ Len(Staying(L)) = 1
    BY <1>8, <1>14, <2>2, <2>4
  <2>6. keep = 0
    BY <1>10, <2>1
  <2>7. Front(Staying(L)) = <<>> /\ SubSeq(L, 1, keep) = <<>>
    <3>1. Front(Staying(L)) \in Seq(TrackedLocal) /\ Len(Front(Staying(L))) = 0
      BY <2>5, FrontLast
    <3>2. SubSeq(L, 1, keep) \in Seq(TrackedLocal) /\ Len(SubSeq(L, 1, keep)) = 0
      BY <1>8, <2>6
    <3>. QED
      BY <3>1, <3>2
  <2>8. L[1].name = NoName
    BY <1>1, <1>3, <1>6, <1>7, <1>8, <2>1, <2>2 DEF Placeholder
  <2>. QED
    BY <1>1, <1>2, <1>3, <1>4, <1>5, <1>8, <1>10, <1>11, <1>17, <2>1, <2>5, <2>6, <2>7, <2>8
<1>. QED
  BY <1>16, <1>17

(* It emits one instruction for each of the others, and a captured one gets *)
(* the instruction that closes its upvalue.                                 *)
LEMMA PoppingFacts ==
  ASSUME NEW L \in Seq(TrackedLocal), Len(Staying(L)) \in 0 .. Len(L)
  PROVE  /\ Popping(L) \in Seq(Instruction)
         /\ \A j \in DOMAIN Popping(L) : Popping(L)[j].op \in {"pop", "close_upvalue"}
         /\ \A i \in Len(Staying(L)) + 1 .. Len(L) : L[i].is_captured =>
              [op |-> "close_upvalue", index |-> i] \in ToSet(Popping(L))
<1>1. PICK s : s = Len(Staying(L))
  OBVIOUS
<1>2. s \in 0 .. Len(L) /\ Len(L) \in Nat /\ DOMAIN L = 1 .. Len(L)
  BY <1>1
<1>3. PICK m : m = Len(L) - s
  OBVIOUS
<1>4. m \in Nat
  BY <1>2, <1>3
<1>5. PICK P : P = Popping(L)
  OBVIOUS
<1>6. P = [j \in 1 .. m |->
             [op |-> IF L[Len(L) - j + 1].is_captured THEN "close_upvalue" ELSE "pop",
              index |-> Len(L) - j + 1]]
  BY <1>1, <1>3, <1>5, Zenon DEF Popping
<1>7. ASSUME NEW j \in 1 .. m
      PROVE  /\ Len(L) - j + 1 \in Nat
             /\ P[j] \in Instruction
             /\ P[j].op \in {"pop", "close_upvalue"}
             /\ L[Len(L) - j + 1].is_captured =>
                  P[j] = [op |-> "close_upvalue", index |-> Len(L) - j + 1]
  <2>1. PICK i : i = Len(L) - j + 1
    OBVIOUS
  <2>2. i \in Nat
    BY <1>2, <1>3, <2>1
  <2>3. P[j] = [op |-> IF L[i].is_captured THEN "close_upvalue" ELSE "pop", index |-> i]
    BY <1>6, <2>1
  <2>4. CASE L[i].is_captured
    <3>1. P[j] = [op |-> "close_upvalue", index |-> i]
      BY <2>3, <2>4
    <3>. QED
      BY <2>1, <2>2, <3>1 DEF Instruction
  <2>5. CASE ~L[i].is_captured
    <3>1. P[j] = [op |-> "pop", index |-> i]
      BY <2>3, <2>5
    <3>. QED
      BY <2>1, <2>2, <2>5, <3>1 DEF Instruction
  <2>. QED
    BY <2>4, <2>5
<1>8. DOMAIN P = 1 .. m
  BY <1>6
<1>9. P \in Seq(Instruction)
  <2>1. P = [j \in 1 .. m |-> P[j]]
    BY <1>6, <1>8
  <2>. QED
    BY <1>4, <1>7, <2>1
<1>10. ASSUME NEW i \in s + 1 .. Len(L), L[i].is_captured
       PROVE  [op |-> "close_upvalue", index |-> i] \in ToSet(P)
  <2>1. PICK j : j = Len(L) - i + 1
    OBVIOUS
  <2>2. j \in 1 .. m /\ Len(L) - j + 1 = i
    BY <1>2, <1>3, <2>1
  <2>3. P[j] = [op |-> "close_upvalue", index |-> i]
    BY <1>7, <1>10, <2>2, Zenon
  <2>. QED
    BY <1>8, <2>2, <2>3 DEF ToSet
<1>. QED
  BY <1>1, <1>5, <1>7, <1>8, <1>9, <1>10

(* What the scope does not declare yet is no variable of it. *)
LEMMA NotRedeclared ==
  ASSUME NEW c, NEW scopes, ScopesFit(c, scopes), LocalsPlaced(c, scopes), Placeholder(c, scopes),
         scopes # <<>>, NEW n, n # NoName, ~Redeclared(Locals(c, Len(c)), n, Len(scopes))
  PROVE  \A p \in scopes[Len(scopes)].from + 1 .. Len(EnvOf(c)) : EnvOf(c)[p] # n
<1>1. PICK b : b = Base(c, Len(c))
  OBVIOUS
<1>2. PICK from : from = scopes[Len(scopes)].from
  OBVIOUS
<1>3. PICK L : L = Locals(c, Len(c))
  OBVIOUS
<1>4. /\ Len(c) \in Nat \ {0} /\ from \in b .. Len(EnvOf(c)) /\ b \in Nat
      /\ Len(EnvOf(c)) \in Nat
      /\ \A i \in DOMAIN L : b + i > from => L[i].depth = Len(scopes) \/ L[i].name = NoName
  BY <1>1, <1>2, <1>3, TopScope
<1>5. c \in Seq(FunctionChunk) /\ c # <<>> /\ Len(c) \in 1 .. Len(c)
  BY <1>4 DEF ScopesFit
<1>6. \A i \in DOMAIN L : ~(L[i].name = n /\ L[i].depth = Len(scopes))
  BY <1>3 DEF Redeclared
<1>7. ASSUME NEW p \in from + 1 .. Len(EnvOf(c))
      PROVE  EnvOf(c)[p] # n
  <2>1. p \in 1 .. Len(EnvOf(c)) /\ p > b
    BY <1>4
  <2>2. PICK k \in 1 .. Len(c) : \E i \in DOMAIN Locals(c, k) : p = Base(c, k) + i
    BY <1>5, <2>1, EnvFacts
  <2>3. PICK i \in DOMAIN Locals(c, k) : p = Base(c, k) + i
    BY <2>2
  <2>4. EnvOf(c)[p] = Locals(c, k)[i].name
    BY <1>5, <2>3, EnvFacts
  <2>5. k = Len(c)
    <3>1. SUFFICES ASSUME k # Len(c)
                   PROVE  FALSE
      OBVIOUS
    <3>2. k + 1 \in 1 .. Len(c) + 1 /\ Len(c) \in 1 .. Len(c) + 1 /\ k + 1 <= Len(c) /\ k \in 1 .. Len(c) + 1
      BY <1>4, <3>1
    <3>3. Base(c, k + 1) <= b
      BY <1>1, <1>5, <3>2, EnvFacts
    <3>4. Base(c, k + 1) = Base(c, k) + Len(Locals(c, k))
      BY <1>5, EnvFacts
    <3>5. Base(c, k) \in Nat
      <4>1. \A j \in 1 .. Len(c) + 1 : Base(c, j) \in 0 .. Len(EnvOf(c))
        BY <1>5, EnvFacts
      <4>. QED
        BY <1>4, <3>2, <4>1
    <3>6. i \in Nat /\ i <= Len(Locals(c, k)) /\ Len(Locals(c, k)) \in Nat
      BY <1>5, LocalsFacts
    <3>. QED
      BY <1>4, <2>1, <2>3, <3>3, <3>4, <3>5, <3>6
  <2>6. i \in DOMAIN L /\ L[i] = Locals(c, k)[i] /\ b + i > from
    BY <1>1, <1>3, <1>4, <2>3, <2>5
  <2>. QED
    BY <1>4, <1>6, <2>4, <2>6
<1>. QED
  BY <1>2, <1>7

-----------------------------------------------------------------------------
(* Each way to step keeps what fits together *)

LEMMA NoScopesNoLocals ==
  ASSUME NEW c \in Seq(FunctionChunk), NEW scopes \in Seq(Construct), LocalsPlaced(c, scopes), scopes = <<>>
  PROVE  EnvOf(c) = <<>> /\ \A k \in 1 .. Len(c) : DOMAIN Locals(c, k) = {}
<1>1. ASSUME NEW k \in 1 .. Len(c), NEW i \in DOMAIN Locals(c, k)
      PROVE  FALSE
  <2>1. ScopeOf(Locals(c, k)[i]) \in 1 .. Len(scopes)
    BY DEF LocalsPlaced
  <2>2. Len(scopes) = 0
    OBVIOUS
  <2>. QED
    BY <2>1, <2>2
<1>2. EnvOf(c) \in Seq(Name) /\ Len(EnvOf(c)) \in Nat
      /\ \A p \in 1 .. Len(EnvOf(c)) :
           \E k \in 1 .. Len(c) : \E i \in DOMAIN Locals(c, k) : p = Base(c, k) + i
  BY EnvFacts
<1>3. \A p \in 1 .. Len(EnvOf(c)) : FALSE
  BY <1>1, <1>2
<1>4. EnvOf(c) = <<>>
  <2>1. Len(EnvOf(c)) = 0
    BY <1>2, <1>3
  <2>. QED
    BY <1>2, <2>1
<1>5. \A k \in 1 .. Len(c) : DOMAIN Locals(c, k) = {}
  <2>1. ASSUME NEW k \in 1 .. Len(c)
        PROVE  DOMAIN Locals(c, k) = {}
    BY <1>1
  <2>. QED
    BY <2>1
<1>. QED
  BY <1>4, <1>5

LEMMA SoundFacts ==
  ASSUME NEW c, NEW scopes, NEW cap, Sound(c, scopes, cap)
  PROVE  /\ c \in Seq(FunctionChunk) /\ c # <<>> /\ Len(c) \in Nat \ {0}
         /\ scopes \in Seq(Construct) /\ Len(scopes) \in Nat
         /\ EnvOf(c) \in Seq(Name) /\ Len(EnvOf(c)) \in Nat
         /\ scopes = <<>> => EnvOf(c) = <<>>
         /\ ScopesFit(c, scopes) /\ LocalsPlaced(c, scopes) /\ Placeholder(c, scopes)
         /\ CapturedMarked(c, cap) /\ UpvaluesOK(c) /\ NoShadows(c)
<1>1. ScopesFit(c, scopes) /\ LocalsPlaced(c, scopes) /\ Placeholder(c, scopes)
      /\ CapturedMarked(c, cap) /\ UpvaluesOK(c) /\ NoShadows(c)
  BY DEF Sound
<1>2. c \in Seq(FunctionChunk) /\ c # <<>> /\ scopes \in Seq(Construct)
  BY <1>1 DEF ScopesFit
<1>3. EnvOf(c) \in Seq(Name) /\ Len(EnvOf(c)) \in Nat
  BY <1>2, EnvFacts
<1>4. scopes = <<>> => EnvOf(c) = <<>>
  BY <1>1, <1>2, NoScopesNoLocals
<1>5. Len(c) \in Nat \ {0} /\ Len(scopes) \in Nat
  BY <1>2
<1>. QED
  BY <1>1, <1>2, <1>3, <1>4, <1>5

LEMMA OpenedSound ==
  ASSUME NEW c, NEW scopes, NEW cap, Sound(c, scopes, cap),
         NEW s \in Construct, s.kind \notin FunctionKind, s.kind # "subclass", s.from = Len(EnvOf(c))
  PROVE  Sound(c, Append(scopes, s), cap)
<1>1. PICK more : more = Append(scopes, s)
  OBVIOUS
<1>2. ScopesFit(c, more) /\ LocalsPlaced(c, more)
  BY <1>1, SoundFacts, ScopeOpens
<1>3. /\ c \in Seq(FunctionChunk) /\ scopes \in Seq(Construct) /\ Len(scopes) \in Nat /\ Len(c) \in Nat \ {0}
      /\ Placeholder(c, scopes) /\ LocalsPlaced(c, scopes)
  BY SoundFacts
<1>4. more # <<>> /\ (scopes # <<>> => more[1] = scopes[1]) /\ (scopes = <<>> => more[1] = s)
  BY <1>1, <1>3
<1>5. Placeholder(c, more)
  <2>1. CASE scopes # <<>>
    BY <1>3, <1>4, <2>1 DEF Placeholder
  <2>2. CASE scopes = <<>>
    <3>1. \A k \in 1 .. Len(c) : DOMAIN Locals(c, k) = {}
      BY <1>3, <2>2, NoScopesNoLocals
    <3>. QED
      BY <1>4, <2>2, <3>1 DEF Placeholder
  <2>. QED
    BY <2>1, <2>2
<1>. QED
  BY <1>1, <1>2, <1>5, SoundFacts DEF Sound

LEMMA TrackedSound ==
  ASSUME NEW c, NEW scopes, NEW cap, ScopesFit(c, scopes), LocalsPlaced(c, scopes),
         CapturedMarked(c, cap), UpvaluesOK(c),
         NEW d, NEW locals, Tracks(c, scopes, d, locals), NoShadows(d), Placeholder(d, scopes)
  PROVE  Sound(d, scopes, cap)
<1>1. c \in Seq(FunctionChunk) /\ c # <<>>
  BY DEF ScopesFit
<1>2. ScopesFit(d, scopes) /\ LocalsPlaced(d, scopes)
  BY LocalsTracked
<1>3. CapturedMarked(d, cap) /\ UpvaluesOK(d)
  BY <1>1, TrackedStaysSound
<1>. QED
  BY <1>2, <1>3 DEF Sound

LEMMA PlaceholderKept ==
  ASSUME NEW c \in Seq(FunctionChunk), c # <<>>, NEW scopes, Placeholder(c, scopes),
         NEW d, NEW locals, Tracks(c, scopes, d, locals),
         \A j \in 1 .. Len(locals) : locals[j].depth # 0
  PROVE  Placeholder(d, scopes)
<1>1. /\ Len(c) \in Nat \ {0} /\ d \in Seq(FunctionChunk) /\ Len(d) = Len(c)
      /\ \A k \in 1 .. Len(c) : k # Len(c) => Locals(d, k) = Locals(c, k)
  <2>1. BackDiffer(c, d)
    BY DEF Tracks
  <2>. QED
    BY <2>1, BackDifferFacts
<1>2. /\ \A i \in 1 .. Len(Locals(c, Len(c))) : Locals(d, Len(c))[i] = Locals(c, Len(c))[i]
      /\ \A i \in DOMAIN Locals(d, Len(c)) :
              \/ i \in 1 .. Len(Locals(c, Len(c)))
              \/ /\ i - Len(Locals(c, Len(c))) \in 1 .. Len(locals)
                 /\ Locals(d, Len(c))[i] = locals[i - Len(Locals(c, Len(c)))]
  BY TracksFacts
<1>3. DOMAIN Locals(c, Len(c)) = 1 .. Len(Locals(c, Len(c)))
      /\ DOMAIN Locals(d, Len(c)) = 1 .. Len(Locals(c, Len(c))) + Len(locals)
      /\ Len(locals) \in Nat /\ Len(Locals(c, Len(c))) \in Nat
  <2>1. Len(c) \in 1 .. Len(c)
    BY <1>1
  <2>2. DOMAIN Locals(c, Len(c)) = 1 .. Len(Locals(c, Len(c))) /\ Len(Locals(c, Len(c))) \in Nat
    BY <2>1, LocalsFacts
  <2>. QED
    BY <2>2, TracksFacts
<1>4. ASSUME NEW k \in 1 .. Len(c), NEW i \in DOMAIN Locals(d, k), Locals(d, k)[i].depth = 0
      PROVE  i \in DOMAIN Locals(c, k) /\ Locals(c, k)[i] = Locals(d, k)[i]
  <2>1. CASE k # Len(c)
    BY <1>1, <1>4, <2>1
  <2>2. CASE k = Len(c)
    BY <1>2, <1>3, <1>4, <2>2
  <2>. QED
    BY <2>1, <2>2
<1>5. \A k \in 1 .. Len(d) : \A i \in DOMAIN Locals(d, k) :
          Locals(d, k)[i].depth = 0 =>
            /\ k = 1 /\ i = 1 /\ Locals(d, k)[i].name = NoName
            /\ scopes # <<>> /\ scopes[1].kind = "subclass"
  BY <1>1, <1>4 DEF Placeholder
<1>6. ASSUME scopes # <<>>, scopes[1].kind = "subclass"
      PROVE  Locals(d, 1) # <<>> /\ Locals(d, 1)[1].depth = 0
  <2>1. Locals(c, 1) # <<>> /\ Locals(c, 1)[1].depth = 0
    BY <1>6 DEF Placeholder
  <2>2. 1 \in 1 .. Len(c)
    BY <1>1
  <2>3. CASE Len(c) = 1
    <3>1. 1 \in 1 .. Len(Locals(c, Len(c)))
      <4>1. Locals(c, 1) \in Seq(TrackedLocal)
        BY <2>2, LocalsFacts
      <4>. QED
        BY <1>3, <2>1, <2>3, <4>1
    <3>2. Locals(d, 1)[1] = Locals(c, 1)[1] /\ 1 \in DOMAIN Locals(d, 1)
      BY <1>2, <1>3, <2>3, <3>1
    <3>3. Locals(d, 1) \in Seq(TrackedLocal)
      BY <1>1, <2>2, LocalsFacts
    <3>. QED
      BY <2>1, <3>2, <3>3
  <2>4. CASE Len(c) # 1
    BY <1>1, <2>1, <2>2, <2>4
  <2>. QED
    BY <2>3, <2>4
<1>. QED
  BY <1>5, <1>6 DEF Placeholder

(* The names that tracking adds to the variables in scope. *)
LEMMA TracksEnv ==
  ASSUME NEW c \in Seq(FunctionChunk), c # <<>>, NEW d, NEW scopes, NEW locals,
         Tracks(c, scopes, d, locals)
  PROVE  EnvOf(d) = EnvOf(c) \o [j \in 1 .. Len(locals) |-> locals[j].name]
<1>1. PICK N : N = Len(c)
  OBVIOUS
<1>2. BackDiffer(c, d) /\ locals \in Seq(TrackedLocal) /\ Len(locals) \in Nat
  BY DEF Tracks
<1>3. N \in 1 .. Len(c) /\ N \in Nat /\ d \in Seq(FunctionChunk) /\ Len(d) = Len(c)
      /\ EnvOf(d) = EnvOf(Front(c)) \o NamesOf(d[N])
  BY <1>1, <1>2, BackDifferFacts
<1>4. EnvOf(Front(c)) \in Seq(Name) /\ EnvOf(c) = EnvOf(Front(c)) \o NamesOf(c[N])
  BY <1>1, EnvOfBack
<1>5. PICK e : e = EnvOf(Front(c))
  OBVIOUS
<1>6. PICK a : a = NamesOf(c[N])
  OBVIOUS
<1>7. PICK b : b = NamesOf(d[N])
  OBVIOUS
<1>8. PICK m : m = [j \in 1 .. Len(locals) |-> locals[j].name]
  OBVIOUS
<1>9. m \in Seq(Name) /\ Len(m) = Len(locals) /\ \A j \in 1 .. Len(locals) : m[j] = locals[j].name
  <2>1. \A j \in 1 .. Len(locals) : locals[j].name \in Name
    BY <1>2, LocalFields
  <2>. QED
    BY <1>2, <1>8, <2>1
<1>10. /\ a \in Seq(Name) /\ Len(a) = Len(Locals(c, N))
       /\ \A i \in DOMAIN Locals(c, N) : a[i] = Locals(c, N)[i].name
       /\ DOMAIN Locals(c, N) = 1 .. Len(Locals(c, N))
  BY <1>3, <1>6, NamesOfFacts DEF Locals
<1>11. /\ b \in Seq(Name) /\ Len(b) = Len(Locals(d, N))
       /\ \A i \in DOMAIN Locals(d, N) : b[i] = Locals(d, N)[i].name
       /\ DOMAIN Locals(d, N) = 1 .. Len(Locals(d, N))
  BY <1>3, <1>7, NamesOfFacts DEF Locals
<1>12. /\ Len(Locals(d, N)) = Len(Locals(c, N)) + Len(locals)
       /\ \A i \in 1 .. Len(Locals(c, N)) : Locals(d, N)[i] = Locals(c, N)[i]
       /\ \A j \in 1 .. Len(locals) : Locals(d, N)[Len(Locals(c, N)) + j] = locals[j]
  BY <1>1, TracksFacts
<1>13. Len(a) \in Nat /\ Len(b) = Len(a) + Len(m)
  BY <1>9, <1>10, <1>11, <1>12
<1>14. \A i \in 1 .. Len(a) : b[i] = a[i]
  BY <1>9, <1>10, <1>11, <1>12, <1>13
<1>15. ASSUME NEW j \in 1 .. Len(m)
       PROVE  b[Len(a) + j] = m[j]
  <2>1. PICK q : q = Len(Locals(c, N)) + j
    OBVIOUS
  <2>2. j \in 1 .. Len(locals) /\ q = Len(a) + j
    BY <1>9, <1>10, <2>1
  <2>3. q \in DOMAIN Locals(d, N)
    BY <1>9, <1>10, <1>11, <1>13, <2>2
  <2>4. b[q] = Locals(d, N)[q].name /\ Locals(d, N)[q] = locals[j] /\ m[j] = locals[j].name
    BY <1>9, <1>11, <1>12, <2>1, <2>2, <2>3
  <2>. QED
    BY <2>2, <2>4
<1>18. a \in Seq(Name) /\ m \in Seq(Name) /\ b \in Seq(Name)
  BY <1>9, <1>10, <1>11
<1>16. b = a \o m
  <2>1. PICK u : u = a \o m
    OBVIOUS
  <2>2. /\ u \in Seq(Name) /\ Len(u) = Len(a) + Len(m) /\ Len(m) \in Nat
        /\ \A p \in 1 .. Len(a) : u[p] = a[p]
        /\ \A i \in 1 .. Len(m) : u[Len(a) + i] = m[i]
    BY <1>18, <2>1, ConcatFacts
  <2>3. ASSUME NEW p \in 1 .. Len(b)
        PROVE  b[p] = u[p]
    <3>1. CASE p <= Len(a)
      BY <1>13, <1>14, <2>2, <3>1
    <3>2. CASE p > Len(a)
      <4>1. PICK i : i = p - Len(a)
        OBVIOUS
      <4>2. i \in 1 .. Len(m) /\ p = Len(a) + i
        BY <1>13, <2>2, <3>2, <4>1
      <4>. QED
        BY <1>15, <2>2, <4>2
    <3>. QED
      BY <1>13, <3>1, <3>2
  <2>4. Len(u) = Len(b) /\ u \in Seq(Name)
    BY <1>13, <2>2
  <2>5. u = b
    <3>1. \A p \in 1 .. Len(b) : u[p] = b[p]
      BY <2>3
    <3>. QED
      BY <1>18, <2>4, <3>1, SeqEqual
  <2>. QED
    BY <2>1, <2>5
<1>17. e \o (a \o m) = (e \o a) \o m
  BY SMTT(40), <1>4, <1>5, <1>9, <1>10
<1>. QED
  BY <1>3, <1>4, <1>5, <1>6, <1>7, <1>8, <1>16, <1>17

LEMMA PoppedSound ==
  ASSUME NEW c, NEW scopes, NEW cap, Sound(c, scopes, cap), NEW d, Pops(c, scopes, d)
  PROVE  /\ Sound(d, Front(scopes), cap \cap 1 .. Len(EnvOf(d)))
         /\ EnvOf(d) = SubSeq(EnvOf(c), 1, scopes[Len(scopes)].from)
<1>1. /\ ScopesFit(c, scopes) /\ LocalsPlaced(c, scopes) /\ Placeholder(c, scopes)
      /\ CapturedMarked(c, cap) /\ UpvaluesOK(c) /\ NoShadows(c)
  BY SoundFacts
<1>2. ScopesFit(d, Front(scopes)) /\ LocalsPlaced(d, Front(scopes))
  BY <1>1, ScopePops
<1>3. /\ CapturedMarked(d, cap \cap 1 .. Len(EnvOf(d))) /\ UpvaluesOK(d) /\ NoShadows(d)
      /\ EnvOf(d) = SubSeq(EnvOf(c), 1, scopes[Len(scopes)].from)
  BY <1>1, PoppedStaysSound
<1>4. c \in Seq(FunctionChunk) /\ c # <<>> /\ scopes \in Seq(Construct) /\ Len(c) \in Nat \ {0} /\ 1 \in 1 .. Len(c)
  BY SoundFacts
<1>5. scopes # <<>> /\ Len(scopes) \in Nat \ {0} /\ d \in Seq(FunctionChunk) /\ Len(d) = Len(c)
  <2>1. scopes # <<>> /\ d \in Seq(FunctionChunk) /\ Len(d) = Len(c)
    BY DEF Pops, BackDiffer
  <2>. QED
    BY <1>4, <2>1
<1>6. Front(scopes) \in Seq(Construct) /\ Len(Front(scopes)) = Len(scopes) - 1
      /\ \A i \in 1 .. Len(scopes) - 1 : Front(scopes)[i] = scopes[i]
  BY <1>4, <1>5, FrontLast
<1>7. /\ \A k \in 1 .. Len(c) : \A i \in DOMAIN Locals(d, k) :
              i \in DOMAIN Locals(c, k) /\ Locals(d, k)[i] = Locals(c, k)[i]
      /\ \A k \in 1 .. Len(c) : \A i \in DOMAIN Locals(c, k) :
              Base(c, k) + i <= scopes[Len(scopes)].from => i \in DOMAIN Locals(d, k)
  BY <1>1, PopsFacts
<1>8. Placeholder(d, Front(scopes))
  <2>1. CASE Front(scopes) = <<>>
    <3>1. \A k \in 1 .. Len(d) : DOMAIN Locals(d, k) = {}
      BY <1>2, <1>5, <1>6, <2>1, NoScopesNoLocals
    <3>. QED
      BY <2>1, <3>1 DEF Placeholder
  <2>2. CASE Front(scopes) # <<>>
    <3>1. Len(scopes) \in Nat \ {0, 1} /\ Front(scopes)[1] = scopes[1] /\ 1 \in 1 .. Len(scopes)
      BY <1>5, <1>6, <2>2
    <3>2. \A k \in 1 .. Len(d) : \A i \in DOMAIN Locals(d, k) :
          Locals(d, k)[i].depth = 0 =>
            /\ k = 1 /\ i = 1 /\ Locals(d, k)[i].name = NoName
            /\ Front(scopes) # <<>> /\ Front(scopes)[1].kind = "subclass"
      BY <1>1, <1>5, <1>7, <2>2, <3>1 DEF Placeholder
    <3>3. ASSUME scopes[1].kind = "subclass"
          PROVE  Locals(d, 1) # <<>> /\ Locals(d, 1)[1].depth = 0
      <4>1. Locals(c, 1) # <<>> /\ Locals(c, 1)[1].depth = 0
        BY <1>1, <1>5, <3>3 DEF Placeholder
      <4>2. 1 \in DOMAIN Locals(c, 1)
        <5>1. Locals(c, 1) \in Seq(TrackedLocal)
          BY <1>4, LocalsFacts
        <5>. QED
          BY <4>1, <5>1
      <4>3. ScopeOf(Locals(c, 1)[1]) = 1
        BY <4>1 DEF ScopeOf
      <4>4. Base(c, 1) + 1 <= scopes[1 + 1].from
        BY <1>1, <1>4, <3>1, <4>2, <4>3 DEF LocalsPlaced
      <4>5. scopes[1 + 1].from <= scopes[Len(scopes)].from
        <5>1. 1 + 1 \in 1 .. Len(scopes) /\ Len(scopes) \in 1 .. Len(scopes)
          BY <3>1
        <5>. QED
          BY <1>1, <5>1 DEF ScopesFit
      <4>6. Base(c, 1) = 0 /\ scopes[1 + 1].from \in Nat /\ scopes[Len(scopes)].from \in Nat
        <5>1. Base(c, 1) = 0
          BY <1>4, EnvFacts
        <5>2. 1 + 1 \in 1 .. Len(scopes) /\ Len(scopes) \in 1 .. Len(scopes)
          BY <3>1
        <5>. QED
          BY <1>4, <5>1, <5>2, ConstructFields
      <4>7. Base(c, 1) + 1 <= scopes[Len(scopes)].from
        BY <4>4, <4>5, <4>6
      <4>8. 1 \in DOMAIN Locals(d, 1) /\ Locals(d, 1)[1] = Locals(c, 1)[1]
        BY <1>4, <1>7, <4>2, <4>7
      <4>9. Locals(d, 1) \in Seq(TrackedLocal)
        BY <1>4, <1>5, LocalsFacts
      <4>. QED
        BY <4>1, <4>8, <4>9
    <3>. QED
      BY <3>1, <3>2, <3>3 DEF Placeholder
  <2>. QED
    BY <2>1, <2>2
<1>. QED
  BY <1>2, <1>3, <1>8 DEF Sound

LEMMA BegunSound ==
  ASSUME NEW c, NEW scopes, NEW cap, Sound(c, scopes, cap),
         NEW d, NEW more, NEW b, NEW s, Begins(c, scopes, d, more, b, s),
         \A i \in DOMAIN b.tracked_locals : b.tracked_locals[i].depth # 0,
         IsInjective(NamesOf(b))
  PROVE  Sound(d, more, cap) /\ EnvOf(d) = EnvOf(c) \o NamesOf(b)
<1>1. /\ c \in Seq(FunctionChunk) /\ c # <<>> /\ Len(c) \in Nat \ {0} /\ 1 \in 1 .. Len(c)
      /\ scopes \in Seq(Construct) /\ Len(scopes) \in Nat
      /\ ScopesFit(c, scopes) /\ LocalsPlaced(c, scopes) /\ Placeholder(c, scopes)
      /\ CapturedMarked(c, cap) /\ UpvaluesOK(c) /\ NoShadows(c)
  BY SoundFacts
<1>2. scopes = <<>> => EnvOf(c) = <<>>
  BY SoundFacts
<1>3. ScopesFit(d, more) /\ LocalsPlaced(d, more)
  BY <1>1, <1>2, FunctionBegins
<1>4. CapturedMarked(d, cap) /\ UpvaluesOK(d)
  BY <1>1, BegunStaysSound
<1>5. b \in FunctionChunk /\ s \in Construct /\ d = Append(c, b) /\ more = Append(scopes, s)
      /\ s.kind \in FunctionKind
  BY DEF Begins
<1>6. d \in Seq(FunctionChunk) /\ Len(d) = Len(c) + 1 /\ d[Len(c) + 1] = b
      /\ \A k \in 1 .. Len(c) : d[k] = c[k]
  BY <1>1, <1>5
<1>7. EnvOf(d) = EnvOf(c) \o NamesOf(b)
  BY <1>1, <1>5, <1>6, ChunkBegins
<1>8. NoShadows(d)
  <2>1. ASSUME ~ShadowInFunction, NEW k \in 1 .. Len(d)
        PROVE  IsInjective(NamesOf(d[k]))
    <3>1. CASE k = Len(c) + 1
      BY <1>6, <3>1
    <3>2. CASE k # Len(c) + 1
      <4>1. k \in 1 .. Len(c)
        BY <1>1, <1>6, <3>2
      <4>. QED
        BY <1>1, <1>6, <2>1, <4>1 DEF NoShadows
    <3>. QED
      BY <3>1, <3>2
  <2>. QED
    BY <2>1 DEF NoShadows
<1>9. more # <<>> /\ (scopes # <<>> => more[1] = scopes[1]) /\ (scopes = <<>> => more[1] = s)
  BY <1>1, <1>5
<1>10. Locals(d, 1) = Locals(c, 1)
  BY <1>1, <1>6 DEF Locals
<1>11. Placeholder(d, more)
  <2>1. ASSUME NEW k \in 1 .. Len(d), NEW i \in DOMAIN Locals(d, k), Locals(d, k)[i].depth = 0
        PROVE  /\ k = 1 /\ i = 1 /\ Locals(d, k)[i].name = NoName
               /\ more # <<>> /\ more[1].kind = "subclass"
    <3>1. k # Len(c) + 1
      BY <1>6, <2>1 DEF Locals
    <3>2. k \in 1 .. Len(c) /\ Locals(d, k) = Locals(c, k)
      BY <1>1, <1>6, <3>1 DEF Locals
    <3>. QED
      BY <1>1, <1>9, <2>1, <3>2 DEF Placeholder
  <2>2. ASSUME more[1].kind = "subclass"
        PROVE  Locals(d, 1) # <<>> /\ Locals(d, 1)[1].depth = 0
    <3>1. scopes # <<>> /\ scopes[1].kind = "subclass"
      BY <1>5, <1>9, <2>2 DEF FunctionKind
    <3>. QED
      BY <1>1, <1>10, <3>1 DEF Placeholder
  <2>. QED
    BY <1>9, <2>1, <2>2 DEF Placeholder
<1>. QED
  BY <1>3, <1>4, <1>7, <1>8, <1>11 DEF Sound

LEMMA EndedSound ==
  ASSUME NEW c, NEW scopes, NEW cap, Sound(c, scopes, cap),
         scopes # <<>>, scopes[Len(scopes)].kind \in FunctionKind
  PROVE  LET ups == {Position(c, Len(c) - 1, u.index) :
                       u \in {v \in ToSet(Upvalues(c, Len(c))) : v.direct}}
         IN  /\ Sound(Front(c), Front(scopes), (cap \cup ups) \cap 1 .. Len(EnvOf(Front(c))))
             /\ EnvOf(Front(c)) = SubSeq(EnvOf(c), 1, scopes[Len(scopes)].from)
             /\ scopes[Len(scopes)].from = Len(EnvOf(Front(c)))
             /\ Len(c) \in Nat \ {0, 1}
<1>1. /\ c \in Seq(FunctionChunk) /\ c # <<>> /\ scopes \in Seq(Construct)
      /\ ScopesFit(c, scopes) /\ LocalsPlaced(c, scopes) /\ Placeholder(c, scopes)
      /\ CapturedMarked(c, cap) /\ UpvaluesOK(c) /\ NoShadows(c)
  BY SoundFacts
<1>2. PICK d : d = Front(c)
  OBVIOUS
<1>3. PICK ups : ups = {Position(c, Len(c) - 1, u.index) :
                       u \in {v \in ToSet(Upvalues(c, Len(c))) : v.direct}}
  OBVIOUS
<1>4. /\ Len(c) \in Nat \ {0, 1} /\ scopes[Len(scopes)].from = Len(EnvOf(d))
      /\ ScopesFit(d, Front(scopes)) /\ LocalsPlaced(d, Front(scopes))
  BY <1>1, <1>2, FunctionEnds
<1>5. /\ CapturedMarked(d, (cap \cup ups) \cap 1 .. Len(EnvOf(d)))
      /\ UpvaluesOK(d) /\ NoShadows(d)
      /\ EnvOf(d) = SubSeq(EnvOf(c), 1, scopes[Len(scopes)].from)
  BY <1>1, <1>2, <1>3, EndedStaysSound
<1>6. d \in Seq(FunctionChunk) /\ Len(d) = Len(c) - 1 /\ \A k \in 1 .. Len(c) - 1 : d[k] = c[k]
  BY <1>1, <1>2, EnvOfBack
<1>7. Len(scopes) \in Nat \ {0} /\ Front(scopes) \in Seq(Construct) /\ Len(Front(scopes)) = Len(scopes) - 1
      /\ \A i \in 1 .. Len(scopes) - 1 : Front(scopes)[i] = scopes[i]
  BY <1>1, FrontLast
<1>8. Placeholder(d, Front(scopes))
  <2>1. CASE Front(scopes) = <<>>
    <3>1. \A k \in 1 .. Len(d) : DOMAIN Locals(d, k) = {}
      BY <1>4, <1>6, <1>7, <2>1, NoScopesNoLocals
    <3>. QED
      BY <2>1, <3>1 DEF Placeholder
  <2>2. CASE Front(scopes) # <<>>
    <3>1. Front(scopes)[1] = scopes[1] /\ Locals(d, 1) = Locals(c, 1)
      BY SMTT(40), <1>4, <1>6, <1>7, <2>2 DEF Locals
    <3>2. \A k \in 1 .. Len(d) : k \in 1 .. Len(c) /\ Locals(d, k) = Locals(c, k)
      BY <1>4, <1>6 DEF Locals
    <3>. QED
      BY <1>1, <2>2, <3>1, <3>2 DEF Placeholder
  <2>. QED
    BY <2>1, <2>2
<1>. QED
  BY <1>2, <1>3, <1>4, <1>5, <1>8 DEF Sound

(* The scope of `super' opens and declares it. *)
LEMMA SuperSound ==
  ASSUME NEW c, NEW scopes, NEW cap, Sound(c, scopes, cap),
         NEW s \in Construct, s.kind = "subclass", s.from = Len(EnvOf(c)),
         NEW d, NEW locals, Tracks(c, Append(scopes, s), d, locals), NoShadows(d),
         \A j \in 1 .. Len(locals) :
           locals[j].depth = 0 => scopes = <<>> /\ j = 1 /\ locals[j].name = NoName,
         scopes = <<>> => locals # <<>> /\ locals[1].depth = 0
  PROVE  Sound(d, Append(scopes, s), cap)
<1>1. PICK more : more = Append(scopes, s)
  OBVIOUS
<1>2. /\ c \in Seq(FunctionChunk) /\ c # <<>> /\ Len(c) \in Nat \ {0} /\ 1 \in 1 .. Len(c)
      /\ scopes \in Seq(Construct) /\ Len(scopes) \in Nat
      /\ ScopesFit(c, scopes) /\ LocalsPlaced(c, scopes) /\ Placeholder(c, scopes)
      /\ CapturedMarked(c, cap) /\ UpvaluesOK(c) /\ NoShadows(c)
  BY SoundFacts
<1>3. scopes = <<>> => EnvOf(c) = <<>>
  BY SoundFacts
<1>4. s.kind \notin FunctionKind
  BY DEF FunctionKind
<1>5. ScopesFit(c, more) /\ LocalsPlaced(c, more)
  BY <1>1, <1>2, <1>3, <1>4, ScopeOpens
<1>6. Tracks(c, more, d, locals)
  BY <1>1
<1>7. more # <<>> /\ (scopes # <<>> => more[1] = scopes[1]) /\ (scopes = <<>> => more[1] = s)
  BY <1>1, <1>2
<1>8. Placeholder(d, more)
  <2>1. CASE scopes # <<>>
    <3>1. Placeholder(c, more)
      BY <1>2, <1>7, <2>1 DEF Placeholder
    <3>2. \A j \in 1 .. Len(locals) : locals[j].depth # 0
      BY <2>1
    <3>. QED
      BY <1>2, <1>6, <3>1, <3>2, PlaceholderKept
  <2>2. CASE scopes = <<>>
    <3>1. \A k \in 1 .. Len(c) : DOMAIN Locals(c, k) = {}
      BY <1>2, <2>2, NoScopesNoLocals
    <3>2. Len(c) = 1
      <4>1. Len(c) = Home(scopes, Len(scopes))
        BY <1>2 DEF ScopesFit
      <4>2. Home(scopes, 0) = 1 /\ Len(scopes) = 0
        BY <1>2, <2>2, HomeFacts
      <4>. QED
        BY <4>1, <4>2
    <3>3. BackDiffer(c, d) /\ locals \in Seq(TrackedLocal) /\ Len(locals) \in Nat
      BY <1>6 DEF Tracks
    <3>4. d \in Seq(FunctionChunk) /\ Len(d) = 1
      BY <3>2, <3>3 DEF BackDiffer
    <3>5. Len(Locals(c, 1)) = 0
      <4>1. DOMAIN Locals(c, 1) = 1 .. Len(Locals(c, 1)) /\ Len(Locals(c, 1)) \in Nat
        BY <1>2, LocalsFacts
      <4>. QED
        BY <1>2, <3>1, <4>1
    <3>12. /\ DOMAIN Locals(d, Len(c)) = 1 .. Len(Locals(c, Len(c))) + Len(locals)
           /\ \A j \in 1 .. Len(locals) : Locals(d, Len(c))[Len(Locals(c, Len(c))) + j] = locals[j]
      BY <1>2, <1>6, TracksFacts
    <3>6. DOMAIN Locals(d, 1) = 1 .. Len(locals)
      BY <3>2, <3>3, <3>5, <3>12
    <3>7. ASSUME NEW j \in 1 .. Len(locals)
          PROVE  Locals(d, 1)[j] = locals[j]
      <4>1. Locals(d, 1)[Len(Locals(c, 1)) + j] = locals[j]
        BY <3>2, <3>12
      <4>. QED
        BY <3>3, <3>5, <4>1
    <3>8. locals # <<>> /\ locals[1].depth = 0 /\ 1 \in 1 .. Len(locals)
      BY <2>2, <3>3
    <3>9. Locals(d, 1) # <<>> /\ Locals(d, 1)[1].depth = 0
      <4>1. Locals(d, 1) \in Seq(TrackedLocal)
        BY <3>4, LocalsFacts
      <4>. QED
        BY <3>6, <3>7, <3>8, <4>1
    <3>10. more # <<>> /\ more[1].kind = "subclass"
      BY <1>7, <2>2
    <3>11. ASSUME NEW k \in 1 .. Len(d), NEW i \in DOMAIN Locals(d, k), Locals(d, k)[i].depth = 0
           PROVE  k = 1 /\ i = 1 /\ Locals(d, k)[i].name = NoName
      BY <3>4, <3>6, <3>7, <3>11
    <3>. QED
      BY <3>9, <3>10, <3>11 DEF Placeholder
  <2>. QED
    BY <2>1, <2>2
<1>9. Sound(d, more, cap)
  BY <1>2, <1>5, <1>6, <1>8, TrackedSound
<1>. QED
  BY <1>1, <1>9

-----------------------------------------------------------------------------
(* The inductive invariant of the compiler's state *)

Places ==
  /\ Sound(function_chunks, OpenScopes, captured)
  /\ scope_depth = Len(OpenScopes)
  /\ nesting \in Seq(Construct)
  /\ \A j \in 1 .. Len(nesting) : nesting[j].kind = "fun" => nesting[j].name \in Identifier
  /\ emitted \in Seq(Instruction)
  /\ status \in {"compiling", "error"}

(* `' is a name that no program uses. *)
LEMMA Names ==
  /\ NoName \notin Identifier /\ NoName \in Name /\ Identifier \subseteq Name
  /\ "super" \in Name /\ "this" \in Name /\ "super" # NoName /\ "this" # NoName
  /\ \A n \in Name \ {""} : n # NoName /\ n \in Name
<1>1. {"this", "super", ""} \cap Identifier = {}
  BY CompilerAssumption, Zenon DEF CompilerAssumption
<1>. QED
  BY <1>1, Zenon DEF NoName, Name

Marks(scopes) == [i \in DOMAIN scopes |-> scopes[i].from]

LEMMA MarksFacts ==
  ASSUME NEW scopes \in Seq(Construct)
  PROVE  /\ Marks(scopes) \in Seq(Nat) /\ Len(Marks(scopes)) = Len(scopes)
         /\ \A i \in 1 .. Len(scopes) : Marks(scopes)[i] = scopes[i].from
         /\ \A s \in Construct : Marks(Append(scopes, s)) = Append(Marks(scopes), s.from)
         /\ scopes # <<>> => /\ Len(scopes) \in 1 .. Len(scopes)
                             /\ Marks(scopes) # <<>>
                             /\ Marks(Front(scopes)) = SubSeq(Marks(scopes), 1, Len(Marks(scopes)) - 1)
<1>1. Marks(scopes) \in Seq(Nat) /\ Len(Marks(scopes)) = Len(scopes) /\ Len(scopes) \in Nat
      /\ \A i \in 1 .. Len(scopes) : Marks(scopes)[i] = scopes[i].from
  <2>1. Len(scopes) \in Nat /\ DOMAIN scopes = 1 .. Len(scopes)
    OBVIOUS
  <2>2. \A i \in 1 .. Len(scopes) : scopes[i].from \in Nat
    BY ConstructFields
  <2>. QED
    BY <2>1, <2>2 DEF Marks
<1>2. ASSUME NEW s \in Construct
      PROVE  Marks(Append(scopes, s)) = Append(Marks(scopes), s.from)
  <2>1. PICK more : more = Append(scopes, s)
    OBVIOUS
  <2>2. more \in Seq(Construct) /\ Len(more) = Len(scopes) + 1 /\ more[Len(scopes) + 1] = s
        /\ \A i \in 1 .. Len(scopes) : more[i] = scopes[i]
    BY <2>1
  <2>3. s.from \in Nat
    BY DEF Construct
  <2>4. PICK a, b : a = Marks(more) /\ b = Append(Marks(scopes), s.from)
    OBVIOUS
  <2>5. a \in Seq(Nat) /\ Len(a) = Len(more) /\ \A i \in 1 .. Len(more) : a[i] = more[i].from
    <3>1. Len(more) \in Nat /\ DOMAIN more = 1 .. Len(more)
      BY <2>2
    <3>2. \A i \in 1 .. Len(more) : more[i].from \in Nat
      BY <2>2, ConstructFields
    <3>. QED
      BY <2>4, <3>1, <3>2 DEF Marks
  <2>6. b \in Seq(Nat) /\ Len(b) = Len(scopes) + 1 /\ b[Len(scopes) + 1] = s.from
        /\ \A i \in 1 .. Len(scopes) : b[i] = scopes[i].from
    BY <1>1, <2>3, <2>4
  <2>7. ASSUME NEW i \in 1 .. Len(a)
        PROVE  a[i] = b[i]
    <3>1. CASE i = Len(scopes) + 1
      BY <1>1, <2>2, <2>5, <2>6, <3>1
    <3>2. CASE i # Len(scopes) + 1
      <4>1. i \in 1 .. Len(scopes) /\ i \in 1 .. Len(more)
        BY <1>1, <2>2, <2>5, <3>2
      <4>. QED
        BY <2>2, <2>5, <2>6, <4>1
    <3>. QED
      BY <3>1, <3>2
  <2>8. a = b
    BY <2>2, <2>5, <2>6, <2>7, SeqEqual
  <2>. QED
    BY <2>1, <2>4, <2>8
<1>3. ASSUME scopes # <<>>
      PROVE  Marks(Front(scopes)) = SubSeq(Marks(scopes), 1, Len(Marks(scopes)) - 1)
  <2>1. PICK less : less = Front(scopes)
    OBVIOUS
  <2>2. less \in Seq(Construct) /\ Len(less) = Len(scopes) - 1 /\ Len(scopes) \in Nat \ {0}
        /\ \A i \in 1 .. Len(scopes) - 1 : less[i] = scopes[i]
    BY <1>3, <2>1, FrontLast
  <2>3. PICK a, b : a = Marks(less) /\ b = SubSeq(Marks(scopes), 1, Len(Marks(scopes)) - 1)
    OBVIOUS
  <2>4. a \in Seq(Nat) /\ Len(a) = Len(less) /\ \A i \in 1 .. Len(less) : a[i] = less[i].from
    <3>1. Len(less) \in Nat /\ DOMAIN less = 1 .. Len(less)
      BY <2>2
    <3>2. \A i \in 1 .. Len(less) : less[i].from \in Nat
      BY <2>2, ConstructFields
    <3>. QED
      BY <2>3, <3>1, <3>2 DEF Marks
  <2>5. b = Front(Marks(scopes))
    BY <2>3 DEF Front
  <2>6. b \in Seq(Nat) /\ Len(b) = Len(scopes) - 1 /\ \A i \in 1 .. Len(scopes) - 1 : b[i] = Marks(scopes)[i]
    <3>1. PICK m : m = Marks(scopes)
      OBVIOUS
    <3>2. m \in Seq(Nat) /\ Len(m) = Len(scopes) /\ m # <<>>
      BY <1>1, <2>2, <3>1
    <3>3. Front(m) \in Seq(Nat) /\ Len(Front(m)) = Len(m) - 1 /\ \A i \in 1 .. Len(m) - 1 : Front(m)[i] = m[i]
      BY <3>2, FrontLast
    <3>. QED
      BY <2>5, <3>1, <3>2, <3>3
  <2>7. ASSUME NEW i \in 1 .. Len(a)
        PROVE  a[i] = b[i]
    <3>1. i \in 1 .. Len(less) /\ i \in 1 .. Len(scopes) - 1 /\ i \in 1 .. Len(scopes)
      BY <1>1, <2>2, <2>4
    <3>. QED
      BY <1>1, <2>2, <2>4, <2>6, <3>1
  <2>8. a = b
    BY <2>2, <2>4, <2>6, <2>7, SeqEqual
  <2>. QED
    BY <2>1, <2>3, <2>8
<1>4. scopes # <<>> => Len(scopes) \in 1 .. Len(scopes) /\ Marks(scopes) # <<>>
  BY <1>1
<1>. QED
  BY <1>1, <1>2, <1>3, <1>4

(* What the instructions of a step reach. *)
AccessedIn(chunks, instructions) ==
  IF instructions = <<>> THEN 0 ELSE Reached(chunks, instructions[1].op, instructions[1].index)

LEMMA AccessedFacts ==
  Accessed = AccessedIn(function_chunks, emitted) /\ Accessed' = AccessedIn(function_chunks', emitted')
<1>1. Accessed = AccessedIn(function_chunks, emitted)
  BY Zenon DEF Accessed, UpvalueMeans, AccessedIn, Reached
<1>2. Accessed' = AccessedIn(function_chunks', emitted')
  BY Zenon DEF Accessed, UpvalueMeans, AccessedIn, Reached
<1>. QED
  BY <1>1, <1>2

LEMMA NothingAccessed ==
  ASSUME \/ emitted' = <<>>
         \/ \A j \in DOMAIN emitted' : emitted'[j].op \in {"pop", "close_upvalue"},
         emitted' \in Seq(Instruction)
  PROVE  Accessed' = 0
<1>1. CASE emitted' = <<>>
  BY <1>1, AccessedFacts DEF AccessedIn
<1>2. CASE emitted' # <<>>
  <2>1. 1 \in DOMAIN emitted'
    BY <1>2
  <2>2. PICK op, i : op = emitted'[1].op /\ i = emitted'[1].index
    OBVIOUS
  <2>3. op # "local" /\ op # "upvalue"
    BY <1>2, <2>1, <2>2
  <2>4. Reached(function_chunks', op, i) = 0
    BY <2>3 DEF Reached
  <2>. QED
    BY <1>2, <2>2, <2>4, AccessedFacts DEF AccessedIn
<1>. QED
  BY <1>1, <1>2

LEMMA EnterFacts ==
  ASSUME Places, NEW kind \in {"block", "var", "fun", "anonymous", "class", "subclass", "method"},
         NEW n \in Name, kind = "fun" => n \in Identifier, Enter(kind, n)
  PROVE  \E s \in Construct :
           /\ s.kind = kind /\ s.from = Len(EnvOf(function_chunks))
           /\ nesting' \in Seq(Construct)
           /\ \A j \in 1 .. Len(nesting') : nesting'[j].kind = "fun" => nesting'[j].name \in Identifier
           /\ kind \in {"var", "class"} => OpenScopes' = OpenScopes
           /\ kind \notin {"var", "class"} => OpenScopes' = Append(OpenScopes, s)
<1>1. nesting \in Seq(Construct) /\ Len(nesting) \in Nat
      /\ \A j \in 1 .. Len(nesting) : nesting[j].kind = "fun" => nesting[j].name \in Identifier
  BY DEF Places
<1>2. PICK s : s = [kind |-> kind, name |-> n, from |-> Len(EnvOf(function_chunks))]
  OBVIOUS
<1>3. Len(EnvOf(function_chunks)) \in Nat
  <2>1. Sound(function_chunks, OpenScopes, captured)
    BY DEF Places
  <2>. QED
    BY <2>1, SoundFacts
<1>4. s \in Construct /\ s.kind = kind /\ s.name = n /\ s.from = Len(EnvOf(function_chunks))
  BY <1>2, <1>3 DEF Construct
<1>5. nesting' = Append(nesting, s)
  BY <1>2 DEF Enter, Env
<1>6. nesting' \in Seq(Construct) /\ Len(nesting') = Len(nesting) + 1 /\ nesting'[Len(nesting) + 1] = s
      /\ \A j \in 1 .. Len(nesting) : nesting'[j] = nesting[j]
  BY <1>1, <1>4, <1>5
<1>7. \A j \in 1 .. Len(nesting') : nesting'[j].kind = "fun" => nesting'[j].name \in Identifier
  BY <1>1, <1>4, <1>6
<1>8. /\ kind \in {"var", "class"} => ScopesOf(nesting') = ScopesOf(nesting)
      /\ kind \notin {"var", "class"} => ScopesOf(nesting') = Append(ScopesOf(nesting), s)
  BY <1>1, <1>4, <1>5, ScopesAppend
<1>. QED
  BY <1>4, <1>6, <1>7, <1>8 DEF OpenScopes

LEMMA InsideFacts ==
  ASSUME Places, Inside # "script"
  PROVE  /\ nesting # <<>> /\ nesting[Len(nesting)] \in Construct /\ nesting[Len(nesting)].kind = Inside
         /\ Len(nesting) \in Nat \ {0} /\ Front(nesting) \in Seq(Construct)
         /\ nesting = Append(Front(nesting), nesting[Len(nesting)])
         /\ Inside = "fun" => nesting[Len(nesting)].name \in Identifier
         /\ Inside \in {"var", "class"} => OpenScopes = ScopesOf(Front(nesting))
         /\ Inside \notin {"var", "class"} =>
              /\ OpenScopes # <<>> /\ OpenScopes[Len(OpenScopes)] = nesting[Len(nesting)]
              /\ Front(OpenScopes) = ScopesOf(Front(nesting))
<1>1. nesting # <<>> /\ nesting[Len(nesting)].kind = Inside
  BY DEF Inside
<1>2. nesting \in Seq(Construct)
      /\ \A j \in 1 .. Len(nesting) : nesting[j].kind = "fun" => nesting[j].name \in Identifier
  BY DEF Places
<1>3. PICK last, before : last = nesting[Len(nesting)] /\ before = Front(nesting)
  OBVIOUS
<1>4. Len(nesting) \in Nat \ {0} /\ last \in Construct /\ before \in Seq(Construct)
      /\ nesting = Append(before, last)
  BY <1>1, <1>2, <1>3, FrontLast
<1>5. /\ ScopesOf(before) \in Seq(Construct)
      /\ last.kind \in {"var", "class"} => ScopesOf(nesting) = ScopesOf(before)
      /\ last.kind \notin {"var", "class"} => ScopesOf(nesting) = Append(ScopesOf(before), last)
  BY <1>4, ScopesAppend
<1>6. ASSUME NEW a \in Seq(Construct), NEW b, b = Append(a, last)
      PROVE  b # <<>> /\ b[Len(b)] = last /\ Front(b) = a
  <2>1. b \in Seq(Construct) /\ b # <<>> /\ b[Len(b)] = last /\ Len(b) = Len(a) + 1 /\ Len(a) \in Nat
        /\ \A i \in 1 .. Len(a) : b[i] = a[i]
    BY SMTT(40), <1>4, <1>6
  <2>2. Front(b) \in Seq(Construct) /\ Len(Front(b)) = Len(b) - 1 /\ \A i \in 1 .. Len(b) - 1 : Front(b)[i] = b[i]
    BY <2>1, FrontLast
  <2>3. Len(Front(b)) = Len(a) /\ \A i \in 1 .. Len(a) : Front(b)[i] = a[i]
    BY <2>1, <2>2
  <2>4. Front(b) = a
    BY <2>2, <2>3, SeqEqual
  <2>. QED
    BY <2>1, <2>4
<1>7. /\ Inside \in {"var", "class"} => OpenScopes = ScopesOf(before)
      /\ Inside \notin {"var", "class"} =>
              /\ OpenScopes # <<>> /\ OpenScopes[Len(OpenScopes)] = last
              /\ Front(OpenScopes) = ScopesOf(before)
  BY <1>1, <1>3, <1>5, <1>6 DEF OpenScopes
<1>8. Inside = "fun" => last.name \in Identifier
  BY <1>1, <1>2, <1>3, <1>4
<1>. QED
  BY <1>1, <1>3, <1>4, <1>7, <1>8

LEMMA LeaveFacts ==
  ASSUME Places, Inside # "script", LeaveConstruct
  PROVE  /\ nesting' \in Seq(Construct)
         /\ \A j \in 1 .. Len(nesting') : nesting'[j].kind = "fun" => nesting'[j].name \in Identifier
         /\ Inside \in {"var", "class"} => OpenScopes' = OpenScopes
         /\ Inside \notin {"var", "class"} => OpenScopes' = Front(OpenScopes)
<1>1. nesting' = Front(nesting)
  BY DEF LeaveConstruct
<1>2. nesting \in Seq(Construct) /\ nesting # <<>>
      /\ \A j \in 1 .. Len(nesting) : nesting[j].kind = "fun" => nesting[j].name \in Identifier
  BY InsideFacts DEF Places
<1>3. Front(nesting) \in Seq(Construct) /\ Len(Front(nesting)) = Len(nesting) - 1 /\ Len(nesting) \in Nat \ {0}
      /\ \A j \in 1 .. Len(nesting) - 1 : Front(nesting)[j] = nesting[j]
  BY <1>2, FrontLast
<1>4. \A j \in 1 .. Len(nesting') : nesting'[j].kind = "fun" => nesting'[j].name \in Identifier
  BY <1>1, <1>2, <1>3
<1>5. OpenScopes' = ScopesOf(Front(nesting))
  BY <1>1 DEF OpenScopes
<1>. QED
  BY <1>1, <1>3, <1>4, <1>5, InsideFacts

(* No function that stays loses a local. *)
Keeps ==
  \A k \in 1 .. Len(function_chunks) : k \in 1 .. Len(function_chunks') =>
    DOMAIN Locals(function_chunks, k) \subseteq DOMAIN Locals(function_chunks', k)

-----------------------------------------------------------------------------
(* What the steps are to LexicalScopes *)

LEMMA RestMaps ==
  ASSUME Env' = Env, OpenScopes' = OpenScopes, Accessed' = 0
  PROVE  Scoping!Rest
BY DEF Scoping!Rest

LEMMA DeclareMaps ==
  ASSUME NEW cap, Sound(function_chunks, OpenScopes, cap), OpenScopes # <<>>, NEW n, n # NoName,
         ~Redeclared(Locals(function_chunks, Len(function_chunks)), n, Len(OpenScopes)),
         Env' = Append(Env, n), OpenScopes' = OpenScopes, Accessed' = 0
  PROVE  Scoping!Declare(n)
<1>1. /\ OpenScopes \in Seq(Construct) /\ ScopesFit(function_chunks, OpenScopes)
      /\ LocalsPlaced(function_chunks, OpenScopes) /\ Placeholder(function_chunks, OpenScopes)
  BY SoundFacts
<1>2. PICK m : m = Marks(OpenScopes)
  OBVIOUS
<1>3. /\ m # <<>> /\ m[Len(m)] = OpenScopes[Len(OpenScopes)].from
  <2>1. /\ Len(m) = Len(OpenScopes) /\ \A i \in 1 .. Len(OpenScopes) : m[i] = OpenScopes[i].from
        /\ m # <<>> /\ Len(OpenScopes) \in 1 .. Len(OpenScopes)
    BY <1>1, <1>2, MarksFacts
  <2>. QED
    BY <2>1
<1>4. \A p \in OpenScopes[Len(OpenScopes)].from + 1 .. Len(Env) : Env[p] # n
  BY <1>1, NotRedeclared DEF Env
<1>5. m # <<>> /\ \A p \in (IF m = <<>> THEN {} ELSE m[Len(m)] + 1 .. Len(Env)) : Env[p] # n
  BY <1>3, <1>4
<1>. QED
  BY <1>2, <1>5, Zenon DEF Scoping!Declare, Scoping!Scope, Marks

LEMMA OpenMaps ==
  ASSUME NEW s \in Construct, OpenScopes \in Seq(Construct), s.from = Len(Env),
         OpenScopes' = Append(OpenScopes, s), NEW ns, Env' = Env \o ns, NEW u, Accessed' = u
  PROVE  /\ u = 0 => Scoping!Open(ns)
         /\ \A n : u = Scoping!Innermost(n) => Scoping!OpenUsing(n, ns)
<1>1. Marks(OpenScopes') = Append(Marks(OpenScopes), Len(Env))
  BY MarksFacts
<1>. QED
  BY <1>1, Zenon DEF Scoping!Open, Scoping!OpenUsing, Marks

LEMMA CloseMaps ==
  ASSUME OpenScopes \in Seq(Construct), OpenScopes # <<>>, OpenScopes' = Front(OpenScopes),
         NEW ns, Env' = SubSeq(Env, 1, OpenScopes[Len(OpenScopes)].from) \o ns, Accessed' = 0,
         ns # <<>> =>
           /\ Front(OpenScopes) # <<>>
           /\ \A p \in Front(OpenScopes)[Len(Front(OpenScopes))].from + 1 .. Len(Env) :
                p <= OpenScopes[Len(OpenScopes)].from => Env[p] # ns[1]
  PROVE  Scoping!Close(ns)
<1>1. PICK m : m = Marks(OpenScopes)
  OBVIOUS
<1>2. PICK l : l = Marks(Front(OpenScopes))
  OBVIOUS
<1>3. /\ m # <<>> /\ m[Len(m)] = OpenScopes[Len(OpenScopes)].from
      /\ l = SubSeq(m, 1, Len(m) - 1)
  <2>1. /\ Len(m) = Len(OpenScopes) /\ \A i \in 1 .. Len(OpenScopes) : m[i] = OpenScopes[i].from
        /\ m # <<>> /\ Len(OpenScopes) \in 1 .. Len(OpenScopes)
        /\ l = SubSeq(m, 1, Len(m) - 1)
    BY <1>1, <1>2, MarksFacts
  <2>. QED
    BY <2>1
<1>4. Front(OpenScopes) \in Seq(Construct)
  BY FrontLast
<1>5. Front(OpenScopes) # <<>> =>
        l # <<>> /\ l[Len(l)] = Front(OpenScopes)[Len(Front(OpenScopes))].from
  <2>1. PICK f : f = Front(OpenScopes)
    OBVIOUS
  <2>2. ASSUME f # <<>>
        PROVE  l # <<>> /\ l[Len(l)] = f[Len(f)].from
    <3>1. /\ Len(l) = Len(f) /\ \A i \in 1 .. Len(f) : l[i] = f[i].from
          /\ l # <<>> /\ Len(f) \in 1 .. Len(f)
      BY <1>2, <1>4, <2>1, <2>2, MarksFacts
    <3>. QED
      BY <3>1
  <2>. QED
    BY <2>1, <2>2
<1>6. ns # <<>> => l # <<>> /\ \A p \in l[Len(l)] + 1 .. Len(Env) : p <= m[Len(m)] => Env[p] # ns[1]
  BY <1>3, <1>5
<1>7. l = Marks(OpenScopes')
  BY <1>2
<1>. QED
  BY <1>1, <1>3, <1>6, <1>7, Zenon DEF Scoping!Close, Marks

-----------------------------------------------------------------------------
(* The steps *)

LEMMA ThrowStep ==
  ASSUME Places, Throw
  PROVE  Places' /\ Scoping!Rest /\ Keeps /\ status' = "error"
<1>1. /\ function_chunks' = function_chunks /\ scope_depth' = scope_depth /\ nesting' = nesting
      /\ captured' = captured /\ emitted' = <<>> /\ status' = "error"
  BY DEF Throw
<1>2. OpenScopes' = OpenScopes /\ Env' = Env
  BY <1>1 DEF OpenScopes, Env
<1>3. emitted' \in Seq(Instruction)
  BY <1>1
<1>4. Places'
  BY <1>1, <1>2, <1>3 DEF Places
<1>5. Accessed' = 0
  BY <1>1, <1>3, NothingAccessed
<1>6. Keeps
  BY <1>1 DEF Keeps
<1>. QED
  BY <1>1, <1>2, <1>4, <1>5, <1>6, RestMaps

(* What one use of a name does to the functions, and what it emits.         *)
LEMMA AccessStep ==
  ASSUME Places, NEW n, n # NoName
  PROVE  LET a == Access(n)
         IN  /\ Sound(a.chunks, OpenScopes, captured)
             /\ EnvOf(a.chunks) = EnvOf(function_chunks)
             /\ Alike(function_chunks, a.chunks)
             /\ Instructions(a) \in Seq(Instruction)
             /\ AccessedIn(a.chunks, Instructions(a)) = Found(n)
             /\ Instructions(a) # <<>> /\ Instructions(a)[1].op = a.op /\ Instructions(a)[1].index = a.index
             /\ a.op \in {"local", "upvalue", "global"}
             /\ a.op = "upvalue" => a.index \in DOMAIN Upvalues(a.chunks, Len(a.chunks))
<1>1. PICK a : a = Access(n)
  OBVIOUS
<1>2. Sound(function_chunks, OpenScopes, captured)
  BY DEF Places
<1>3. /\ Alike(function_chunks, a.chunks) /\ UpvaluesOK(a.chunks)
      /\ a.op \in {"local", "upvalue", "global"} /\ a.index \in Nat
      /\ Reached(a.chunks, a.op, a.index) = Found(n)
      /\ a.op = "upvalue" => a.index \in DOMAIN Upvalues(a.chunks, Len(a.chunks))
  BY <1>1, <1>2, AccessSound
<1>4. Sound(a.chunks, OpenScopes, captured) /\ EnvOf(a.chunks) = EnvOf(function_chunks)
  BY <1>2, <1>3, AlikeSound
<1>5. PICK i : i = [op |-> a.op, index |-> a.index]
  OBVIOUS
<1>6. Instructions(a) = <<i>> /\ i \in Instruction /\ i.op = a.op /\ i.index = a.index
  BY <1>3, <1>5 DEF Instructions, Instruction
<1>7. Instructions(a) \in Seq(Instruction) /\ Instructions(a) # <<>> /\ Instructions(a)[1] = i
  BY <1>6
<1>8. AccessedIn(a.chunks, Instructions(a)) = Reached(a.chunks, a.op, a.index)
  BY <1>6, <1>7 DEF AccessedIn
<1>. QED
  BY <1>1, <1>3, <1>4, <1>6, <1>7, <1>8

LEMMA AlikeKeeps ==
  ASSUME Alike(function_chunks, function_chunks')
  PROVE  Keeps
BY DEF Alike, Keeps

LEMMA UseStep ==
  ASSUME Places, NEW n, n # NoName, UseName(n)
  PROVE  /\ Places' /\ Keeps
         /\ \/ Scoping!Rest /\ status' = "error"
            \/ Env' = Env /\ OpenScopes' = OpenScopes /\ Accessed' = Found(n)
<1>1. PICK a : a = Access(n)
  OBVIOUS
<1>2. CASE Throw
  BY <1>2, ThrowStep
<1>3. CASE ~Throw
  <2>1. /\ function_chunks' = a.chunks /\ emitted' = Instructions(a)
        /\ scope_depth' = scope_depth /\ nesting' = nesting /\ status' = status /\ captured' = captured
    BY <1>1, <1>3 DEF UseName
  <2>2. /\ Sound(a.chunks, OpenScopes, captured)
        /\ EnvOf(a.chunks) = EnvOf(function_chunks)
        /\ Alike(function_chunks, a.chunks)
        /\ Instructions(a) \in Seq(Instruction)
        /\ AccessedIn(a.chunks, Instructions(a)) = Found(n)
    BY <1>1, AccessStep
  <2>3. OpenScopes' = OpenScopes /\ Env' = Env
    BY <2>1, <2>2 DEF OpenScopes, Env
  <2>4. Places'
    BY <2>1, <2>2, <2>3 DEF Places
  <2>5. Accessed' = Found(n)
    BY <2>1, <2>2, AccessedFacts
  <2>6. Keeps
    BY <2>1, <2>2, AlikeKeeps
  <2>. QED
    BY <2>3, <2>4, <2>5, <2>6
<1>. QED
  BY <1>2, <1>3

LEMMA BeginBlockStep ==
  ASSUME Places, BeginBlock
  PROVE  Places' /\ Keeps /\ Scoping!Open(<<>>)
<1>1. /\ Enter("block", NoName) /\ scope_depth' = scope_depth + 1 /\ emitted' = <<>>
      /\ function_chunks' = function_chunks /\ status' = status /\ captured' = captured
  BY Zenon DEF BeginBlock, NoName
<1>2. PICK s \in Construct :
           /\ s.kind = "block" /\ s.from = Len(EnvOf(function_chunks))
           /\ nesting' \in Seq(Construct)
           /\ \A j \in 1 .. Len(nesting') : nesting'[j].kind = "fun" => nesting'[j].name \in Identifier
           /\ OpenScopes' = Append(OpenScopes, s)
  BY <1>1, EnterFacts, Names
<1>3. Sound(function_chunks, OpenScopes, captured) /\ scope_depth = Len(OpenScopes)
      /\ OpenScopes \in Seq(Construct)
  BY SoundFacts DEF Places
<1>4. Sound(function_chunks, Append(OpenScopes, s), captured)
  <2>1. s.kind \notin FunctionKind /\ s.kind # "subclass"
    BY <1>2 DEF FunctionKind
  <2>. QED
    BY <1>2, <1>3, <2>1, OpenedSound
<1>5. scope_depth' = Len(OpenScopes') /\ emitted' \in Seq(Instruction)
  BY <1>1, <1>2, <1>3
<1>6. Places'
  BY <1>1, <1>2, <1>4, <1>5 DEF Places
<1>7. Keeps
  BY <1>1 DEF Keeps
<1>8. Accessed' = 0
  BY <1>1, <1>5, NothingAccessed
<1>9. Env' = Env \o <<>>
  <2>1. Env' = Env /\ Env \in Seq(Name)
    BY <1>1, <1>3, SoundFacts DEF Env
  <2>. QED
    BY <2>1
<1>10. Scoping!Open(<<>>)
  <2>1. s.from = Len(Env)
    BY <1>2 DEF Env
  <2>. QED
    BY <1>2, <1>3, <1>8, <1>9, <2>1, OpenMaps
<1>. QED
  BY <1>6, <1>7, <1>10

(* A captured local that goes is closed. *)
ClosesCaptured ==
  \A k \in 1 .. Len(function_chunks) : k \in 1 .. Len(function_chunks') =>
    \A i \in DOMAIN Locals(function_chunks, k) :
      Base(function_chunks, k) + i \in captured /\ i \notin DOMAIN Locals(function_chunks', k)
        => [op |-> "close_upvalue", index |-> i] \in ToSet(emitted')

(* A block or the scope of `super' ends. *)
ScopeEnding ==
  LET c == function_chunks
      L == Locals(c, Len(c))
      locals == SubSeq(L, 1, OpenScopes[Len(OpenScopes)].from - Base(c, Len(c)))
  IN  /\ function_chunks' = [c EXCEPT ![Len(c)] = [c[Len(c)] EXCEPT !.tracked_locals = locals]]
      /\ emitted' = Popping(L)
      /\ scope_depth' = scope_depth - 1 /\ status' = status
      /\ captured' = captured \cap 1 .. Len(EnvOf(function_chunks'))

LEMMA ScopeEnds ==
  ASSUME Places, Inside \in {"block", "subclass"}, LeaveConstruct, ScopeEnding
  PROVE  Places' /\ Scoping!Close(<<>>) /\ ClosesCaptured
<1>. /\ scope_depth' = scope_depth - 1 /\ status' = status
     /\ captured' = captured \cap 1 .. Len(EnvOf(function_chunks'))
  BY DEF ScopeEnding
<1>1. PICK c : c = function_chunks
  OBVIOUS
<1>2. PICK scopes : scopes = OpenScopes
  OBVIOUS
<1>3. /\ Sound(c, scopes, captured) /\ scope_depth = Len(scopes) /\ status \in {"compiling", "error"}
  BY <1>1, <1>2 DEF Places
<1>4. /\ c \in Seq(FunctionChunk) /\ c # <<>> /\ Len(c) \in Nat \ {0} /\ Len(c) \in 1 .. Len(c)
      /\ scopes \in Seq(Construct) /\ Len(scopes) \in Nat
      /\ EnvOf(c) \in Seq(Name)
      /\ ScopesFit(c, scopes) /\ LocalsPlaced(c, scopes) /\ Placeholder(c, scopes)
      /\ CapturedMarked(c, captured)
  BY <1>3, SoundFacts
<1>5. Inside # "script" /\ Inside \notin {"var", "class"}
  OBVIOUS
<1>6. scopes # <<>> /\ scopes[Len(scopes)].kind = Inside
  BY <1>2, <1>5, InsideFacts
<1>7. /\ nesting' \in Seq(Construct)
      /\ \A j \in 1 .. Len(nesting') : nesting'[j].kind = "fun" => nesting'[j].name \in Identifier
      /\ OpenScopes' = Front(scopes)
  BY <1>2, <1>5, LeaveFacts
<1>8. PICK L : L = Locals(c, Len(c))
  OBVIOUS
<1>9. PICK keep : keep = scopes[Len(scopes)].from - Base(c, Len(c))
  OBVIOUS
<1>10. /\ L \in Seq(TrackedLocal) /\ Len(L) \in Nat /\ keep \in 0 .. Len(L)
       /\ \/ Len(Staying(L)) = keep
          \/ keep = 0 /\ Len(Staying(L)) = 1 /\ L # <<>> /\ L[1].name = NoName
  BY <1>1, <1>2, <1>3, <1>4, <1>6, <1>8, <1>9, StayingFacts
<1>11. PICK b : b = [c[Len(c)] EXCEPT !.tracked_locals = SubSeq(L, 1, keep)]
  OBVIOUS
<1>12. PICK d : d = function_chunks'
  OBVIOUS
<1>13. d = [c EXCEPT ![Len(c)] = b]
  BY <1>1, <1>2, <1>8, <1>9, <1>11, <1>12 DEF ScopeEnding
<1>14. b \in FunctionChunk /\ b.tracked_locals = SubSeq(L, 1, keep)
       /\ b.tracked_upvalues = c[Len(c)].tracked_upvalues
  <2>1. SubSeq(L, 1, keep) \in Seq(TrackedLocal) /\ c[Len(c)] \in FunctionChunk
    BY <1>4, <1>10
  <2>. QED
    BY <1>11, <2>1 DEF FunctionChunk
<1>15. /\ d \in Seq(FunctionChunk) /\ Len(d) = Len(c) /\ d[Len(c)] = b
       /\ \A k \in 1 .. Len(c) - 1 : d[k] = c[k]
  BY <1>4, <1>13, <1>14, BackChanges
<1>16. Pops(c, scopes, d)
  <2>1. scopes[Len(scopes)].kind \notin FunctionKind
    BY <1>6 DEF FunctionKind
  <2>2. BackDiffer(c, d)
    BY <1>14, <1>15 DEF BackDiffer, Upvalues
  <2>3. Locals(d, Len(c)) = SubSeq(Locals(c, Len(c)), 1, scopes[Len(scopes)].from - Base(c, Len(c)))
    BY <1>8, <1>9, <1>14, <1>15 DEF Locals
  <2>. QED
    BY <1>6, <2>1, <2>2, <2>3 DEF Pops
<1>17. /\ Sound(d, Front(scopes), captured \cap 1 .. Len(EnvOf(d)))
       /\ EnvOf(d) = SubSeq(EnvOf(c), 1, scopes[Len(scopes)].from)
  BY <1>3, <1>16, PoppedSound
<1>18. PICK P : P = Popping(L)
  OBVIOUS
<1>19. /\ P \in Seq(Instruction)
       /\ \A j \in DOMAIN P : P[j].op \in {"pop", "close_upvalue"}
       /\ \A i \in Len(Staying(L)) + 1 .. Len(L) : L[i].is_captured =>
              [op |-> "close_upvalue", index |-> i] \in ToSet(P)
  <2>1. Len(Staying(L)) \in 0 .. Len(L)
    <3>1. L # <<>> => Len(L) # 0
      BY <1>10
    <3>. QED
      BY <1>10, <3>1
  <2>. QED
    BY <1>10, <1>18, <2>1, PoppingFacts
<1>20. emitted' = P
  BY <1>1, <1>8, <1>18 DEF ScopeEnding
<1>21. Places'
  <2>1. Len(Front(scopes)) = Len(scopes) - 1
    BY <1>4, <1>6, FrontLast
  <2>2. scope_depth' = Len(OpenScopes')
    BY <1>3, <1>7, <2>1
  <2>3. Sound(function_chunks', OpenScopes', captured')
    BY <1>7, <1>12, <1>17
  <2>. QED
    BY <1>3, <1>7, <1>19, <1>20, <2>2, <2>3 DEF Places
<1>22. Scoping!Close(<<>>)
  <2>1. Accessed' = 0
    BY <1>19, <1>20, NothingAccessed
  <2>2. EnvOf(d) \in Seq(Name)
    BY <1>15, EnvFacts
  <2>3. EnvOf(d) = EnvOf(d) \o <<>>
    BY <2>2
  <2>4. Env' = SubSeq(Env, 1, OpenScopes[Len(OpenScopes)].from) \o <<>>
    BY <1>1, <1>2, <1>12, <1>17, <2>3 DEF Env
  <2>. QED
    BY <1>2, <1>4, <1>6, <1>7, <2>1, <2>4, CloseMaps
<1>23. ClosesCaptured
  <2>1. ASSUME NEW k \in 1 .. Len(c), NEW i \in DOMAIN Locals(c, k),
               Base(c, k) + i \in captured, i \notin DOMAIN Locals(d, k)
        PROVE  [op |-> "close_upvalue", index |-> i] \in ToSet(P)
    <3>1. Locals(c, k)[i].is_captured /\ Locals(c, k)[i].name # NoName
      BY <1>4, <2>1 DEF CapturedMarked
    <3>2. k = Len(c)
      <4>1. k # Len(c) => Locals(d, k) = Locals(c, k)
        BY <1>4, <1>15 DEF Locals
      <4>. QED
        BY <2>1, <4>1
    <3>3. i \in 1 .. Len(L) /\ L[i].is_captured /\ L[i].name # NoName
      BY <1>4, <1>8, <3>1, <3>2, LocalsFacts
    <3>4. DOMAIN Locals(d, k) = 1 .. keep
      <4>1. DOMAIN SubSeq(L, 1, keep) = 1 .. keep
        BY <1>10
      <4>. QED
        BY <1>14, <1>15, <3>2, <4>1 DEF Locals
    <3>5. i \in Len(Staying(L)) + 1 .. Len(L)
      <4>1. i \notin 1 .. keep
        BY <2>1, <3>4
      <4>2. i > keep /\ keep \in Nat
        BY <1>10, <3>3, <4>1
      <4>3. CASE Len(Staying(L)) = keep
        BY <1>10, <3>3, <4>2, <4>3
      <4>4. CASE keep = 0 /\ Len(Staying(L)) = 1 /\ L[1].name = NoName
        <5>1. i # 1
          BY <3>3, <4>4
        <5>. QED
          BY <1>10, <3>3, <4>4, <5>1
      <4>. QED
        BY <1>10, <4>3, <4>4
    <3>. QED
      BY <1>19, <3>3, <3>5
  <2>. QED
    BY <1>1, <1>12, <1>20, <2>1 DEF ClosesCaptured
<1>. QED
  BY <1>21, <1>22, <1>23

LEMMA EndBlockStep ==
  ASSUME Places, EndBlock
  PROVE  Places' /\ Scoping!Close(<<>>) /\ ClosesCaptured
<1>1. PICK c : c = function_chunks
  OBVIOUS
<1>2. PICK L : L = Locals(c, Len(c))
  OBVIOUS
<1>3. PICK locals : locals = SubSeq(L, 1, OpenScopes[Len(OpenScopes)].from - Base(c, Len(c)))
  OBVIOUS
<1>4. /\ Inside = "block" /\ LeaveConstruct /\ scope_depth' = scope_depth - 1 /\ status' = status
      /\ captured' = captured \cap 1 .. Len(EnvOf(function_chunks'))
      /\ function_chunks' = [c EXCEPT ![Len(c)] = [c[Len(c)] EXCEPT !.tracked_locals = Staying(L)]]
      /\ emitted' = Popping(L)
  BY <1>1, <1>2 DEF EndBlock, WithBack, Back, Locals
<1>5. Staying(L) = locals
  <2>1. Sound(c, OpenScopes, captured) /\ scope_depth = Len(OpenScopes)
    BY <1>1 DEF Places
  <2>2. ScopesFit(c, OpenScopes) /\ LocalsPlaced(c, OpenScopes) /\ Placeholder(c, OpenScopes)
        /\ OpenScopes \in Seq(Construct)
    BY <2>1, SoundFacts
  <2>3. OpenScopes # <<>> /\ OpenScopes[Len(OpenScopes)].kind = "block"
    BY <1>4, InsideFacts
  <2>4. ~(Len(OpenScopes) = 1 /\ OpenScopes[1].kind = "subclass")
    BY <2>3
  <2>. QED
    BY <1>1, <1>2, <1>3, <2>1, <2>2, <2>3, <2>4, StayingFacts
<1>6. function_chunks' = [c EXCEPT ![Len(c)] = [c[Len(c)] EXCEPT !.tracked_locals = locals]]
  BY <1>4, <1>5
<1>7. ScopeEnding
  BY <1>1, <1>2, <1>3, <1>4, <1>6 DEF ScopeEnding
<1>. QED
  BY <1>4, <1>7, ScopeEnds

LEMMA EndSubclassStep ==
  ASSUME Places, EndSubclass
  PROVE  Places' /\ Scoping!Close(<<>>) /\ ClosesCaptured
<1>1. PICK c : c = function_chunks
  OBVIOUS
<1>2. PICK L : L = Locals(c, Len(c))
  OBVIOUS
<1>3. PICK locals : locals = SubSeq(L, 1, OpenScopes[Len(OpenScopes)].from - Base(c, Len(c)))
  OBVIOUS
<1>4. /\ Inside = "subclass" /\ LeaveConstruct /\ scope_depth' = scope_depth - 1 /\ status' = status
      /\ captured' = captured \cap 1 .. Len(EnvOf(function_chunks'))
      /\ function_chunks' = [c EXCEPT ![Len(c)] = [c[Len(c)] EXCEPT !.tracked_locals =
           IF scope_depth = 1 THEN Front(Staying(L)) ELSE Staying(L)]]
      /\ emitted' = Popping(L)
  BY <1>1, <1>2 DEF EndSubclass, WithBack, Back, Locals
<1>5. (IF scope_depth = 1 THEN Front(Staying(L)) ELSE Staying(L)) = locals
  <2>1. Sound(c, OpenScopes, captured) /\ scope_depth = Len(OpenScopes)
    BY <1>1 DEF Places
  <2>2. ScopesFit(c, OpenScopes) /\ LocalsPlaced(c, OpenScopes) /\ Placeholder(c, OpenScopes)
        /\ OpenScopes \in Seq(Construct)
    BY <2>1, SoundFacts
  <2>3. OpenScopes # <<>> /\ OpenScopes[Len(OpenScopes)].kind = "subclass"
    BY <1>4, InsideFacts
  <2>4. CASE scope_depth = 1
    BY <1>1, <1>2, <1>3, <2>1, <2>2, <2>3, <2>4, StayingFacts
  <2>5. CASE scope_depth # 1
    BY <1>1, <1>2, <1>3, <2>1, <2>2, <2>3, <2>5, StayingFacts
  <2>. QED
    BY <2>4, <2>5
<1>6. function_chunks' = [c EXCEPT ![Len(c)] = [c[Len(c)] EXCEPT !.tracked_locals = locals]]
  BY <1>4, <1>5
<1>7. ScopeEnding
  BY <1>1, <1>2, <1>3, <1>4, <1>6 DEF ScopeEnding
<1>. QED
  BY <1>4, <1>7, ScopeEnds

(* Locals are appended to the last function's. *)
Adding(c, locals) ==
  [c EXCEPT ![Len(c)] = [c[Len(c)] EXCEPT !.tracked_locals = c[Len(c)].tracked_locals \o locals]]

LEMMA TracksSeq ==
  ASSUME NEW c \in Seq(FunctionChunk), c # <<>>, NEW scopes, scopes # <<>>,
         NEW locals \in Seq(TrackedLocal),
         \A j \in 1 .. Len(locals) : ScopeOf(locals[j]) = Len(scopes) /\ ~locals[j].is_captured
  PROVE  /\ Tracks(c, scopes, Adding(c, locals), locals)
         /\ Len(Adding(c, locals)) = Len(c)
         /\ \A k \in 1 .. Len(c) : DOMAIN Locals(c, k) \subseteq DOMAIN Locals(Adding(c, locals), k)
<1>1. PICK L : L = Locals(c, Len(c))
  OBVIOUS
<1>2. Len(c) \in 1 .. Len(c) /\ Len(c) \in Nat
  OBVIOUS
<1>3. L \in Seq(TrackedLocal) /\ c[Len(c)] \in FunctionChunk
  BY <1>1, <1>2, LocalsFacts
<1>4. PICK M : M = L \o locals
  OBVIOUS
<1>5. M \in Seq(TrackedLocal) /\ DOMAIN L \subseteq DOMAIN M
  <2>1. M \in Seq(TrackedLocal) /\ Len(M) = Len(L) + Len(locals) /\ Len(L) \in Nat /\ Len(locals) \in Nat
    BY <1>3, <1>4, ConcatFacts
  <2>2. DOMAIN L = 1 .. Len(L) /\ DOMAIN M = 1 .. Len(M)
    BY <1>3, <2>1
  <2>. QED
    BY <2>1, <2>2
<1>6. PICK b : b = [c[Len(c)] EXCEPT !.tracked_locals = M]
  OBVIOUS
<1>7. b \in FunctionChunk /\ b.tracked_locals = M /\ b.tracked_upvalues = c[Len(c)].tracked_upvalues
  BY <1>3, <1>5, <1>6 DEF FunctionChunk
<1>8. PICK d : d = [c EXCEPT ![Len(c)] = b]
  OBVIOUS
<1>9. /\ d \in Seq(FunctionChunk) /\ Len(d) = Len(c) /\ d[Len(c)] = b
      /\ \A k \in 1 .. Len(c) - 1 : d[k] = c[k]
  BY <1>7, <1>8, BackChanges
<1>10. d = [c EXCEPT ![Len(c)] = [c[Len(c)] EXCEPT !.tracked_locals = c[Len(c)].tracked_locals \o locals]]
  BY <1>1, <1>4, <1>6, <1>8 DEF Locals
<1>11. Tracks(c, scopes, d, locals)
  <2>1. BackDiffer(c, d)
    BY <1>7, <1>9 DEF BackDiffer, Upvalues
  <2>2. Locals(d, Len(c)) = Locals(c, Len(c)) \o locals
    BY <1>1, <1>4, <1>7, <1>9 DEF Locals
  <2>. QED
    BY <2>1, <2>2 DEF Tracks
<1>12. ASSUME NEW k \in 1 .. Len(c)
       PROVE  DOMAIN Locals(c, k) \subseteq DOMAIN Locals(d, k)
  <2>1. CASE k = Len(c)
    BY <1>1, <1>5, <1>7, <1>9, <2>1 DEF Locals
  <2>2. CASE k # Len(c)
    <3>1. k \in 1 .. Len(c) - 1
      BY <1>2, <2>2
    <3>. QED
      BY <1>9, <3>1 DEF Locals
  <2>. QED
    BY <2>1, <2>2
<1>13. d = Adding(c, locals)
  BY <1>10 DEF Adding
<1>. QED
  BY <1>9, <1>13, <1>11, <1>12

(* No function declares a name twice when the names that are added differ   *)
(* and are new to it.                                                       *)
LEMMA TracksInjective ==
  ASSUME NEW c \in Seq(FunctionChunk), c # <<>>, NoShadows(c), NEW d, NEW scopes, NEW locals,
         Tracks(c, scopes, d, locals),
         ~ShadowInFunction =>
           \A j \in 1 .. Len(locals) :
             /\ \A i \in DOMAIN Locals(c, Len(c)) : Locals(c, Len(c))[i].name # locals[j].name
             /\ \A i \in 1 .. Len(locals) : locals[i].name = locals[j].name => i = j
  PROVE  NoShadows(d)
<1>1. BackDiffer(c, d) /\ Len(locals) \in Nat
  BY DEF Tracks
<1>2. PICK N : N = Len(c)
  OBVIOUS
<1>3. N \in 1 .. Len(c) /\ d \in Seq(FunctionChunk) /\ Len(d) = Len(c)
      /\ \A k \in 1 .. Len(c) : k # N => d[k] = c[k]
  BY <1>1, <1>2, BackDifferFacts
<1>4. ASSUME ~ShadowInFunction
      PROVE  IsInjective(NamesOf(d[N]))
  <2>1. PICK a, b : a = NamesOf(c[N]) /\ b = NamesOf(d[N])
    OBVIOUS
  <2>2. /\ DOMAIN a = DOMAIN Locals(c, N) /\ \A i \in DOMAIN Locals(c, N) : a[i] = Locals(c, N)[i].name
        /\ DOMAIN Locals(c, N) = 1 .. Len(Locals(c, N))
    <3>1. DOMAIN Locals(c, N) = 1 .. Len(Locals(c, N))
      BY <1>3, LocalsFacts
    <3>. QED
      BY <2>1, <3>1 DEF NamesOf, Locals
  <2>3. DOMAIN b = DOMAIN Locals(d, N) /\ \A i \in DOMAIN Locals(d, N) : b[i] = Locals(d, N)[i].name
    BY <2>1 DEF NamesOf, Locals
  <2>4. \A i, j \in DOMAIN a : a[i] = a[j] => i = j
    BY <1>3, <1>4, <2>1 DEF NoShadows, IsInjective
  <2>5. PICK m : m = Len(Locals(c, N))
    OBVIOUS
  <2>6. \A i \in DOMAIN Locals(d, N) :
              \/ i \in 1 .. m /\ Locals(d, N)[i] = Locals(c, N)[i]
              \/ /\ i > m /\ i - m \in 1 .. Len(locals)
                 /\ Locals(d, N)[i] = locals[i - m]
    <3>1. /\ \A i \in 1 .. Len(Locals(c, Len(c))) : Locals(d, Len(c))[i] = Locals(c, Len(c))[i]
          /\ \A i \in DOMAIN Locals(d, Len(c)) :
              \/ i \in 1 .. Len(Locals(c, Len(c)))
              \/ /\ i > Len(Locals(c, Len(c)))
                 /\ i - Len(Locals(c, Len(c))) \in 1 .. Len(locals)
                 /\ Locals(d, Len(c))[i] = locals[i - Len(Locals(c, Len(c)))]
      BY TracksFacts
    <3>. QED
      BY <1>2, <2>5, <3>1
  <2>7. m \in Nat /\ DOMAIN Locals(d, N) \subseteq Nat
    <3>1. Len(Locals(c, N)) \in Nat /\ N \in 1 .. Len(d)
      BY <1>3, LocalsFacts
    <3>2. DOMAIN Locals(d, N) = 1 .. Len(Locals(d, N)) /\ Len(Locals(d, N)) \in Nat
      BY <1>3, <3>1, LocalsFacts
    <3>. QED
      BY <2>5, <3>1, <3>2
  <2>8. ASSUME NEW i \in DOMAIN b, NEW j \in DOMAIN b, b[i] = b[j]
        PROVE  i = j
    <3>1. i \in DOMAIN Locals(d, N) /\ j \in DOMAIN Locals(d, N) /\ i \in Nat /\ j \in Nat
          /\ Locals(d, N)[i].name = Locals(d, N)[j].name
      BY <2>3, <2>7, <2>8
    <3>2. CASE i \in 1 .. m /\ Locals(d, N)[i] = Locals(c, N)[i]
      <4>1. CASE j \in 1 .. m /\ Locals(d, N)[j] = Locals(c, N)[j]
        BY <2>2, <2>4, <2>5, <3>1, <3>2, <4>1
      <4>2. CASE j - m \in 1 .. Len(locals) /\ Locals(d, N)[j] = locals[j - m]
        BY <1>2, <1>4, <2>2, <2>5, <3>1, <3>2, <4>2
      <4>. QED
        BY <2>6, <3>1, <4>1, <4>2
    <3>3. CASE i - m \in 1 .. Len(locals) /\ Locals(d, N)[i] = locals[i - m]
      <4>1. CASE j \in 1 .. m /\ Locals(d, N)[j] = Locals(c, N)[j]
        BY <1>2, <1>4, <2>2, <2>5, <3>1, <3>3, <4>1
      <4>2. CASE j - m \in 1 .. Len(locals) /\ Locals(d, N)[j] = locals[j - m]
        <5>1. i - m = j - m
          BY <1>4, <3>1, <3>3, <4>2
        <5>. QED
          BY <2>7, <3>1, <5>1
      <4>. QED
        BY <2>6, <3>1, <4>1, <4>2
    <3>. QED
      BY <2>6, <3>1, <3>2, <3>3
  <2>. QED
    BY <2>1, <2>8 DEF IsInjective
<1>. QED
  BY <1>3, <1>4 DEF NoShadows

(* A name is declared in the innermost scope. *)
LEMMA DeclaresOne ==
  ASSUME NEW c, NEW scopes, NEW cap, Sound(c, scopes, cap), scopes # <<>>,
         NEW n \in Name, n # NoName, NEW init \in BOOLEAN,
         ShadowInFunction \/ ~Contains(NamesOf(c[Len(c)]), n)
  PROVE  LET d == Track(c, Local(n, Len(scopes), init))
         IN  /\ Sound(d, scopes, cap) /\ EnvOf(d) = Append(EnvOf(c), n)
             /\ Len(d) = Len(c)
             /\ \A k \in 1 .. Len(c) : DOMAIN Locals(c, k) \subseteq DOMAIN Locals(d, k)
<1>1. /\ c \in Seq(FunctionChunk) /\ c # <<>> /\ Len(c) \in Nat \ {0} /\ Len(c) \in 1 .. Len(c)
      /\ scopes \in Seq(Construct) /\ Len(scopes) \in Nat \ {0}
      /\ ScopesFit(c, scopes) /\ LocalsPlaced(c, scopes) /\ Placeholder(c, scopes)
      /\ CapturedMarked(c, cap) /\ UpvaluesOK(c) /\ NoShadows(c) /\ EnvOf(c) \in Seq(Name)
  <2>1. /\ c \in Seq(FunctionChunk) /\ c # <<>> /\ Len(c) \in Nat \ {0}
        /\ scopes \in Seq(Construct) /\ Len(scopes) \in Nat
        /\ ScopesFit(c, scopes) /\ LocalsPlaced(c, scopes) /\ Placeholder(c, scopes)
        /\ CapturedMarked(c, cap) /\ UpvaluesOK(c) /\ NoShadows(c) /\ EnvOf(c) \in Seq(Name)
    BY SoundFacts
  <2>. QED
    BY <2>1
<1>2. PICK l : l = Local(n, Len(scopes), init)
  OBVIOUS
<1>3. /\ l \in TrackedLocal /\ l.name = n /\ l.depth = Len(scopes) /\ ~l.is_captured
  BY <1>1, <1>2 DEF Local, TrackedLocal
<1>4. ScopeOf(l) = Len(scopes) /\ l.depth # 0
  BY <1>1, <1>3 DEF ScopeOf
<1>5. PICK locals : locals = <<l>>
  OBVIOUS
<1>6. locals \in Seq(TrackedLocal) /\ Len(locals) = 1 /\ \A j \in 1 .. Len(locals) : j = 1 /\ locals[j] = l
  BY <1>3, <1>5
<1>7. PICK d : d = Adding(c, locals)
  OBVIOUS
<1>8. Tracks(c, scopes, d, locals) /\ Len(d) = Len(c)
      /\ \A k \in 1 .. Len(c) : DOMAIN Locals(c, k) \subseteq DOMAIN Locals(d, k)
  <2>1. c \in Seq(FunctionChunk) /\ c # <<>> /\ locals \in Seq(TrackedLocal)
    BY <1>1, <1>6
  <2>2. \A j \in 1 .. Len(locals) : ScopeOf(locals[j]) = Len(scopes) /\ ~locals[j].is_captured
    BY <1>3, <1>4, <1>6
  <2>. QED
    BY <1>7, <2>1, <2>2, TracksSeq
<1>9. d = Track(c, Local(n, Len(scopes), init))
  <2>1. PICK L : L = c[Len(c)].tracked_locals
    OBVIOUS
  <2>2. L \in Seq(TrackedLocal)
    BY <1>1, <2>1, NamesOfFacts
  <2>3. L \o locals = Append(L, l)
    BY <1>3, <1>5, <2>2
  <2>4. d = [c EXCEPT ![Len(c)] = [c[Len(c)] EXCEPT !.tracked_locals = Append(c[Len(c)].tracked_locals, l)]]
    BY <1>7, <2>1, <2>3, Zenon DEF Adding
  <2>. QED
    BY <1>2, <2>4, Zenon DEF Track
<1>10. NoShadows(d)
  <2>1. ASSUME ~ShadowInFunction, NEW i \in DOMAIN Locals(c, Len(c))
        PROVE  Locals(c, Len(c))[i].name # n
    <3>1. PICK a : a = NamesOf(c[Len(c)])
      OBVIOUS
    <3>2. /\ a \in Seq(Name) /\ DOMAIN a = DOMAIN Locals(c, Len(c))
          /\ \A j \in DOMAIN Locals(c, Len(c)) : a[j] = Locals(c, Len(c))[j].name
      BY <1>1, <3>1, NamesOfFacts DEF Locals
    <3>3. ~ \E j \in 1 .. Len(a) : a[j] = n
      BY <2>1, <3>1 DEF Contains
    <3>. QED
      BY <3>2, <3>3
  <2>. QED
    BY <1>1, <1>3, <1>6, <1>8, <2>1, TracksInjective
<1>11. Placeholder(d, scopes)
  <2>1. \A j \in 1 .. Len(locals) : locals[j].depth # 0
    BY <1>4, <1>6
  <2>. QED
    BY <1>1, <1>8, <2>1, PlaceholderKept
<1>12. Sound(d, scopes, cap)
  BY <1>1, <1>8, <1>10, <1>11, TrackedSound
<1>13. EnvOf(d) = Append(EnvOf(c), n)
  <2>1. EnvOf(d) = EnvOf(c) \o [j \in 1 .. Len(locals) |-> locals[j].name]
    BY <1>1, <1>8, TracksEnv
  <2>2. [j \in 1 .. Len(locals) |-> locals[j].name] = <<n>>
    BY <1>3, <1>6
  <2>. QED
    BY SMTT(40), <1>1, <2>1, <2>2
<1>. QED
  BY <1>8, <1>9, <1>12, <1>13

(* A variable or a class is declared: in the innermost scope, or, where     *)
(* there is none, as a global variable.                                     *)
Declaring(kind, n, init) ==
  /\ Enter(kind, n)
  /\ ~(scope_depth > 0 /\ Redeclared(Back.tracked_locals, n, scope_depth))
  /\ scope_depth > 0 => Room(<<n>>)
  /\ function_chunks' =
       IF scope_depth > 0 THEN Track(function_chunks, Local(n, scope_depth, init)) ELSE function_chunks
  /\ emitted' = <<>> /\ scope_depth' = scope_depth /\ status' = status /\ captured' = captured

LEMMA RoomForOne ==
  ASSUME NEW n, Room(<<n>>)
  PROVE  ShadowInFunction \/ ~Contains(NamesOf(function_chunks[Len(function_chunks)]), n)
<1>1. n \in ToSet(<<n>>)
  BY DEF ToSet
<1>. QED
  BY <1>1 DEF Room, Back

LEMMA DeclaringStep ==
  ASSUME Places, NEW kind \in {"var", "class"}, NEW n \in Identifier, NEW init \in BOOLEAN,
         Declaring(kind, n, init)
  PROVE  Places' /\ Keeps /\ (Scoping!Rest \/ Scoping!Declare(n))
<1>1. /\ Enter(kind, n) /\ emitted' = <<>> /\ scope_depth' = scope_depth
      /\ status' = status /\ captured' = captured
  BY DEF Declaring
<1>2. n \in Name /\ n # NoName /\ kind \in {"block", "var", "fun", "anonymous", "class", "subclass", "method"}
      /\ kind # "fun"
  BY Names
<1>3. /\ nesting' \in Seq(Construct)
      /\ \A j \in 1 .. Len(nesting') : nesting'[j].kind = "fun" => nesting'[j].name \in Identifier
      /\ OpenScopes' = OpenScopes
  <2>1. PICK s \in Construct :
           /\ nesting' \in Seq(Construct)
           /\ \A j \in 1 .. Len(nesting') : nesting'[j].kind = "fun" => nesting'[j].name \in Identifier
           /\ kind \in {"var", "class"} => OpenScopes' = OpenScopes
    BY <1>1, <1>2, EnterFacts
  <2>. QED
    BY <2>1
<1>4. /\ Sound(function_chunks, OpenScopes, captured) /\ scope_depth = Len(OpenScopes)
      /\ OpenScopes \in Seq(Construct) /\ Len(OpenScopes) \in Nat /\ status \in {"compiling", "error"}
  BY SoundFacts DEF Places
<1>5. emitted' \in Seq(Instruction) /\ Accessed' = 0
  <2>1. emitted' \in Seq(Instruction)
    BY <1>1
  <2>. QED
    BY <1>1, <2>1, NothingAccessed
<1>6. CASE ~(scope_depth > 0)
  <2>1. function_chunks' = function_chunks
    BY <1>6 DEF Declaring
  <2>2. Places'
    BY <1>1, <1>3, <1>4, <1>5, <2>1 DEF Places
  <2>3. Keeps
    BY <2>1 DEF Keeps
  <2>4. Scoping!Rest
    BY <1>3, <1>5, <2>1, RestMaps DEF Env
  <2>. QED
    BY <2>2, <2>3, <2>4
<1>7. CASE scope_depth > 0
  <2>1. PICK d : d = Track(function_chunks, Local(n, Len(OpenScopes), init))
    OBVIOUS
  <2>2. function_chunks' = d /\ Room(<<n>>)
        /\ ~Redeclared(Locals(function_chunks, Len(function_chunks)), n, Len(OpenScopes))
    BY <1>4, <1>7, <2>1 DEF Declaring, Back, Locals
  <2>3. OpenScopes # <<>>
    BY <1>4, <1>7
  <2>4. /\ Sound(d, OpenScopes, captured) /\ EnvOf(d) = Append(EnvOf(function_chunks), n)
        /\ Len(d) = Len(function_chunks)
        /\ \A k \in 1 .. Len(function_chunks) :
             DOMAIN Locals(function_chunks, k) \subseteq DOMAIN Locals(d, k)
    <3>1. ShadowInFunction \/ ~Contains(NamesOf(function_chunks[Len(function_chunks)]), n)
      BY <2>2, RoomForOne
    <3>. QED
      BY <1>2, <1>4, <2>1, <2>3, <3>1, DeclaresOne
  <2>5. Places'
    BY <1>1, <1>3, <1>4, <1>5, <2>2, <2>4 DEF Places
  <2>6. Keeps
    BY <2>2, <2>4 DEF Keeps
  <2>7. Env' = Append(Env, n)
    BY <2>2, <2>4 DEF Env
  <2>8. Scoping!Declare(n)
    BY <1>2, <1>3, <1>4, <1>5, <2>2, <2>3, <2>7, DeclareMaps
  <2>. QED
    BY <2>5, <2>6, <2>8
<1>. QED
  BY <1>6, <1>7

LEMMA BeginVarStep ==
  ASSUME Places, NEW n \in Identifier, BeginVar(n)
  PROVE  Places' /\ Keeps /\ (Scoping!Rest \/ Scoping!Declare(n))
<1>1. CASE Throw
  BY <1>1, ThrowStep
<1>2. CASE ~Throw
  <2>1. Declaring("var", n, FALSE)
    BY <1>2 DEF BeginVar, Declaring
  <2>. QED
    BY <2>1, DeclaringStep
<1>. QED
  BY <1>1, <1>2

LEMMA BeginClassStep ==
  ASSUME Places, NEW n \in Identifier, BeginClass(n)
  PROVE  Places' /\ Keeps /\ (Scoping!Rest \/ Scoping!Declare(n))
<1>1. CASE Throw
  BY <1>1, ThrowStep
<1>2. CASE ~Throw
  <2>1. Declaring("class", n, TRUE)
    BY <1>2 DEF BeginClass, Declaring
  <2>. QED
    BY <2>1, DeclaringStep
<1>. QED
  BY <1>1, <1>2

LEMMA EndClassStep ==
  ASSUME Places, EndClass
  PROVE  Places' /\ Keeps /\ Scoping!Rest
<1>1. /\ Inside = "class" /\ LeaveConstruct /\ emitted' = <<>> /\ function_chunks' = function_chunks
      /\ scope_depth' = scope_depth /\ status' = status /\ captured' = captured
  BY DEF EndClass
<1>2. /\ nesting' \in Seq(Construct)
      /\ \A j \in 1 .. Len(nesting') : nesting'[j].kind = "fun" => nesting'[j].name \in Identifier
      /\ OpenScopes' = OpenScopes
  BY <1>1, LeaveFacts
<1>3. emitted' \in Seq(Instruction)
  BY <1>1
<1>4. Places'
  BY <1>1, <1>2, <1>3 DEF Places
<1>5. Accessed' = 0
  BY <1>1, <1>3, NothingAccessed
<1>6. Keeps
  BY <1>1 DEF Keeps
<1>7. Scoping!Rest
  BY <1>1, <1>2, <1>5, RestMaps DEF Env
<1>. QED
  BY <1>4, <1>6, <1>7

(* The end of a declaration marks the last local initialized, if there is   *)
(* one, and changes nothing else.                                           *)
Initialized(c) == [c EXCEPT ![Len(c)].tracked_locals[Len(c[Len(c)].tracked_locals)].initialized = TRUE]

LEMMA InitializedSound ==
  ASSUME NEW c, NEW scopes, NEW cap, Sound(c, scopes, cap)
  PROVE  Alike(c, Initialized(c)) /\ UpvaluesOK(Initialized(c))
<1>1. /\ c \in Seq(FunctionChunk) /\ c # <<>> /\ Len(c) \in 1 .. Len(c)
      /\ CapturedMarked(c, cap) /\ UpvaluesOK(c)
  <2>1. /\ c \in Seq(FunctionChunk) /\ c # <<>> /\ Len(c) \in Nat \ {0}
        /\ CapturedMarked(c, cap) /\ UpvaluesOK(c)
    BY SoundFacts
  <2>. QED
    BY <2>1
<1>2. PICK N : N = Len(c)
  OBVIOUS
<1>3. PICK L : L = c[N].tracked_locals
  OBVIOUS
<1>4. L = Locals(c, N) /\ L \in Seq(TrackedLocal) /\ N \in 1 .. Len(c) /\ Len(L) \in Nat /\ c[N] \in FunctionChunk
  BY <1>1, <1>2, <1>3, LocalsFacts DEF Locals
<1>5. PICK l : l = [L[Len(L)] EXCEPT !.initialized = TRUE]
  OBVIOUS
<1>6. PICK d : d = Initialized(c)
  OBVIOUS
<1>7. CASE L = <<>>
  <2>1. [L EXCEPT ![Len(L)] = l] = L
    BY <1>4, <1>7
  <2>2. [c[N] EXCEPT !.tracked_locals = L] = c[N]
    BY <1>3, <1>4 DEF FunctionChunk
  <2>3. [c EXCEPT ![N] = c[N]] = c
    BY <1>1, <1>4
  <2>4. d = c
    BY <1>2, <1>3, <1>5, <1>6, <2>1, <2>2, <2>3 DEF Initialized
  <2>5. Alike(c, c) /\ UpvaluesOK(c)
    BY <1>1, AlikeItself
  <2>. QED
    BY <1>6, <2>4, <2>5, Zenon
<1>8. CASE L # <<>>
  <2>1. Len(L) \in DOMAIN L
    BY <1>4, <1>8
  <2>2. L[Len(L)] \in TrackedLocal
    BY <1>4, <2>1
  <2>3. /\ l \in TrackedLocal /\ l.name = L[Len(L)].name /\ l.depth = L[Len(L)].depth
        /\ l.is_captured = L[Len(L)].is_captured
    BY <1>5, <2>2 DEF TrackedLocal
  <2>4. l.name = NoName => ~l.is_captured
    BY <1>1, <1>4, <2>1, <2>3 DEF CapturedMarked
  <2>5. PICK m : m = Len(L)
    OBVIOUS
  <2>6. /\ m \in DOMAIN Locals(c, N) /\ l.name = Locals(c, N)[m].name /\ l.depth = Locals(c, N)[m].depth
        /\ (Locals(c, N)[m].is_captured => l.is_captured)
        /\ l \in TrackedLocal /\ N \in 1 .. Len(c) /\ (l.name = NoName => ~l.is_captured)
        /\ c \in Seq(FunctionChunk) /\ CapturedMarked(c, cap) /\ UpvaluesOK(c)
    BY <1>1, <1>4, <2>1, <2>3, <2>4, <2>5
  <2>7. PICK e : /\ e = [c EXCEPT ![N] = [c[N] EXCEPT !.tracked_locals =
                           [c[N].tracked_locals EXCEPT ![m] = l]]]
                 /\ Alike(c, e) /\ UpvaluesOK(e) /\ Locals(e, N)[m] = l
    BY <2>6, FlagsStaySound
  <2>8. e = d
    BY <1>2, <1>3, <1>5, <1>6, <2>5, <2>7 DEF Initialized
  <2>. QED
    BY <1>6, <2>7, <2>8
<1>. QED
  BY <1>7, <1>8

LEMMA EndVarStep ==
  ASSUME Places, EndVar
  PROVE  Places' /\ Keeps /\ Scoping!Rest
<1>1. /\ Inside = "var" /\ LeaveConstruct /\ emitted' = <<>>
      /\ scope_depth' = scope_depth /\ status' = status /\ captured' = captured
  BY DEF EndVar
<1>2. /\ nesting' \in Seq(Construct)
      /\ \A j \in 1 .. Len(nesting') : nesting'[j].kind = "fun" => nesting'[j].name \in Identifier
      /\ OpenScopes' = OpenScopes
  BY <1>1, LeaveFacts
<1>3. Sound(function_chunks, OpenScopes, captured)
  BY DEF Places
<1>4. Alike(function_chunks, function_chunks') /\ UpvaluesOK(function_chunks')
  <2>1. CASE scope_depth = 0
    <3>1. function_chunks' = function_chunks
      BY <2>1 DEF EndVar
    <3>. QED
      BY <1>3, <3>1, SoundFacts, AlikeItself
  <2>2. CASE scope_depth # 0
    <3>1. function_chunks' = [function_chunks EXCEPT ![Len(function_chunks)].tracked_locals
              [Len(function_chunks[Len(function_chunks)].tracked_locals)].initialized = TRUE]
      BY <2>2 DEF EndVar, Back
    <3>. QED
      BY <1>3, <3>1, InitializedSound DEF Initialized
  <2>. QED
    BY <2>1, <2>2
<1>5. Sound(function_chunks', OpenScopes, captured) /\ EnvOf(function_chunks') = EnvOf(function_chunks)
  BY <1>3, <1>4, AlikeSound
<1>6. emitted' \in Seq(Instruction)
  BY <1>1
<1>7. Places'
  BY <1>1, <1>2, <1>5, <1>6 DEF Places
<1>8. Accessed' = 0
  BY <1>1, <1>6, NothingAccessed
<1>9. Keeps
  BY <1>4, AlikeKeeps
<1>10. Scoping!Rest
  BY <1>2, <1>5, <1>8, RestMaps DEF Env
<1>. QED
  BY <1>7, <1>9, <1>10

(* A function begins with slot 0 and its parameters in a scope of its own. *)
NewLocals(names, depth) == [i \in DOMAIN names |-> Local(names[i], depth, TRUE)]
NewFunction(names, depth) == [NewChunk EXCEPT !.tracked_locals = NewLocals(names, depth)]
Beginning(kind, n, names) ==
  /\ IsInjective(names)
  /\ Enter(kind, n)
  /\ function_chunks' = Append(function_chunks, NewFunction(names, scope_depth + 1))
  /\ scope_depth' = scope_depth + 1
  /\ emitted' = <<>> /\ status' = status /\ captured' = captured

LEMMA NewLocalsFacts ==
  ASSUME NEW names \in Seq(Name), NEW depth \in Nat \ {0}
  PROVE  LET b == NewFunction(names, depth)
         IN  /\ b \in FunctionChunk /\ b.tracked_upvalues = <<>> /\ NamesOf(b) = names
             /\ \A i \in DOMAIN b.tracked_locals :
                  ScopeOf(b.tracked_locals[i]) = depth /\ ~b.tracked_locals[i].is_captured
                  /\ b.tracked_locals[i].depth # 0
<1>1. PICK L : L = NewLocals(names, depth)
  OBVIOUS
<1>2. DOMAIN names = 1 .. Len(names) /\ Len(names) \in Nat
  OBVIOUS
<1>3. L = [i \in 1 .. Len(names) |-> Local(names[i], depth, TRUE)]
  BY <1>1, <1>2 DEF NewLocals
<1>4. ASSUME NEW i \in 1 .. Len(names)
      PROVE  /\ Local(names[i], depth, TRUE) \in TrackedLocal
             /\ Local(names[i], depth, TRUE).name = names[i]
             /\ Local(names[i], depth, TRUE).depth = depth
             /\ ~Local(names[i], depth, TRUE).is_captured
  BY DEF Local, TrackedLocal
<1>5. L \in Seq(TrackedLocal) /\ DOMAIN L = 1 .. Len(names)
      /\ \A i \in 1 .. Len(names) : L[i] = Local(names[i], depth, TRUE)
  <2>1. DOMAIN L = 1 .. Len(names) /\ \A i \in 1 .. Len(names) : L[i] = Local(names[i], depth, TRUE)
    BY <1>3
  <2>2. \A i \in 1 .. Len(names) : L[i] \in TrackedLocal
    BY <1>4, <2>1
  <2>3. L = [i \in 1 .. Len(names) |-> L[i]]
    BY <1>3
  <2>4. L \in [1 .. Len(names) -> TrackedLocal]
    BY <2>2, <2>3
  <2>5. L \in Seq(TrackedLocal)
    <3>1. PICK n : n = Len(names)
      OBVIOUS
    <3>2. n \in Nat /\ L \in [1 .. n -> TrackedLocal]
      BY <1>2, <2>4, <3>1
    <3>3. L \in UNION {[1 .. m -> TrackedLocal] : m \in Nat}
      BY <3>2
    <3>. QED
      BY <3>3, SeqDef
  <2>. QED
    BY <2>1, <2>5
<1>6. PICK b : b = [NewChunk EXCEPT !.tracked_locals = L]
  OBVIOUS
<1>7. b \in FunctionChunk /\ b.tracked_locals = L /\ b.tracked_upvalues = <<>>
  <2>1. b = [tracked_locals |-> L, tracked_upvalues |-> <<>>]
    BY <1>6 DEF NewChunk
  <2>2. <<>> \in Seq(TrackedUpvalue)
    OBVIOUS
  <2>. QED
    BY <1>5, <2>1, <2>2 DEF FunctionChunk
<1>8. NamesOf(b) = names
  <2>1. \A i \in 1 .. Len(names) : L[i].name = names[i]
    BY <1>4, <1>5
  <2>2. NamesOf(b) = [i \in 1 .. Len(names) |-> L[i].name]
    BY <1>5, <1>7 DEF NamesOf
  <2>. QED
    BY <1>2, <2>1, <2>2
<1>9. \A i \in DOMAIN L : ScopeOf(L[i]) = depth /\ ~L[i].is_captured /\ L[i].depth # 0
  BY <1>4, <1>5 DEF ScopeOf
<1>10. b = NewFunction(names, depth)
  BY <1>1, <1>6 DEF NewFunction
<1>. QED
  BY <1>7, <1>8, <1>9, <1>10

LEMMA BeginningStep ==
  ASSUME Places, NEW kind \in FunctionKind, NEW n \in Name, kind = "fun" => n \in Identifier,
         NEW names \in Seq(Name), Beginning(kind, n, names)
  PROVE  Places' /\ Keeps /\ Scoping!Open(names)
<1>1. /\ Enter(kind, n) /\ scope_depth' = scope_depth + 1 /\ emitted' = <<>>
      /\ status' = status /\ captured' = captured /\ IsInjective(names)
  BY DEF Beginning
<1>2. PICK s \in Construct :
           /\ s.kind = kind /\ s.from = Len(EnvOf(function_chunks))
           /\ nesting' \in Seq(Construct)
           /\ \A j \in 1 .. Len(nesting') : nesting'[j].kind = "fun" => nesting'[j].name \in Identifier
           /\ OpenScopes' = Append(OpenScopes, s)
  <2>1. kind \in {"block", "var", "fun", "anonymous", "class", "subclass", "method"}
        /\ kind \notin {"var", "class"}
    BY DEF FunctionKind
  <2>. QED
    BY <1>1, <2>1, EnterFacts
<1>3. /\ Sound(function_chunks, OpenScopes, captured) /\ scope_depth = Len(OpenScopes)
      /\ OpenScopes \in Seq(Construct) /\ Len(OpenScopes) \in Nat /\ status \in {"compiling", "error"}
      /\ function_chunks \in Seq(FunctionChunk)
  BY SoundFacts DEF Places
<1>4. PICK b : b = NewFunction(names, scope_depth + 1)
  OBVIOUS
<1>5. /\ b \in FunctionChunk /\ b.tracked_upvalues = <<>> /\ NamesOf(b) = names
      /\ \A i \in DOMAIN b.tracked_locals :
           ScopeOf(b.tracked_locals[i]) = Len(OpenScopes) + 1 /\ ~b.tracked_locals[i].is_captured
           /\ b.tracked_locals[i].depth # 0
  <2>1. Len(OpenScopes) + 1 \in Nat \ {0} /\ scope_depth + 1 = Len(OpenScopes) + 1
    BY <1>3
  <2>. QED
    BY <1>4, <2>1, NewLocalsFacts
<1>6. PICK d : d = Append(function_chunks, b)
  OBVIOUS
<1>7. function_chunks' = d
  BY <1>4, <1>6 DEF Beginning
<1>8. Begins(function_chunks, OpenScopes, d, Append(OpenScopes, s), b, s)
  BY <1>2, <1>5, <1>6 DEF Begins
<1>9. Sound(d, Append(OpenScopes, s), captured) /\ EnvOf(d) = EnvOf(function_chunks) \o names
  <2>1. IsInjective(NamesOf(b)) /\ Sound(function_chunks, OpenScopes, captured)
    BY <1>1, <1>3, <1>5
  <2>2. \A i \in DOMAIN b.tracked_locals : b.tracked_locals[i].depth # 0
    BY <1>5
  <2>3. PICK more : more = Append(OpenScopes, s)
    OBVIOUS
  <2>4. Begins(function_chunks, OpenScopes, d, more, b, s)
    BY <1>8, <2>3
  <2>5. Sound(d, more, captured) /\ EnvOf(d) = EnvOf(function_chunks) \o NamesOf(b)
    BY <2>1, <2>2, <2>4, BegunSound
  <2>. QED
    BY <1>5, <2>3, <2>5
<1>10. scope_depth' = Len(OpenScopes') /\ emitted' \in Seq(Instruction)
  BY <1>1, <1>2, <1>3
<1>11. Places'
  BY <1>1, <1>2, <1>3, <1>7, <1>9, <1>10 DEF Places
<1>12. Keeps
  <2>1. \A k \in 1 .. Len(function_chunks) : d[k] = function_chunks[k]
    BY <1>3, <1>5, <1>6
  <2>. QED
    BY <1>7, <2>1 DEF Keeps, Locals
<1>13. Accessed' = 0
  BY <1>1, <1>10, NothingAccessed
<1>14. Env' = Env \o names
  BY <1>7, <1>9 DEF Env
<1>15. Scoping!Open(names)
  <2>1. s.from = Len(Env)
    BY <1>2 DEF Env
  <2>. QED
    BY <1>2, <1>3, <1>13, <1>14, <2>1, OpenMaps
<1>. QED
  BY <1>11, <1>12, <1>15

LEMMA BeginFunctionStep ==
  ASSUME Places, NEW kind \in FunctionKind, NEW n \in Name, kind = "fun" => n \in Identifier,
         NEW slot0, NEW params, slot0 \o params \in Seq(Name), BeginFunction(kind, n, slot0, params)
  PROVE  Places' /\ Keeps /\ (Scoping!Rest \/ Scoping!Open(slot0 \o params))
<1>1. CASE Throw
  BY <1>1, ThrowStep
<1>2. CASE ~Throw
  <2>1. PICK names : names = slot0 \o params
    OBVIOUS
  <2>2. Beginning(kind, n, names)
    BY <1>2, <2>1 DEF BeginFunction, Beginning, NewFunction, NewLocals
  <2>3. names \in Seq(Name)
    BY <2>1
  <2>. QED
    BY <2>1, <2>2, <2>3, BeginningStep
<1>. QED
  BY <1>1, <1>2

(* A function ends, and `tracked' is what it declares around it. *)
Ending(tracked) ==
  LET c == function_chunks
      enclosing == Front(c)
      ups == {Position(c, Len(c) - 1, u.index) : u \in {v \in ToSet(Upvalues(c, Len(c))) : v.direct}}
  IN  /\ tracked # <<>> =>
           /\ ~Redeclared(Locals(enclosing, Len(enclosing)), tracked[1], scope_depth - 1)
           /\ ShadowInFunction \/ ~Contains(NamesOf(enclosing[Len(enclosing)]), tracked[1])
           /\ scope_depth - 1 # 0
           /\ function_chunks' = Track(enclosing, Local(tracked[1], scope_depth - 1, TRUE))
      /\ tracked = <<>> => function_chunks' = enclosing
      /\ LeaveConstruct
      /\ scope_depth' = scope_depth - 1
      /\ captured' = (captured \cup ups) \cap 1 .. Len(EnvOf(enclosing))
      /\ emitted' = <<>> /\ status' = status

LEMMA EndingStep ==
  ASSUME Places, Inside \in FunctionKind,
         NEW tracked, tracked = <<>> \/ \E m \in Name : m # NoName /\ tracked = <<m>>,
         Ending(tracked)
  PROVE  Places' /\ Keeps /\ Scoping!Close(tracked)
<1>1. PICK c, scopes : c = function_chunks /\ scopes = OpenScopes
  OBVIOUS
<1>2. PICK ups : ups = {Position(c, Len(c) - 1, u.index) : u \in {v \in ToSet(Upvalues(c, Len(c))) : v.direct}}
  OBVIOUS
<1>3. PICK e, below : e = Front(c) /\ below = Front(scopes)
  OBVIOUS
<1>4. PICK cap : cap = (captured \cup ups) \cap 1 .. Len(EnvOf(e))
  OBVIOUS
<1>5. /\ LeaveConstruct /\ scope_depth' = scope_depth - 1 /\ captured' = cap
      /\ emitted' = <<>> /\ status' = status
  BY <1>1, <1>2, <1>3, <1>4 DEF Ending
<1>6. /\ Sound(c, scopes, captured) /\ scope_depth = Len(scopes) /\ status \in {"compiling", "error"}
      /\ scopes \in Seq(Construct) /\ Len(scopes) \in Nat /\ c \in Seq(FunctionChunk)
      /\ EnvOf(c) \in Seq(Name)
  BY <1>1, SoundFacts DEF Places
<1>7. Inside # "script" /\ Inside \notin {"var", "class"}
  BY DEF FunctionKind
<1>8. scopes # <<>> /\ scopes[Len(scopes)].kind \in FunctionKind
  BY <1>1, <1>7, InsideFacts
<1>9. /\ nesting' \in Seq(Construct)
      /\ \A j \in 1 .. Len(nesting') : nesting'[j].kind = "fun" => nesting'[j].name \in Identifier
      /\ OpenScopes' = below
  BY <1>1, <1>3, <1>5, <1>7, LeaveFacts
<1>10. PICK from : from = scopes[Len(scopes)].from
  OBVIOUS
<1>11. /\ Sound(e, below, cap) /\ EnvOf(e) = SubSeq(EnvOf(c), 1, from)
       /\ from = Len(EnvOf(e)) /\ Len(c) \in Nat \ {0, 1}
  BY <1>2, <1>3, <1>4, <1>6, <1>8, <1>10, EndedSound
<1>12. /\ e \in Seq(FunctionChunk) /\ e # <<>> /\ below \in Seq(Construct) /\ EnvOf(e) \in Seq(Name)
       /\ from \in Nat /\ ScopesFit(e, below) /\ LocalsPlaced(e, below) /\ Placeholder(e, below)
  BY <1>11, SoundFacts
<1>13. Len(below) = Len(scopes) - 1
  BY <1>3, <1>6, <1>8 DEF Front
<1>14. Len(e) = Len(c) - 1 /\ \A k \in 1 .. Len(c) - 1 : e[k] = c[k]
  <2>1. c # <<>>
    BY <1>11
  <2>. QED
    BY <1>3, <1>6, <2>1, FrontLast
<1>15. emitted' \in Seq(Instruction) /\ Accessed' = 0
  <2>1. emitted' \in Seq(Instruction)
    BY <1>5
  <2>. QED
    BY <1>5, <2>1, NothingAccessed
<1>16. CASE tracked = <<>>
  <2>1. function_chunks' = e
    BY <1>1, <1>3, <1>16 DEF Ending
  <2>2. Places'
    BY <1>5, <1>6, <1>9, <1>11, <1>13, <1>15, <2>1 DEF Places
  <2>3. Keeps
    BY <1>1, <1>14, <2>1 DEF Keeps, Locals
  <2>4. Env' = SubSeq(Env, 1, OpenScopes[Len(OpenScopes)].from) \o <<>>
    <3>1. Env' = EnvOf(e) /\ Env = EnvOf(c)
      BY <1>1, <2>1 DEF Env
    <3>2. EnvOf(e) = EnvOf(e) \o <<>>
      BY <1>12
    <3>. QED
      BY <1>1, <1>10, <1>11, <3>1, <3>2
  <2>5. Scoping!Close(<<>>)
    BY <1>1, <1>3, <1>6, <1>8, <1>9, <1>15, <2>4, CloseMaps
  <2>. QED
    BY <1>16, <2>2, <2>3, <2>5
<1>17. CASE tracked # <<>>
  <2>1. PICK m \in Name : m # NoName /\ tracked = <<m>>
    BY <1>17
  <2>21. PICK init \in BOOLEAN : init = TRUE
    OBVIOUS
  <2>2. PICK d : d = Track(e, Local(m, Len(below), init))
    OBVIOUS
  <2>3. scope_depth - 1 = Len(below)
    BY <1>6, <1>13
  <2>4. tracked[1] = m
    BY <2>1
  <2>5. /\ ~Redeclared(Locals(e, Len(e)), m, Len(below))
        /\ ShadowInFunction \/ ~Contains(NamesOf(e[Len(e)]), m)
        /\ Len(below) # 0
        /\ function_chunks' = d
    BY <1>1, <1>3, <1>17, <2>2, <2>21, <2>3, <2>4 DEF Ending
  <2>6. below # <<>>
    BY <2>5
  <2>7. /\ Sound(d, below, cap) /\ EnvOf(d) = Append(EnvOf(e), m) /\ Len(d) = Len(e)
        /\ \A k \in 1 .. Len(e) : DOMAIN Locals(e, k) \subseteq DOMAIN Locals(d, k)
    <3>1. Sound(e, below, cap) /\ m # NoName
      BY <1>11, <2>1
    <3>2. ShadowInFunction \/ ~Contains(NamesOf(e[Len(e)]), m)
      BY <2>5
    <3>. QED
      BY <2>2, <2>6, <3>1, <3>2, DeclaresOne
  <2>8. Places'
    BY <1>5, <1>6, <1>9, <1>13, <1>15, <2>5, <2>7 DEF Places
  <2>9. Keeps
    <3>1. ASSUME NEW k \in 1 .. Len(c), k \in 1 .. Len(d)
          PROVE  DOMAIN Locals(c, k) \subseteq DOMAIN Locals(d, k)
      <4>1. k \in 1 .. Len(e) /\ k \in 1 .. Len(c) - 1
        BY <1>14, <2>7, <3>1
      <4>2. Locals(e, k) = Locals(c, k)
        BY SMTT(40), <1>14, <4>1 DEF Locals
      <4>. QED
        BY <2>7, <4>1, <4>2
    <3>. QED
      BY <1>1, <2>5, <3>1 DEF Keeps
  <2>10. Env' = SubSeq(Env, 1, OpenScopes[Len(OpenScopes)].from) \o tracked
    <3>1. Env' = EnvOf(d) /\ Env = EnvOf(c)
      BY <1>1, <2>5 DEF Env
    <3>2. Append(EnvOf(e), m) = EnvOf(e) \o <<m>>
      BY <1>12, <2>1
    <3>. QED
      BY <1>1, <1>10, <1>11, <2>1, <2>7, <3>1, <3>2
  <2>11. PICK under : under = below[Len(below)].from
    OBVIOUS
  <2>12. \A p \in under + 1 .. Len(EnvOf(e)) : EnvOf(e)[p] # m
    BY <1>12, <2>1, <2>5, <2>6, <2>11, NotRedeclared
  <2>13. under \in Nat
    <3>1. below[Len(below)] \in Construct
      BY <1>12, <2>6
    <3>. QED
      BY <2>11, <3>1 DEF Construct
  <2>14. ASSUME NEW p \in under + 1 .. Len(EnvOf(c)), p <= from
         PROVE  EnvOf(c)[p] # m
    <3>1. p \in 1 .. Len(EnvOf(e)) /\ p \in under + 1 .. Len(EnvOf(e))
      BY <1>6, <1>11, <1>12, <2>13, <2>14
    <3>2. EnvOf(e)[p] = EnvOf(c)[p]
      BY <1>6, <1>11, <1>12, <3>1
    <3>. QED
      BY <2>12, <3>1, <3>2
  <2>15. \A p \in Front(OpenScopes)[Len(Front(OpenScopes))].from + 1 .. Len(Env) :
           p <= OpenScopes[Len(OpenScopes)].from => Env[p] # tracked[1]
    BY <1>1, <1>3, <1>10, <2>4, <2>11, <2>14 DEF Env
  <2>16. Scoping!Close(tracked)
    BY <1>1, <1>3, <1>6, <1>8, <1>9, <1>15, <2>6, <2>10, <2>15, CloseMaps
  <2>. QED
    BY <2>8, <2>9, <2>16
<1>. QED
  BY <1>16, <1>17

LEMMA EndFunctionStep ==
  ASSUME Places, NEW kind \in FunctionKind, NEW declared,
         declared = <<>> \/ \E m \in Name : m # NoName /\ declared = <<m>>,
         EndFunction(kind, declared)
  PROVE  /\ Places' /\ Keeps
         /\ Scoping!Rest \/ Scoping!Close(<<>>) \/ Scoping!Close(declared)
<1>1. CASE Throw
  BY <1>1, ThrowStep
<1>2. CASE ~Throw
  <2>1. PICK tracked : tracked = IF scope_depth - 1 = 0 THEN <<>> ELSE declared
    OBVIOUS
  <2>2. Inside = kind
    BY DEF EndFunction
  <2>3. CASE tracked = <<>>
    <3>1. Ending(tracked)
      BY <1>2, <2>1, <2>3 DEF EndFunction, Ending, CapturedByBack, Back, Upvalues, Locals, Last
    <3>. QED
      BY <2>2, <2>3, <3>1, EndingStep
  <2>4. CASE tracked # <<>>
    <3>1. tracked = declared /\ scope_depth - 1 # 0
      BY <2>1, <2>4
    <3>2. tracked[1] \in ToSet(tracked)
      BY <2>4, <3>1 DEF ToSet
    <3>3. Ending(tracked)
      BY <1>2, <2>1, <2>4, <3>1, <3>2 DEF EndFunction, Ending, CapturedByBack, Back, Upvalues, Locals, Last
    <3>. QED
      BY <2>2, <3>1, <3>3, EndingStep
  <2>. QED
    BY <2>3, <2>4
<1>. QED
  BY <1>1, <1>2

(* What `< n' tracks: the placeholder of a global class, and `super'. *)
SuperLocals(depth) ==
  (IF depth = 0 THEN <<Local(NoName, 0, TRUE)>> ELSE <<>>) \o <<Local("super", depth + 1, TRUE)>>

Superclassing(n) ==
  /\ Inside = "class"
  /\ Room(NamesOf([tracked_locals |-> SuperLocals(scope_depth)]))
  /\ nesting' = [nesting EXCEPT ![Len(nesting)] =
       [nesting[Len(nesting)] EXCEPT !.kind = "subclass", !.from = Len(Env)]]
  /\ function_chunks' = [Access(n).chunks EXCEPT ![Len(function_chunks)] =
       [Access(n).chunks[Len(function_chunks)] EXCEPT !.tracked_locals =
          Access(n).chunks[Len(function_chunks)].tracked_locals \o SuperLocals(scope_depth)]]
  /\ scope_depth' = scope_depth + 1
  /\ emitted' = Instructions(Access(n)) /\ status' = status /\ captured' = captured

LEMMA SuperclassUnfolds ==
  ASSUME NEW n, Superclass(n), ~Throw
  PROVE  Superclassing(n)
BY Zenon DEF Superclass, Superclassing, SuperLocals, NoName

LEMMA LocalIs ==
  ASSUME NEW n \in Name, NEW depth \in Nat, NEW init \in BOOLEAN
  PROVE  LET l == Local(n, depth, init)
         IN  l \in TrackedLocal /\ l.name = n /\ l.depth = depth /\ ~l.is_captured
BY DEF Local, TrackedLocal

LEMMA SuperLocalsFacts ==
  ASSUME NEW depth \in Nat
  PROVE  LET added == SuperLocals(depth)
         IN  /\ added \in Seq(TrackedLocal) /\ Len(added) \in 1 .. 2
             /\ \A j \in 1 .. Len(added) :
                  /\ ScopeOf(added[j]) = depth + 1 /\ ~added[j].is_captured
                  /\ added[j].depth = 0 => depth = 0 /\ j = 1 /\ added[j].name = NoName
                  /\ \A i \in 1 .. Len(added) : added[i].name = added[j].name => i = j
             /\ depth = 0 => added # <<>> /\ added[1].depth = 0
<1>1. PICK none, super : none = Local(NoName, 0, TRUE) /\ super = Local("super", depth + 1, TRUE)
  OBVIOUS
<1>2. /\ none \in TrackedLocal /\ none.name = NoName /\ none.depth = 0 /\ ~none.is_captured
      /\ super \in TrackedLocal /\ super.name # NoName /\ super.depth = depth + 1 /\ ~super.is_captured
  <2>1. NoName \in Name /\ "super" \in Name /\ "super" # NoName
    BY Names, Zenon
  <2>2. PICK init \in BOOLEAN : init = TRUE
    OBVIOUS
  <2>3. PICK above \in Nat : above = depth + 1
    OBVIOUS
  <2>4. none = Local(NoName, 0, init) /\ super = Local("super", above, init)
    BY <1>1, <2>2, <2>3, Zenon
  <2>5. none \in TrackedLocal /\ none.name = NoName /\ none.depth = 0 /\ ~none.is_captured
    BY <2>1, <2>4, LocalIs
  <2>6. super \in TrackedLocal /\ super.name = "super" /\ super.depth = above /\ ~super.is_captured
    BY <2>1, <2>4, LocalIs
  <2>. QED
    BY <2>1, <2>3, <2>5, <2>6
<1>3. ScopeOf(none) = 1 /\ ScopeOf(super) = depth + 1
  BY <1>2 DEF ScopeOf
<1>4. PICK added : added = SuperLocals(depth)
  OBVIOUS
<1>5. CASE depth = 0
  <2>0. added = <<none>> \o <<super>>
    BY <1>1, <1>4, <1>5, Zenon DEF SuperLocals
  <2>1. added = <<none, super>>
    <3>1. <<none>> \in Seq(TrackedLocal) /\ <<super>> \in Seq(TrackedLocal)
      BY <1>2
    <3>2. /\ added \in Seq(TrackedLocal) /\ Len(added) = 2 /\ added[1] = none /\ added[2] = super
      BY <2>0, <3>1
    <3>. QED
      BY <3>2
  <2>2. /\ added \in Seq(TrackedLocal) /\ Len(added) = 2 /\ added[1] = none /\ added[2] = super
        /\ added # <<>>
    BY <1>2, <2>1
  <2>3. \A j \in 1 .. Len(added) : j = 1 \/ j = 2
    BY <2>2
  <2>. QED
    BY <1>2, <1>3, <1>4, <1>5, <2>2, <2>3
<1>6. CASE depth # 0
  <2>0. added = <<>> \o <<super>>
    BY <1>1, <1>4, <1>6, Zenon DEF SuperLocals
  <2>1. added = <<super>>
    BY <2>0
  <2>2. added \in Seq(TrackedLocal) /\ Len(added) = 1 /\ added[1] = super
    BY <1>2, <2>1
  <2>3. \A j \in 1 .. Len(added) : j = 1
    BY <2>2
  <2>. QED
    BY <1>2, <1>3, <1>4, <1>6, <2>2, <2>3
<1>. QED
  BY <1>5, <1>6

(* Tracking locals does not change what an instruction on a variable reaches. *)
LEMMA ReachedStays ==
  ASSUME NEW c \in Seq(FunctionChunk), c # <<>>, UpvaluesOK(c),
         NEW d, BackDiffer(c, d), UpvaluesOK(d),
         NEW op, NEW index, op = "upvalue" => index \in DOMAIN Upvalues(c, Len(c))
  PROVE  Reached(d, op, index) = Reached(c, op, index)
<1>1. /\ Len(c) \in Nat \ {0} /\ d \in Seq(FunctionChunk) /\ Len(d) = Len(c)
      /\ \A k \in 1 .. Len(c) : Base(d, k) = Base(c, k) /\ Upvalues(d, k) = Upvalues(c, k)
  BY BackDifferFacts
<1>2. Len(c) \in 1 .. Len(c)
  BY <1>1
<1>3. CASE op = "local"
  <2>1. Reached(d, op, index) = Position(d, Len(d), index) /\ Reached(c, op, index) = Position(c, Len(c), index)
    BY <1>3 DEF Reached
  <2>. QED
    BY <1>1, <1>2, <2>1, PositionIsBase
<1>4. CASE op = "upvalue"
  <2>1. \A k \in 1 .. Len(c) : \A j \in DOMAIN Upvalues(c, k) : MeaningOf(d)[k][j] = MeaningOf(c)[k][j]
    <3>1. PICK m : m = Len(c)
      OBVIOUS
    <3>2. /\ m \in Nat /\ m <= Len(c) /\ m <= Len(d)
      BY <1>1, <3>1
    <3>3. \A k \in 1 .. m :
            /\ Base(d, k) = Base(c, k)
            /\ \A j \in DOMAIN Upvalues(c, k) : j \in DOMAIN Upvalues(d, k) /\ Upvalues(d, k)[j] = Upvalues(c, k)[j]
      BY <1>1, <3>1
    <3>4. d \in Seq(FunctionChunk)
      BY <1>1
    <3>. QED
      BY <3>1, <3>2, <3>3, <3>4, MeaningKept
  <2>2. Reached(d, op, index) = MeaningOf(d)[Len(d)][index] /\ Reached(c, op, index) = MeaningOf(c)[Len(c)][index]
    BY <1>4 DEF Reached
  <2>. QED
    BY <1>1, <1>2, <1>4, <2>1, <2>2
<1>5. CASE op \notin {"local", "upvalue"}
  BY <1>5 DEF Reached
<1>. QED
  BY <1>3, <1>4, <1>5

LEMMA RoomForMany ==
  ASSUME function_chunks \in Seq(FunctionChunk), function_chunks # <<>>,
         NEW added \in Seq(TrackedLocal), Room(NamesOf([tracked_locals |-> added])), ~ShadowInFunction,
         NEW j \in 1 .. Len(added), NEW i \in DOMAIN Locals(function_chunks, Len(function_chunks))
  PROVE  Locals(function_chunks, Len(function_chunks))[i].name # added[j].name
<1>1. PICK ns : ns = NamesOf([tracked_locals |-> added])
  OBVIOUS
<1>2. ns = [k \in DOMAIN added |-> added[k].name]
  BY <1>1 DEF NamesOf
<1>3. j \in DOMAIN ns /\ ns[j] = added[j].name
  BY <1>2
<1>4. added[j].name \in ToSet(ns)
  BY <1>3 DEF ToSet
<1>5. ~Contains(NamesOf(Back), added[j].name)
  BY <1>1, <1>4 DEF Room
<1>6. PICK own : own = NamesOf(Back)
  OBVIOUS
<1>7. ~ \E k \in 1 .. Len(own) : own[k] = added[j].name
  BY <1>5, <1>6 DEF Contains
<1>8. Back \in FunctionChunk /\ Back.tracked_locals = Locals(function_chunks, Len(function_chunks))
  BY DEF Back, Locals
<1>9. own \in Seq(Name) /\ i \in 1 .. Len(own) /\ own[i] = Locals(function_chunks, Len(function_chunks))[i].name
  BY <1>6, <1>8, NamesOfFacts
<1>. QED
  BY <1>7, <1>9

LEMMA SuperclassNests ==
  ASSUME Places, NEW n, Superclassing(n)
  PROVE  \E s \in Construct :
           /\ s.kind = "subclass" /\ s.from = Len(EnvOf(function_chunks))
           /\ nesting' \in Seq(Construct)
           /\ \A j \in 1 .. Len(nesting') : nesting'[j].kind = "fun" => nesting'[j].name \in Identifier
           /\ OpenScopes' = Append(OpenScopes, s)
<1>1. Inside = "class" /\ nesting' = [nesting EXCEPT ![Len(nesting)] =
        [nesting[Len(nesting)] EXCEPT !.kind = "subclass", !.from = Len(Env)]]
  BY DEF Superclassing
<1>2. PICK before : before = Front(nesting)
  OBVIOUS
<1>3. /\ nesting # <<>> /\ nesting[Len(nesting)] \in Construct
      /\ Len(nesting) \in Nat \ {0} /\ before \in Seq(Construct)
      /\ nesting = Append(before, nesting[Len(nesting)])
      /\ OpenScopes = ScopesOf(before)
  BY <1>1, <1>2, InsideFacts
<1>4. nesting \in Seq(Construct) /\ Len(EnvOf(function_chunks)) \in Nat
      /\ \A j \in 1 .. Len(nesting) : nesting[j].kind = "fun" => nesting[j].name \in Identifier
  BY SoundFacts DEF Places
<1>5. PICK s : s = [nesting[Len(nesting)] EXCEPT !.kind = "subclass", !.from = Len(Env)]
  OBVIOUS
<1>6. s \in Construct /\ s.kind = "subclass" /\ s.from = Len(EnvOf(function_chunks))
  BY <1>3, <1>4, <1>5 DEF Construct, Env
<1>7. nesting' = [nesting EXCEPT ![Len(nesting)] = s]
  BY <1>1, <1>5
<1>8. PICK more : more = nesting'
  OBVIOUS
<1>9. more \in Seq(Construct) /\ Len(more) = Len(nesting) /\ more[Len(nesting)] = s
      /\ \A j \in 1 .. Len(nesting) : j # Len(nesting) => more[j] = nesting[j]
  BY <1>3, <1>4, <1>6, <1>7, <1>8
<1>10. \A j \in 1 .. Len(more) : more[j].kind = "fun" => more[j].name \in Identifier
  BY <1>4, <1>6, <1>9
<1>11. more = Append(before, s)
  <2>1. Len(before) = Len(nesting) - 1 /\ \A j \in 1 .. Len(nesting) - 1 : before[j] = nesting[j]
    BY <1>2, <1>3, <1>4, FrontLast
  <2>2. Append(before, s) \in Seq(Construct) /\ Len(Append(before, s)) = Len(nesting)
    BY <1>3, <1>6, <2>1
  <2>3. ASSUME NEW j \in 1 .. Len(nesting)
        PROVE  Append(before, s)[j] = more[j]
    <3>1. CASE j = Len(nesting)
      BY <1>3, <1>6, <1>9, <2>1, <3>1
    <3>2. CASE j # Len(nesting)
      <4>1. j \in 1 .. Len(before) /\ j \in 1 .. Len(nesting) - 1
        BY <1>3, <2>1, <3>2
      <4>. QED
        BY <1>3, <1>6, <1>9, <2>1, <3>2, <4>1
    <3>. QED
      BY <3>1, <3>2
  <2>. QED
    BY <1>9, <2>2, <2>3, SeqEqual
<1>12. ScopesOf(more) = Append(ScopesOf(before), s)
  <2>1. s.kind \notin {"var", "class"}
    BY <1>6
  <2>. QED
    BY <1>3, <1>6, <1>11, <2>1, ScopesAppend
<1>. QED
  BY <1>3, <1>6, <1>8, <1>9, <1>10, <1>12 DEF OpenScopes

LEMMA SuperclassingStep ==
  ASSUME Places, NEW n, n # NoName, Superclassing(n)
  PROVE  /\ Places' /\ Keeps /\ Accessed' = Found(n)
         /\ \E s \in Construct : \E ns \in Seq(Name) :
              /\ Len(ns) \in 1 .. 2 /\ s.from = Len(Env)
              /\ OpenScopes' = Append(OpenScopes, s) /\ Env' = Env \o ns
<1>1. PICK c, scopes, depth : c = function_chunks /\ scopes = OpenScopes /\ depth = Len(scopes)
  OBVIOUS
<1>2. /\ Sound(c, scopes, captured) /\ scope_depth = depth /\ status \in {"compiling", "error"}
      /\ scopes \in Seq(Construct) /\ depth \in Nat /\ c \in Seq(FunctionChunk) /\ c # <<>>
      /\ Len(c) \in Nat \ {0} /\ EnvOf(c) \in Seq(Name)
  BY <1>1, SoundFacts DEF Places
<1>3. PICK a : a = Access(n)
  OBVIOUS
<1>4. PICK b : b = a.chunks
  OBVIOUS
<1>5. /\ Sound(b, scopes, captured) /\ EnvOf(b) = EnvOf(c) /\ Alike(c, b)
      /\ Instructions(a) \in Seq(Instruction) /\ AccessedIn(b, Instructions(a)) = Found(n)
      /\ Instructions(a) # <<>> /\ Instructions(a)[1].op = a.op /\ Instructions(a)[1].index = a.index
      /\ a.op = "upvalue" => a.index \in DOMAIN Upvalues(b, Len(b))
  BY <1>1, <1>3, <1>4, AccessStep
<1>6. b \in Seq(FunctionChunk) /\ b # <<>> /\ Len(b) = Len(c) /\ UpvaluesOK(b) /\ NoShadows(b)
  <2>1. b \in Seq(FunctionChunk) /\ b # <<>> /\ UpvaluesOK(b) /\ NoShadows(b)
    BY <1>5, SoundFacts
  <2>. QED
    BY <1>5, <2>1 DEF Alike
<1>7. PICK s \in Construct :
           /\ s.kind = "subclass" /\ s.from = Len(EnvOf(c))
           /\ nesting' \in Seq(Construct)
           /\ \A j \in 1 .. Len(nesting') : nesting'[j].kind = "fun" => nesting'[j].name \in Identifier
           /\ OpenScopes' = Append(scopes, s)
  BY <1>1, SuperclassNests
<1>8. PICK more : more = Append(scopes, s)
  OBVIOUS
<1>9. more # <<>> /\ Len(more) = depth + 1
  BY <1>1, <1>2, <1>8
<1>10. PICK added : added = SuperLocals(depth)
  OBVIOUS
<1>11. /\ added \in Seq(TrackedLocal) /\ Len(added) \in 1 .. 2
       /\ \A j \in 1 .. Len(added) :
            /\ ScopeOf(added[j]) = depth + 1 /\ ~added[j].is_captured
            /\ added[j].depth = 0 => depth = 0 /\ j = 1 /\ added[j].name = NoName
            /\ \A i \in 1 .. Len(added) : added[i].name = added[j].name => i = j
       /\ depth = 0 => added # <<>> /\ added[1].depth = 0
  BY <1>2, <1>10, SuperLocalsFacts
<1>12. PICK d : d = Adding(b, added)
  OBVIOUS
<1>13. /\ function_chunks' = d /\ scope_depth' = depth + 1 /\ emitted' = Instructions(a)
       /\ status' = status /\ captured' = captured /\ Room(NamesOf([tracked_locals |-> added]))
  <2>1. /\ scope_depth' = depth + 1 /\ emitted' = Instructions(a)
        /\ status' = status /\ captured' = captured /\ Room(NamesOf([tracked_locals |-> added]))
    BY <1>2, <1>3, <1>10 DEF Superclassing
  <2>2. function_chunks' = [b EXCEPT ![Len(b)] = [b[Len(b)] EXCEPT !.tracked_locals =
                              b[Len(b)].tracked_locals \o added]]
    BY <1>1, <1>2, <1>3, <1>4, <1>6, <1>10 DEF Superclassing
  <2>3. function_chunks' = d
    BY <1>12, <2>2 DEF Adding
  <2>. QED
    BY <2>1, <2>3
<1>14. /\ Tracks(b, more, d, added) /\ Len(d) = Len(b)
       /\ \A k \in 1 .. Len(b) : DOMAIN Locals(b, k) \subseteq DOMAIN Locals(d, k)
  <2>1. \A j \in 1 .. Len(added) : ScopeOf(added[j]) = Len(more) /\ ~added[j].is_captured
    BY <1>9, <1>11
  <2>2. added \in Seq(TrackedLocal)
    BY <1>11
  <2>. QED
    BY <1>6, <1>9, <1>12, <2>1, <2>2, TracksSeq
<1>15. BackDiffer(b, d)
  BY <1>14 DEF Tracks
<1>16. NoShadows(d)
  <2>1. ASSUME ~ShadowInFunction, NEW j \in 1 .. Len(added)
        PROVE  /\ \A i \in DOMAIN Locals(b, Len(b)) : Locals(b, Len(b))[i].name # added[j].name
               /\ \A i \in 1 .. Len(added) : added[i].name = added[j].name => i = j
    <3>1. ASSUME NEW i \in DOMAIN Locals(b, Len(b))
          PROVE  Locals(b, Len(b))[i].name # added[j].name
      <4>1. Len(c) \in 1 .. Len(c)
        BY <1>2
      <4>2. i \in DOMAIN Locals(c, Len(c)) /\ Locals(b, Len(b))[i].name = Locals(c, Len(c))[i].name
        BY <1>5, <1>6, <4>1 DEF Alike
      <4>3. Locals(c, Len(c))[i].name # added[j].name
        BY <1>1, <1>2, <1>11, <1>13, <2>1, <4>2, RoomForMany
      <4>. QED
        BY <4>2, <4>3
    <3>. QED
      BY <1>11, <3>1
  <2>. QED
    BY <1>6, <1>14, <2>1, TracksInjective
<1>17. Sound(d, more, captured)
  <2>1. \A j \in 1 .. Len(added) :
          added[j].depth = 0 => scopes = <<>> /\ j = 1 /\ added[j].name = NoName
    BY <1>1, <1>2, <1>11
  <2>2. scopes = <<>> => added # <<>> /\ added[1].depth = 0
    BY <1>1, <1>2, <1>11
  <2>3. Tracks(b, Append(scopes, s), d, added) /\ s.from = Len(EnvOf(b)) /\ s.kind = "subclass"
    BY <1>5, <1>7, <1>8, <1>14
  <2>. QED
    BY <1>5, <1>8, <1>16, <2>1, <2>2, <2>3, SuperSound
<1>18. OpenScopes' = more
  BY <1>7, <1>8
<1>19. Places'
  <2>1. emitted' \in Seq(Instruction) /\ scope_depth' = Len(OpenScopes')
    BY <1>5, <1>9, <1>13, <1>18
  <2>. QED
    BY <1>2, <1>7, <1>13, <1>17, <1>18, <2>1 DEF Places
<1>20. Keeps
  <2>1. ASSUME NEW k \in 1 .. Len(c)
        PROVE  DOMAIN Locals(c, k) \subseteq DOMAIN Locals(d, k)
    <3>1. DOMAIN Locals(b, k) = DOMAIN Locals(c, k)
      BY <1>5 DEF Alike
    <3>. QED
      BY <1>6, <1>14, <3>1
  <2>. QED
    BY <1>1, <1>13, <2>1 DEF Keeps
<1>21. Accessed' = Found(n)
  <2>1. UpvaluesOK(d)
    BY <1>17, SoundFacts
  <2>2. Reached(d, a.op, a.index) = Reached(b, a.op, a.index)
    BY <1>5, <1>6, <1>15, <2>1, ReachedStays
  <2>3. AccessedIn(d, Instructions(a)) = AccessedIn(b, Instructions(a))
    BY <1>5, <2>2 DEF AccessedIn
  <2>. QED
    BY <1>5, <1>13, <2>3, AccessedFacts
<1>22. PICK ns : ns = [j \in 1 .. Len(added) |-> added[j].name]
  OBVIOUS
<1>23. ns \in Seq(Name) /\ Len(ns) \in 1 .. 2
  <2>1. \A j \in 1 .. Len(added) : added[j].name \in Name
    BY <1>11, LocalFields
  <2>2. Len(added) \in Nat
    BY <1>11
  <2>3. ns \in Seq(Name) /\ Len(ns) = Len(added)
    BY <1>22, <2>1, <2>2
  <2>. QED
    BY <1>11, <2>3
<1>24. Env' = Env \o ns
  <2>1. EnvOf(d) = EnvOf(b) \o ns
    BY <1>6, <1>14, <1>22, TracksEnv
  <2>. QED
    BY <1>1, <1>5, <1>13, <2>1 DEF Env
<1>25. s.from = Len(Env) /\ OpenScopes' = Append(OpenScopes, s)
  BY <1>1, <1>7 DEF Env
<1>. QED
  BY <1>19, <1>20, <1>21, <1>23, <1>24, <1>25

LEMMA SuperclassStep ==
  ASSUME Places, NEW n, n # NoName, Superclass(n)
  PROVE  /\ Places' /\ Keeps
         /\ \/ Scoping!Rest
            \/ /\ Accessed' = Found(n)
               /\ \E s \in Construct : \E ns \in Seq(Name) :
                    /\ Len(ns) \in 1 .. 2 /\ s.from = Len(Env)
                    /\ OpenScopes' = Append(OpenScopes, s) /\ Env' = Env \o ns
<1>1. CASE Throw
  BY <1>1, ThrowStep
<1>2. CASE ~Throw
  BY <1>2, SuperclassUnfolds, SuperclassingStep
<1>. QED
  BY <1>1, <1>2

LEMMA KeepsCloses ==
  ASSUME Keeps
  PROVE  ClosesCaptured
BY DEF Keeps, ClosesCaptured

LEMMA ParamsFacts ==
  ASSUME NEW params \in Params
  PROVE  params \in Seq(Name) /\ Len(params) \in 0 .. 1
<1>1. CASE params = <<>>
  BY <1>1
<1>2. CASE params \in [1 .. 1 -> Identifier]
  <2>1. params \in [1 .. 1 -> Name]
    BY <1>2, Names
  <2>2. params \in UNION {[1 .. m -> Name] : m \in Nat}
    BY <2>1
  <2>3. params \in Seq(Name)
    BY <2>2, SeqDef
  <2>4. DOMAIN params = 1 .. 1
    BY <2>1
  <2>. QED
    BY <2>3, <2>4
<1>. QED
  BY <1>1, <1>2 DEF Params

LEMMA RestIsStep ==
  ASSUME Scoping!Rest
  PROVE  Scoping!LexicalNext
BY DEF Scoping!LexicalNext

LEMMA DeclareIsStep ==
  ASSUME NEW n \in Name, Scoping!Declare(n)
  PROVE  Scoping!LexicalNext
BY DEF Scoping!LexicalNext

LEMMA UseIsStep ==
  ASSUME NEW n \in Name, Scoping!Use(n)
  PROVE  Scoping!LexicalNext
BY DEF Scoping!LexicalNext

LEMMA NamesOfScope ==
  ASSUME NEW ns \in Seq(Name), Len(ns) \in 0 .. 2
  PROVE  ns \in Scoping!Names
<1>1. ns \in [1 .. Len(ns) -> Name]
  OBVIOUS
<1>. QED
  BY <1>1 DEF Scoping!Names

LEMMA OpenIsStep ==
  ASSUME NEW ns \in Seq(Name), Len(ns) \in 0 .. 2, Scoping!Open(ns)
  PROVE  Scoping!LexicalNext
<1>1. ns \in Scoping!Names
  BY NamesOfScope
<1>. QED
  BY <1>1 DEF Scoping!LexicalNext

LEMMA OpenUsingIsStep ==
  ASSUME NEW n \in Name, NEW ns \in Seq(Name), Len(ns) \in 0 .. 2, Scoping!OpenUsing(n, ns)
  PROVE  Scoping!LexicalNext
<1>1. ns \in Scoping!Names
  BY NamesOfScope
<1>. QED
  BY <1>1 DEF Scoping!LexicalNext

LEMMA CloseIsStep ==
  ASSUME NEW ns, ns = <<>> \/ \E m \in Name : m # NoName /\ ns = <<m>>, Scoping!Close(ns)
  PROVE  Scoping!LexicalNext
<1>1. ns \in {<<>>} \cup [1 .. 1 -> Name]
  <2>1. ASSUME NEW m \in Name, ns = <<m>>
        PROVE  ns \in [1 .. 1 -> Name]
    BY <2>1
  <2>. QED
    BY <2>1
<1>. QED
  BY <1>1 DEF Scoping!LexicalNext

LEMMA FoundIsUsed ==
  ASSUME Places, ~ShadowInFunction, NEW n
  PROVE  Found(n) = Scoping!Innermost(n)
<1>1. function_chunks \in Seq(FunctionChunk) /\ function_chunks # <<>> /\ NoShadows(function_chunks)
  BY SoundFacts DEF Places
<1>2. Found(n) = Max({p \in DOMAIN Env : Env[p] = n} \cup {0})
  BY <1>1, FoundIsInnermost
<1>3. PICK B : B = {p \in DOMAIN Env : Env[p] = n} \cup {0}
  OBVIOUS
<1>4. Max(B) = Scoping!Max(B)
  BY Zenon DEF Max, Scoping!Max
<1>. QED
  BY <1>2, <1>3, <1>4 DEF Scoping!Innermost

(* Every step keeps the state in place, pops no captured local and, where   *)
(* no function may declare a name twice, is a step of lexical scoping.      *)
Refines == ~ShadowInFunction => Scoping!LexicalNext

LEMMA UseRefines ==
  ASSUME Places, NEW n \in Name \ {""}, UseName(n)
  PROVE  Places' /\ ClosesCaptured /\ Refines
<1>1. n # NoName /\ n \in Name
  BY Names, Zenon
<1>2. Places' /\ Keeps
  BY <1>1, UseStep
<1>3. CASE Scoping!Rest
  BY <1>2, <1>3, KeepsCloses, RestIsStep DEF Refines
<1>4. CASE ~Scoping!Rest
  <2>1. Env' = Env /\ OpenScopes' = OpenScopes /\ Accessed' = Found(n)
    BY <1>1, <1>4, UseStep
  <2>2. ASSUME ~ShadowInFunction
        PROVE  Scoping!LexicalNext
    <3>1. Accessed' = Scoping!Innermost(n)
      BY <2>1, <2>2, FoundIsUsed
    <3>2. Scoping!Use(n)
      BY <2>1, <3>1 DEF Scoping!Use
    <3>. QED
      BY <1>1, <3>2, UseIsStep
  <2>. QED
    BY <1>2, <2>2, KeepsCloses DEF Refines
<1>. QED
  BY <1>3, <1>4

LEMMA BlockRefines ==
  ASSUME Places, BeginBlock \/ EndBlock \/ EndSubclass
  PROVE  Places' /\ ClosesCaptured /\ Refines
<1>1. CASE BeginBlock
  <2>1. <<>> \in Seq(Name) /\ Len(<<>>) \in 0 .. 2
    OBVIOUS
  <2>. QED
    BY <1>1, <2>1, BeginBlockStep, KeepsCloses, OpenIsStep DEF Refines
<1>2. CASE EndBlock
  BY <1>2, EndBlockStep, CloseIsStep DEF Refines
<1>3. CASE EndSubclass
  BY <1>3, EndSubclassStep, CloseIsStep DEF Refines
<1>. QED
  BY <1>1, <1>2, <1>3

LEMMA DeclarationRefines ==
  ASSUME Places,
         (\E n \in Identifier : BeginVar(n) \/ BeginClass(n)) \/ EndVar \/ EndClass
  PROVE  Places' /\ ClosesCaptured /\ Refines
<1>1. ASSUME NEW n \in Identifier, BeginVar(n) \/ BeginClass(n)
      PROVE  Places' /\ ClosesCaptured /\ Refines
  <2>1. Places' /\ Keeps /\ (Scoping!Rest \/ Scoping!Declare(n))
    BY <1>1, BeginVarStep, BeginClassStep
  <2>2. n \in Name
    BY Names
  <2>. QED
    BY <2>1, <2>2, KeepsCloses, RestIsStep, DeclareIsStep DEF Refines
<1>2. CASE EndVar
  BY <1>2, EndVarStep, KeepsCloses, RestIsStep DEF Refines
<1>3. CASE EndClass
  BY <1>3, EndClassStep, KeepsCloses, RestIsStep DEF Refines
<1>. QED
  BY <1>1, <1>2, <1>3

LEMMA BeginRefines ==
  ASSUME Places, NEW kind \in FunctionKind, NEW n \in Name, kind = "fun" => n \in Identifier,
         NEW slot0 \in Seq(Name), Len(slot0) \in 0 .. 1, NEW params \in Params,
         BeginFunction(kind, n, slot0, params)
  PROVE  Places' /\ ClosesCaptured /\ Refines
<1>1. PICK names : names = slot0 \o params
  OBVIOUS
<1>2. names \in Seq(Name) /\ Len(names) \in 0 .. 2
  <2>1. params \in Seq(Name) /\ Len(params) \in 0 .. 1
    BY ParamsFacts
  <2>2. names \in Seq(Name) /\ Len(names) = Len(slot0) + Len(params)
    BY <1>1, <2>1, ConcatFacts
  <2>3. PICK p, q : p = Len(slot0) /\ q = Len(params)
    OBVIOUS
  <2>4. p \in 0 .. 1 /\ q \in 0 .. 1
    BY <2>1, <2>3
  <2>5. p + q \in 0 .. 2
    BY <2>4
  <2>. QED
    BY <2>2, <2>3, <2>5
<1>3. Places' /\ Keeps /\ (Scoping!Rest \/ Scoping!Open(names))
  BY <1>1, <1>2, BeginFunctionStep
<1>. QED
  BY <1>2, <1>3, KeepsCloses, RestIsStep, OpenIsStep DEF Refines

LEMMA FunctionRefines ==
  ASSUME Places, NEW params \in Params,
         (\E n \in Identifier : BeginNamed(n, params)) \/ BeginAnonymous(params) \/ BeginMethod(params)
  PROVE  Places' /\ ClosesCaptured /\ Refines
<1>1. ASSUME NEW n \in Identifier, BeginNamed(n, params)
      PROVE  Places' /\ ClosesCaptured /\ Refines
  <2>1. BeginFunction("fun", n, <<n>>, params) /\ "fun" \in FunctionKind /\ n \in Name
    BY <1>1, Names DEF BeginNamed, FunctionKind
  <2>2. PICK slot0 : slot0 = <<n>>
    OBVIOUS
  <2>3. slot0 \in Seq(Name) /\ Len(slot0) \in 0 .. 1
    BY <2>1, <2>2
  <2>. QED
    BY <2>1, <2>2, <2>3, BeginRefines
<1>2. CASE BeginAnonymous(params)
  <2>1. BeginFunction("anonymous", NoName, <<>>, params)
    BY <1>2, Zenon DEF BeginAnonymous, NoName
  <2>2. "anonymous" \in FunctionKind /\ "anonymous" # "fun" /\ NoName \in Name
    BY Names DEF FunctionKind
  <2>3. <<>> \in Seq(Name) /\ Len(<<>>) \in 0 .. 1
    OBVIOUS
  <2>. QED
    BY <2>1, <2>2, <2>3, BeginRefines
<1>3. CASE BeginMethod(params)
  <2>1. BeginFunction("method", NoName, <<"this">>, params)
    BY <1>3, Zenon DEF BeginMethod, NoName
  <2>2. "method" \in FunctionKind /\ "method" # "fun" /\ NoName \in Name /\ "this" \in Name
    BY Names DEF FunctionKind
  <2>3. PICK slot0 : slot0 = <<"this">>
    OBVIOUS
  <2>4. slot0 \in Seq(Name) /\ Len(slot0) \in 0 .. 1
    BY <2>2, <2>3
  <2>. QED
    BY <2>1, <2>2, <2>3, <2>4, BeginRefines
<1>. QED
  BY <1>1, <1>2, <1>3

LEMMA EndRefines ==
  ASSUME Places, EndNamed \/ EndAnonymous \/ EndMethod
  PROVE  Places' /\ ClosesCaptured /\ Refines
<1>1. CASE EndNamed
  <2>1. PICK declared : declared = <<nesting[Len(nesting)].name>>
    OBVIOUS
  <2>2. EndFunction("fun", declared) /\ "fun" \in FunctionKind
    BY <1>1, <2>1 DEF EndNamed, FunctionKind
  <2>3. Inside = "fun"
    BY <2>2 DEF EndFunction
  <2>4. PICK m : m = nesting[Len(nesting)].name
    OBVIOUS
  <2>5. m \in Name /\ m # NoName /\ declared = <<m>>
    BY <2>1, <2>3, <2>4, InsideFacts, Names
  <2>6. Places' /\ Keeps /\ (Scoping!Rest \/ Scoping!Close(<<>>) \/ Scoping!Close(declared))
    BY <2>2, <2>5, EndFunctionStep
  <2>. QED
    BY <2>5, <2>6, KeepsCloses, RestIsStep, CloseIsStep DEF Refines
<1>2. CASE EndAnonymous
  <2>1. EndFunction("anonymous", <<>>) /\ "anonymous" \in FunctionKind
    BY <1>2 DEF EndAnonymous, FunctionKind
  <2>2. Places' /\ Keeps /\ (Scoping!Rest \/ Scoping!Close(<<>>))
    BY <2>1, EndFunctionStep
  <2>. QED
    BY <2>2, KeepsCloses, RestIsStep, CloseIsStep DEF Refines
<1>3. CASE EndMethod
  <2>1. EndFunction("method", <<>>) /\ "method" \in FunctionKind
    BY <1>3 DEF EndMethod, FunctionKind
  <2>2. Places' /\ Keeps /\ (Scoping!Rest \/ Scoping!Close(<<>>))
    BY <2>1, EndFunctionStep
  <2>. QED
    BY <2>2, KeepsCloses, RestIsStep, CloseIsStep DEF Refines
<1>. QED
  BY <1>1, <1>2, <1>3

LEMMA SuperclassRefines ==
  ASSUME Places, NEW n \in Identifier, Superclass(n)
  PROVE  Places' /\ ClosesCaptured /\ Refines
<1>1. n # NoName /\ n \in Name
  BY Names
<1>2. Places' /\ Keeps
  BY <1>1, SuperclassStep
<1>3. CASE Scoping!Rest
  BY <1>2, <1>3, KeepsCloses, RestIsStep DEF Refines
<1>4. CASE ~Scoping!Rest
  <2>1. Accessed' = Found(n)
    BY <1>1, <1>4, SuperclassStep
  <2>2. PICK s \in Construct, ns \in Seq(Name) :
             /\ Len(ns) \in 1 .. 2 /\ s.from = Len(Env)
             /\ OpenScopes' = Append(OpenScopes, s) /\ Env' = Env \o ns
    BY <1>1, <1>4, SuperclassStep
  <2>3. OpenScopes \in Seq(Construct) /\ Len(ns) \in 0 .. 2
    BY <2>2, SoundFacts DEF Places
  <2>4. ASSUME ~ShadowInFunction
        PROVE  Scoping!LexicalNext
    <3>1. Accessed' = Scoping!Innermost(n)
      BY <2>1, <2>4, FoundIsUsed
    <3>2. Scoping!OpenUsing(n, ns)
      BY <2>2, <2>3, <3>1, OpenMaps
    <3>. QED
      BY <1>1, <2>3, <3>2, OpenUsingIsStep
  <2>. QED
    BY <1>2, <2>4, KeepsCloses DEF Refines
<1>. QED
  BY <1>3, <1>4

LEMMA EveryStep ==
  ASSUME Places, CompilerNext
  PROVE  Places' /\ ClosesCaptured /\ Refines
BY UseRefines, BlockRefines, DeclarationRefines, FunctionRefines, EndRefines, SuperclassRefines
   DEF CompilerNext

LEMMA NoStep ==
  ASSUME Places, UNCHANGED compilerVars
  PROVE  Places' /\ ClosesCaptured /\ UNCHANGED Scoping!lexicalVars
<1>1. /\ function_chunks' = function_chunks /\ scope_depth' = scope_depth /\ nesting' = nesting
      /\ emitted' = emitted /\ status' = status /\ captured' = captured
  BY DEF compilerVars
<1>2. OpenScopes' = OpenScopes /\ Env' = Env
  BY <1>1 DEF OpenScopes, Env
<1>3. Places'
  BY <1>1, <1>2 DEF Places
<1>4. ClosesCaptured
  BY <1>1 DEF ClosesCaptured
<1>5. Accessed' = Accessed
  BY <1>1, AccessedFacts
<1>. QED
  BY <1>2, <1>3, <1>4, <1>5 DEF Scoping!lexicalVars

LEMMA InitPlaces ==
  ASSUME CompilerInit
  PROVE  Places /\ OpenScopes = <<>> /\ Env = <<>> /\ Accessed = 0
<1>1. /\ function_chunks = <<NewChunk>> /\ scope_depth = 0 /\ nesting = <<>> /\ emitted = <<>>
      /\ status = "compiling" /\ captured = {}
  BY DEF CompilerInit
<1>2. PICK c : c = function_chunks
  OBVIOUS
<1>3. NewChunk \in FunctionChunk /\ NewChunk.tracked_locals = <<>> /\ NewChunk.tracked_upvalues = <<>>
  <2>1. <<>> \in Seq(TrackedLocal) /\ <<>> \in Seq(TrackedUpvalue)
    OBVIOUS
  <2>. QED
    BY <2>1 DEF NewChunk, FunctionChunk
<1>4. c \in Seq(FunctionChunk) /\ c # <<>> /\ Len(c) = 1 /\ c[1] = NewChunk /\ c = Append(<<>>, NewChunk)
  BY <1>1, <1>2, <1>3
<1>5. \A k \in 1 .. Len(c) : k = 1 /\ Locals(c, k) = <<>> /\ Upvalues(c, k) = <<>>
  BY <1>3, <1>4 DEF Locals, Upvalues
<1>6. NamesOf(NewChunk) = <<>>
  BY <1>3 DEF NamesOf
<1>7. EnvOf(c) = <<>>
  <2>1. <<>> \in Seq(FunctionChunk)
    OBVIOUS
  <2>2. EnvOf(c) = EnvOf(<<>>) \o NamesOf(NewChunk)
    BY <1>3, <1>4, <2>1, EnvAppend
  <2>. QED
    BY <1>6, <2>2, EnvEmpty
<1>8. OpenScopes = <<>>
  <2>1. <<>> \in Seq(Construct)
    OBVIOUS
  <2>2. ScopesOf(<<>>) = <<>>
    <3>1. PICK s : s = [kind |-> "block", name |-> NoName, from |-> 0]
      OBVIOUS
    <3>2. s \in Construct
      BY <3>1, Names DEF Construct
    <3>. QED
      BY <2>1, <3>2, ScopesAppend
  <2>. QED
    BY <1>1, <2>2 DEF OpenScopes
<1>9. Sound(c, <<>>, {})
  <2>1. ScopesFit(c, <<>>)
    <3>1. 1 .. Len(<<>>) = {} /\ Len(<<>>) = 0
      OBVIOUS
    <3>2. Home(<<>>, Len(<<>>)) = 1
      <4>1. {i \in 1 .. Len(<<>>) : <<>>[i].kind \in FunctionKind} = {}
        BY <3>1
      <4>2. Cardinality({}) = 0
        BY FS_EmptySet
      <4>. QED
        BY <4>1, <4>2 DEF Home
    <3>3. <<>> \in Seq(Construct)
      OBVIOUS
    <3>. QED
      BY <1>4, <3>1, <3>2, <3>3 DEF ScopesFit
  <2>2. \A k \in 1 .. Len(c) : DOMAIN Locals(c, k) = {} /\ DOMAIN Upvalues(c, k) = {}
    BY <1>5
  <2>3. LocalsPlaced(c, <<>>)
    BY <2>2 DEF LocalsPlaced
  <2>4. Placeholder(c, <<>>)
    BY <2>2 DEF Placeholder
  <2>5. CapturedMarked(c, {})
    BY <2>2 DEF CapturedMarked
  <2>6. UpvaluesOK(c)
    BY <2>2 DEF UpvaluesOK
  <2>7. NoShadows(c)
    <3>1. \A k \in 1 .. Len(c) : NamesOf(c[k]) = <<>>
      BY <1>4, <1>5, <1>6
    <3>2. IsInjective(<<>>)
      BY DEF IsInjective
    <3>. QED
      BY <3>1, <3>2 DEF NoShadows
  <2>. QED
    BY <2>1, <2>3, <2>4, <2>5, <2>6, <2>7 DEF Sound
<1>10. Places
  <2>1. nesting \in Seq(Construct) /\ emitted \in Seq(Instruction) /\ Len(nesting) = 0 /\ scope_depth = Len(OpenScopes)
    BY <1>1, <1>8
  <2>2. \A j \in 1 .. Len(nesting) : nesting[j].kind = "fun" => nesting[j].name \in Identifier
    BY <2>1
  <2>. QED
    BY <1>1, <1>2, <1>8, <1>9, <2>1, <2>2 DEF Places
<1>11. Env = <<>>
  BY <1>2, <1>7 DEF Env
<1>12. Accessed = 0
  BY <1>1, AccessedFacts DEF AccessedIn
<1>. QED
  BY <1>8, <1>10, <1>11, <1>12

(* The invariant of the compiler's state: the tracked locals of every       *)
(* function lie in the open scopes their depths name, in declaration order, *)
(* the upvalues chain to marked locals, and scope_depth counts the scopes   *)
(* that are open (compiler.cpp:85-228).                                     *)
THEOREM PlacesInvariant == CompilerSpec => []Places
<1>1. CompilerInit => Places
  BY InitPlaces
<1>2. Places /\ [CompilerNext]_compilerVars => Places'
  BY EveryStep, NoStep
<1>. QED
  BY <1>1, <1>2, PTL DEF CompilerSpec

LEMMA PlacesTyped ==
  ASSUME Places
  PROVE  CompilerTypeOK
<1>1. PICK c : c = function_chunks
  OBVIOUS
<1>2. /\ c \in Seq(FunctionChunk) /\ CapturedMarked(c, captured) /\ UpvaluesOK(c)
      /\ EnvOf(c) \in Seq(Name) /\ OpenScopes \in Seq(Construct)
  BY <1>1, SoundFacts DEF Places
<1>3. ASSUME NEW k \in Functions
      PROVE  /\ function_chunks[k].tracked_locals \in Seq(TrackedLocal)
             /\ function_chunks[k].tracked_upvalues \in Seq(TrackedUpvalue)
             /\ \A u \in ToSet(function_chunks[k].tracked_upvalues) :
                  /\ k > 1
                  /\ u.index \in IF u.direct THEN DOMAIN function_chunks[k - 1].tracked_locals
                                 ELSE DOMAIN function_chunks[k - 1].tracked_upvalues
  <2>1. k \in 1 .. Len(c)
    BY <1>1, <1>2 DEF Functions
  <2>2. function_chunks[k] \in FunctionChunk
    BY <1>1, <1>2, <2>1
  <2>3. ASSUME NEW u \in ToSet(function_chunks[k].tracked_upvalues)
        PROVE  /\ k > 1
               /\ u.index \in IF u.direct THEN DOMAIN function_chunks[k - 1].tracked_locals
                              ELSE DOMAIN function_chunks[k - 1].tracked_upvalues
    <3>1. PICK j \in DOMAIN Upvalues(c, k) : Upvalues(c, k)[j] = u
      BY <1>1 DEF ToSet, Upvalues
    <3>2. UpvalueOK(c, k, u)
      BY <1>2, <2>1, <3>1 DEF UpvaluesOK
    <3>. QED
      BY <1>1, <3>2 DEF UpvalueOK, Locals, Upvalues
  <2>. QED
    BY <2>2, <2>3, NamesOfFacts
<1>4. scope_depth \in Nat
  BY <1>2 DEF Places
<1>5. captured \subseteq DOMAIN Env
  BY <1>1, <1>2 DEF CapturedMarked, Env
<1>6. nesting \in Seq(Construct) /\ emitted \in Seq(Instruction) /\ status \in {"compiling", "error"}
  BY DEF Places
<1>. QED
  BY <1>3, <1>4, <1>5, <1>6 DEF CompilerTypeOK

(* Every tracked upvalue names an entry that exists in the function around  *)
(* it, the script has none, and scope_depth never goes below 0              *)
(* (compiler.cpp:128-228).                                                  *)
THEOREM CompilerTypes == CompilerSpec => []CompilerTypeOK
BY PlacesInvariant, PlacesTyped, PTL

LEMMA PlacesInjective ==
  ASSUME Places
  PROVE  OneUpvaluePerVariable
<1>1. PICK c : c = function_chunks
  OBVIOUS
<1>2. c \in Seq(FunctionChunk) /\ UpvaluesOK(c)
  BY <1>1, SoundFacts DEF Places
<1>3. ASSUME NEW k \in Functions
      PROVE  IsInjective(UpvalueMeans[k])
  <2>1. k \in 1 .. Len(c)
    BY <1>1, <1>2 DEF Functions
  <2>2. PICK means : means = UpvalueMeans[k]
    OBVIOUS
  <2>3. DOMAIN means = DOMAIN Upvalues(c, k)
    BY <1>1, <1>2, <2>1, <2>2, MeaningUnfolds DEF UpvalueMeans
  <2>4. \A i, j \in DOMAIN Upvalues(c, k) : means[i] = means[j] => i = j
    BY <1>1, <1>2, <2>1, <2>2, MeaningInjective DEF UpvalueMeans
  <2>. QED
    BY <2>2, <2>3, <2>4 DEF IsInjective
<1>. QED
  BY <1>3 DEF OneUpvaluePerVariable

(* In a function two upvalues mean two variables: the search for a tracked  *)
(* upvalue before one is added finds it by whichever chain it was reached   *)
(* (compiler.cpp:183-220).                                                  *)
THEOREM OneUpvalue == CompilerSpec => []OneUpvaluePerVariable
BY PlacesInvariant, PlacesInjective, PTL

(* What CapturedAreClosed says of a step. *)
CapturedClose ==
  \A k \in Functions \cap DOMAIN function_chunks' :
    \A i \in DOMAIN function_chunks[k].tracked_locals :
      Position(function_chunks, k, i) \in captured
        /\ i \notin DOMAIN function_chunks'[k].tracked_locals
      => [op |-> "close_upvalue", index |-> i] \in ToSet(emitted')

LEMMA ClosesMeans ==
  ASSUME Places, Places', ClosesCaptured
  PROVE  CapturedClose
<1>1. function_chunks \in Seq(FunctionChunk) /\ function_chunks' \in Seq(FunctionChunk)
  <2>1. function_chunks \in Seq(FunctionChunk)
    BY SoundFacts DEF Places
  <2>2. PICK d, scopes, cap : d = function_chunks' /\ scopes = OpenScopes' /\ cap = captured'
    OBVIOUS
  <2>3. Sound(d, scopes, cap)
    BY <2>2 DEF Places
  <2>4. d \in Seq(FunctionChunk)
    BY <2>3, SoundFacts
  <2>. QED
    BY <2>1, <2>2, <2>4
<1>2. ASSUME NEW k \in Functions \cap DOMAIN function_chunks',
             NEW i \in DOMAIN function_chunks[k].tracked_locals,
             Position(function_chunks, k, i) \in captured,
             i \notin DOMAIN function_chunks'[k].tracked_locals
      PROVE  [op |-> "close_upvalue", index |-> i] \in ToSet(emitted')
  <2>1. k \in 1 .. Len(function_chunks) /\ k \in 1 .. Len(function_chunks')
    BY <1>1 DEF Functions
  <2>2. Base(function_chunks, k) + i \in captured
    BY <1>2, PositionIsBase
  <2>3. i \in DOMAIN Locals(function_chunks, k) /\ i \notin DOMAIN Locals(function_chunks', k)
    BY <1>2 DEF Locals
  <2>. QED
    BY <2>1, <2>2, <2>3 DEF ClosesCaptured
<1>. QED
  BY <1>2 DEF CapturedClose

(* No captured local leaves its scope with a pop, whichever function        *)
(* captured it and however many others did: the scope's end emits           *)
(* close_upvalue for it (compiler.cpp:128-139, 178).                        *)
THEOREM ClosedWhenCaptured == CompilerSpec => CapturedAreClosed
<1>1. Places /\ Places' /\ [CompilerNext]_compilerVars => CapturedClose
  BY EveryStep, NoStep, ClosesMeans
<1>. QED
  BY <1>1, PlacesInvariant, PTL DEF CompilerSpec, CapturedAreClosed, CapturedClose

(* Where no function declares a name twice, the compiler implements lexical *)
(* scoping: every step of it declares in the innermost scope, opens one,    *)
(* closes one with exactly its own declarations, or uses the innermost      *)
(* declaration of a name (compiler.cpp:85-228).                             *)
THEOREM LexicalScoping ==
  ASSUME ~ShadowInFunction
  PROVE  CompilerSpec => ImplementsLexicalScopes
<1>1. CompilerInit => Scoping!LexicalInit
  <2>1. ASSUME CompilerInit
        PROVE  Scoping!LexicalInit
    <3>1. Env = <<>> /\ OpenScopes = <<>> /\ Accessed = 0
      BY <2>1, InitPlaces
    <3>2. [i \in DOMAIN OpenScopes |-> OpenScopes[i].from] = <<>>
      BY <3>1
    <3>. QED
      BY <3>1, <3>2 DEF Scoping!LexicalInit
  <2>. QED
    BY <2>1
<1>2. Places /\ [CompilerNext]_compilerVars => [Scoping!LexicalNext]_(Scoping!lexicalVars)
  BY EveryStep, NoStep DEF Refines
<1>. QED
  BY <1>1, <1>2, PlacesInvariant, PTL DEF CompilerSpec, ImplementsLexicalScopes, Scoping!LexicalSpec

(* What UsesInnermost says of a step. *)
UsedInnermost ==
  \A n \in Name \ {""} : UseName(n) /\ status' = "compiling" => Accessed' = Scoping!Innermost(n)

LEMMA UseIsInnermost ==
  ASSUME Places, ~ShadowInFunction
  PROVE  UsedInnermost
<1>1. ASSUME NEW n \in Name \ {""}, UseName(n), status' = "compiling"
      PROVE  Accessed' = Scoping!Innermost(n)
  <2>1. n # NoName
    BY Names, Zenon
  <2>2. Accessed' = Found(n)
    BY <1>1, <2>1, UseStep
  <2>. QED
    BY <2>2, FoundIsUsed
<1>. QED
  BY <1>1 DEF UsedInnermost

(* There, the instruction for a use of a name reaches the innermost         *)
(* variable of that name through the chain of upvalues, however deep the    *)
(* function that uses it (compiler.cpp:85-128, 146-228); the run with       *)
(* ShadowInFunction shows that the hypothesis is needed.                    *)
THEOREM InnermostUsed ==
  ASSUME ~ShadowInFunction
  PROVE  CompilerSpec => UsesInnermost
<1>1. Places => UsedInnermost
  BY UseIsInnermost
<1>. QED
  BY <1>1, PlacesInvariant, PTL DEF UsesInnermost, UsedInnermost
=============================================================================
