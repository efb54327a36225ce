----------------------------- MODULE Sums_proofs -----------------------------
(***************************************************************************)
(* Machine-checked lemmas about SumFunction, which EgldTotal, TokenTotal   *)
(* and DeltaSum are made of, about recursive functions on numbers and      *)
(* sequences put together, and the two forms of induction they need.       *)
(* They are stated about sets, of numbers and of subsets, since the        *)
(* library's induction theorems are about operators, which no backend      *)
(* instantiates; WFMin gives the least counterexample.                     *)
(***************************************************************************)
EXTENDS Integers, SequencesExt, SequenceTheorems, FiniteSets, FiniteSetTheorems, WellFoundedInduction, TLAPS

----------------------------------------------------------------------------
(* Induction *)

\* A set of numbers has a least one.
LEMMA LeastIndex ==
    ASSUME NEW S \in SUBSET Nat, S # {}
    PROVE  \E i \in S : \A j \in S : i <= j
<1> DEFINE less == OpToRel(<, Nat)
<1>1. \A i, j \in S : <<j, i>> \in less <=> j < i
  BY DEF OpToRel
<1>2. IsWellFoundedOn(less, Nat)
  BY NatLessThanWellFounded
<1> HIDE DEF less
<1>3. \E i \in S : \A j \in S : ~(<<j, i>> \in less)
  BY <1>2, WFMin
<1>4. PICK i \in S : \A j \in S : ~(<<j, i>> \in less)
  BY <1>3
<1>5. \A j \in S : ~(j < i)
  BY <1>1, <1>4
<1>6. i \in Nat /\ \A j \in S : j \in Nat
  OBVIOUS
<1> QED BY <1>5, <1>6

\* Induction over the numbers, about a set of them.
LEMMA NumbersBelow ==
    ASSUME NEW T, 0 \in T, \A n \in Nat : n \in T => n + 1 \in T
    PROVE  Nat \subseteq T
<1> SUFFICES ASSUME Nat \ T # {} PROVE FALSE
  OBVIOUS
<1>1. PICK n \in Nat \ T : \A m \in Nat \ T : n <= m
  BY LeastIndex
<1>2. n # 0 /\ n - 1 \in Nat /\ n = (n - 1) + 1
  BY <1>1
<1>3. n - 1 \notin T
  BY <1>2
<1>4. n <= n - 1
  BY <1>1, <1>2, <1>3
<1> QED BY <1>2, <1>4

\* Induction over the subsets of a finite set, about a family of them.
LEMMA FamilyOfSubsets ==
    ASSUME NEW S, IsFiniteSet(S), NEW F, {} \in F,
           \A T \in SUBSET S : \A x \in S \ T : T \in F => T \union {x} \in F
    PROVE  SUBSET S \subseteq F
<1> DEFINE N == {n \in Nat : \A T \in SUBSET S : Cardinality(T) = n => T \in F}
<1>1. \A T \in SUBSET S : IsFiniteSet(T) /\ Cardinality(T) \in Nat
  BY FS_Subset, FS_CardinalityType
<1>2. 0 \in N
  BY <1>1, FS_EmptySet
<1>3. ASSUME NEW n \in Nat, n \in N PROVE n + 1 \in N
  <2> SUFFICES ASSUME NEW T \in SUBSET S, Cardinality(T) = n + 1 PROVE T \in F
    OBVIOUS
  <2> IsFiniteSet(T)
    BY <1>1
  <2>1. T # {}
    BY FS_EmptySet
  <2>2. PICK x \in T : TRUE
    BY <2>1
  <2>3. T \ {x} \in SUBSET S /\ Cardinality(T \ {x}) = n
    <3>1. Cardinality(T \ {x}) = Cardinality(T) - 1
      BY FS_RemoveElement
    <3> QED BY <3>1
  <2>4. T \ {x} \in F
    BY <1>3, <2>3
  <2>5. x \in S \ (T \ {x}) /\ T = (T \ {x}) \union {x}
    OBVIOUS
  <2>6. (T \ {x}) \union {x} \in F
    BY <2>3, <2>4, <2>5
  <2> QED BY <2>5, <2>6
<1> HIDE DEF N
<1>4. Nat \subseteq N
  BY <1>2, <1>3, NumbersBelow
<1> QED BY <1>1, <1>4 DEF N

----------------------------------------------------------------------------
(* Recursive functions and sequences *)

\* g begins with x0, and step gives each value from the one before.
Iterates(g, X, x0, step, N) ==
    g \in [0..N -> X] /\ g[0] = x0 /\ \A n \in 1..N : g[n] = step[n][g[n - 1]]

\* A function on numbers may be given by what follows each of its values.
LEMMA RecursiveFunction ==
    ASSUME NEW X, NEW x0 \in X, NEW step \in [Nat -> [X -> X]], NEW N \in Nat
    PROVE  \E g : Iterates(g, X, x0, step, N)
<1> DEFINE Follows(g, m) == g[0] = x0 /\ \A n \in 1..m : g[n] = step[n][g[n - 1]]
           T == {m \in Nat : \E g \in [0..m -> X] : Follows(g, m)}
<1>1. 0 \in T
  <2>1. [n \in 0..0 |-> x0] \in [0..0 -> X] /\ Follows([n \in 0..0 |-> x0], 0)
    OBVIOUS
  <2> QED BY <2>1
<1>2. ASSUME NEW m \in Nat, m \in T PROVE m + 1 \in T
  <2>1. PICK g \in [0..m -> X] : Follows(g, m)
    BY <1>2
  <2> DEFINE h == [n \in 0..(m + 1) |-> IF n = m + 1 THEN step[n][g[m]] ELSE g[n]]
  <2>2. h \in [0..(m + 1) -> X]
    OBVIOUS
  <2>3. Follows(h, m + 1)
    <3>1. h[0] = x0
      BY <2>1
    <3>2. ASSUME NEW n \in 1..(m + 1) PROVE h[n] = step[n][h[n - 1]]
      <4>1. CASE n = m + 1
        BY <4>1
      <4>2. CASE n # m + 1
        BY <2>1, <4>2
      <4> QED BY <4>1, <4>2
    <3> QED BY <3>1, <3>2
  <2> HIDE DEF h
  <2>4. \E k \in [0..(m + 1) -> X] : Follows(k, m + 1)
    BY <2>2, <2>3
  <2> QED BY <2>4
<1> HIDE DEF T
<1>3. N \in T
  BY <1>1, <1>2, NumbersBelow
<1> QED BY <1>3 DEF T, Iterates

\* FlattenSeq is the last of the partial concatenations.
LEMMA FlattenIsLast ==
    ASSUME NEW V, NEW seqs \in Seq(Seq(V)), NEW g \in [0..Len(seqs) -> Seq(V)],
           g[0] = <<>>, \A n \in 1..Len(seqs) : g[n] = g[n - 1] \o seqs[n]
    PROVE  FlattenSeq(seqs) = g[Len(seqs)]
<1>1. CASE Len(seqs) = 0
  BY <1>1 DEF FlattenSeq
<1>2. CASE Len(seqs) # 0
  <2> DEFINE L == Len(seqs)
             Def(h) == h = [i \in 1..L |-> IF i = 1 THEN seqs[i] ELSE h[i - 1] \o seqs[i]]
             f == CHOOSE h : Def(h)
             T == {n \in Nat : n \in 1..L => f[n] = g[n]}
  <2>1. FlattenSeq(seqs) = f[L]
    BY <1>2 DEF FlattenSeq
  <2>2. L \in Nat /\ L >= 1
    BY <1>2
  <2>3. \A n \in 1..L : seqs[n] \in Seq(V)
    OBVIOUS
  <2>4. g[1] = seqs[1]
    <3>1. 1 \in 1..Len(seqs) /\ 1 - 1 = 0
      BY <2>2
    <3>2. g[1] = g[1 - 1] \o seqs[1] /\ seqs[1] \in Seq(V)
      BY <2>3, <3>1
    <3>3. <<>> \o seqs[1] = seqs[1]
      BY <3>2, ConcatEmptySeq
    <3>4. g[1 - 1] = <<>>
      BY <3>1
    <3> QED BY <3>2, <3>3, <3>4
  <2> HIDE DEF L
  <2>5. Def([n \in 1..L |-> g[n]])
    <3>1. ASSUME NEW n \in 1..L, n # 1
          PROVE  n - 1 \in 1..L /\ g[n] = g[n - 1] \o seqs[n]
      <4>1. n - 1 \in 1..L
        BY <2>2, <3>1
      <4>2. \A i \in 1..L : g[i] = g[i - 1] \o seqs[i]
        BY DEF L
      <4> QED BY <4>1, <4>2
    <3> QED BY <2>4, <3>1
  <2>6. Def(f)
    BY <2>5
  <2> HIDE DEF f
  <2>7. 0 \in T
    OBVIOUS
  <2>8. ASSUME NEW n \in Nat, n \in T PROVE n + 1 \in T
    <3> SUFFICES ASSUME n + 1 \in 1..L PROVE f[n + 1] = g[n + 1]
      OBVIOUS
    <3>1. CASE n = 0
      BY <2>4, <2>6, <3>1
    <3>2. CASE n # 0
      <4>1. n \in 1..L /\ n + 1 # 1 /\ (n + 1) - 1 = n
        BY <2>2, <3>2
      <4>2. f[n + 1] = f[n] \o seqs[n + 1]
        BY <2>6, <4>1
      <4>3. g[n + 1] = g[n] \o seqs[n + 1]
        BY <4>1 DEF L
      <4> QED BY <2>8, <4>1, <4>2, <4>3
    <3> QED BY <3>1, <3>2
  <2> HIDE DEF T
  <2>9. L \in T
    BY <2>2, <2>7, <2>8, NumbersBelow
  <2> QED BY <2>1, <2>2, <2>9 DEF T, L
<1> QED BY <1>1, <1>2

\* Sequences are put together to a sequence.
LEMMA FlattenType ==
    ASSUME NEW V, NEW seqs \in Seq(Seq(V))
    PROVE  FlattenSeq(seqs) \in Seq(V)
<1> DEFINE L == Len(seqs)
           X == Seq(V)
           step == [n \in Nat |-> [x \in X |-> IF n \in 1..L THEN x \o seqs[n] ELSE x]]
<1>1. L \in Nat /\ \A n \in 1..L : seqs[n] \in Seq(V)
  BY LenProperties, ElementOfSeq
<1> HIDE DEF L
<1>2. step \in [Nat -> [X -> X]]
  <2>1. ASSUME NEW n \in 1..L, NEW x \in X PROVE x \o seqs[n] \in X
    BY <1>1, ConcatProperties
  <2> QED BY <2>1
<1>3. <<>> \in X
  BY EmptySeq
<1>4. \A n \in 1..L : \A x \in X : step[n][x] = x \o seqs[n]
  <2>1. \A n \in 1..L : n \in Nat
    BY <1>1
  <2> HIDE DEF X
  <2> QED BY <2>1
<1> HIDE DEF step, X
<1>5. PICK g : Iterates(g, X, <<>>, step, L)
  BY <1>1, <1>2, <1>3, RecursiveFunction
<1>6. g \in [0..L -> X] /\ g[0] = <<>> /\ \A n \in 1..L : g[n] = step[n][g[n - 1]]
  BY <1>5 DEF Iterates
<1>7. \A n \in 1..L : g[n - 1] \in X
  BY <1>1, <1>6
<1>8. \A n \in 1..L : g[n] = g[n - 1] \o seqs[n]
  BY <1>4, <1>6, <1>7
<1>9. FlattenSeq(seqs) = g[L]
  BY <1>6, <1>8, FlattenIsLast DEF L, X
<1> QED BY <1>1, <1>6, <1>9 DEF X

\* Lists of one element each are flattened to the list of these elements.
LEMMA FlattenSingletons ==
    ASSUME NEW V, NEW l \in Seq(V)
    PROVE  FlattenSeq([i \in DOMAIN l |-> <<l[i]>>]) = l
<1> DEFINE parts == [i \in DOMAIN l |-> <<l[i]>>]
           g == [n \in 0..Len(l) |-> [i \in 1..n |-> l[i]]]
<1>1. DOMAIN l = 1..Len(l) /\ Len(l) \in Nat /\ \A i \in 1..Len(l) : l[i] \in V
  OBVIOUS
<1>2. parts \in Seq(Seq(V)) /\ Len(parts) = Len(l)
  <2>1. parts \in [1..Len(l) -> Seq(V)]
    BY <1>1
  <2> QED BY <1>1, <2>1
<1>3. ASSUME NEW n \in 0..Len(l) PROVE [i \in 1..n |-> l[i]] \in Seq(V)
  <2>1. [i \in 1..n |-> l[i]] \in [1..n -> V]
    BY <1>1
  <2> QED BY <2>1
<1>4. g \in [0..Len(parts) -> Seq(V)] /\ g[0] = <<>>
  <2>1. [i \in 1..0 |-> l[i]] = <<>>
    OBVIOUS
  <2> QED BY <1>1, <1>2, <1>3, <2>1
<1>5. ASSUME NEW n \in 1..Len(parts) PROVE g[n] = g[n - 1] \o parts[n]
  <2>1. n \in 1..Len(l) /\ n - 1 \in 0..Len(l) /\ n \in 0..Len(l) /\ n \in Nat
    BY <1>1, <1>2
  <2>2. g[n] = [i \in 1..n |-> l[i]] /\ g[n - 1] = [i \in 1..(n - 1) |-> l[i]] /\ parts[n] = <<l[n]>>
    BY <1>1, <2>1
  <2>3. [i \in 1..(n - 1) |-> l[i]] \in Seq(V) /\ Len([i \in 1..(n - 1) |-> l[i]]) = n - 1 /\ <<l[n]>> \in Seq(V)
    BY <1>1, <1>3, <2>1
  <2> HIDE DEF g, parts
  <2>4. [i \in 1..(n - 1) |-> l[i]] \o <<l[n]>> = [i \in 1..n |-> l[i]]
    BY <2>1, <2>3
  <2> QED BY <2>2, <2>4
<1>6. g[Len(l)] = l
  BY <1>1
<1> HIDE DEF g, parts
<1>7. FlattenSeq(parts) = g[Len(parts)]
  BY <1>2, <1>4, <1>5, FlattenIsLast
<1> QED BY <1>2, <1>6, <1>7 DEF parts

----------------------------------------------------------------------------
(* Sums over finite sets *)

\* One step of the fold behind SumFunction.
SumStep(f, g, s) == IF s = {} THEN 0 ELSE LET x == CHOOSE x \in s : TRUE IN f[x] + g[s \ {x}]

\* SumFunction is what a recursive function over the parts of the domain gives.
LEMMA SumDef ==
    ASSUME NEW f
    PROVE  SumFunction(f) = (CHOOSE g : g = [s \in SUBSET DOMAIN f |-> SumStep(f, g, s)])[DOMAIN f]
  BY DEF SumFunction, SumFunctionOnSet, FoldFunctionOnSet, MapThenFoldSet, SumStep

\* The recursive function CHOOSE is to pick exists.
LEMMA SumExists ==
    ASSUME NEW f, IsFiniteSet(DOMAIN f)
    PROVE  \E g : g = [s \in SUBSET DOMAIN f |-> SumStep(f, g, s)]
<1> DEFINE D == DOMAIN f
           Small(n) == {s \in SUBSET D : Cardinality(s) <= n}
           N == {n \in Nat : \E g : g = [s \in Small(n) |-> SumStep(f, g, s)]}
<1>1. \A T \in SUBSET D : IsFiniteSet(T) /\ Cardinality(T) \in Nat /\ Cardinality(T) <= Cardinality(D)
  BY FS_Subset, FS_CardinalityType
<1>2. ASSUME NEW s \in SUBSET D, s # {}
      PROVE  LET x == CHOOSE x \in s : TRUE
             IN  x \in s /\ s \ {x} \in SUBSET D /\ Cardinality(s \ {x}) = Cardinality(s) - 1
  BY <1>1, <1>2, FS_RemoveElement
<1>3. 0 \in N
  <2> DEFINE g == [s \in Small(0) |-> 0]
  <2>1. \A s \in Small(0) : s = {}
    BY <1>1, FS_EmptySet
  <2>2. g = [s \in Small(0) |-> SumStep(f, g, s)]
    BY <2>1 DEF SumStep
  <2> QED BY <2>2
<1>4. ASSUME NEW n \in Nat, n \in N PROVE n + 1 \in N
  <2>1. PICK h : h = [s \in Small(n) |-> SumStep(f, h, s)]
    BY <1>4
  <2> DEFINE g == [s \in Small(n + 1) |-> IF s \in Small(n) THEN h[s] ELSE SumStep(f, h, s)]
  <2>2. ASSUME NEW s \in Small(n + 1) PROVE g[s] = SumStep(f, g, s)
    <3>1. CASE s = {}
      BY <2>1, <3>1 DEF SumStep
    <3>2. CASE s # {}
      <4> DEFINE x == CHOOSE x \in s : TRUE
      <4>1. s \ {x} \in Small(n)
        BY <1>1, <1>2, <3>2
      <4>2. g[s \ {x}] = h[s \ {x}]
        <5>1. Small(n) \subseteq Small(n + 1)
          BY <1>1
        <5> QED BY <4>1, <5>1
      <4>3. g[s] = SumStep(f, h, s)
        BY <2>1
      <4> HIDE DEF g
      <4> QED BY <3>2, <4>2, <4>3 DEF SumStep
    <3> QED BY <3>1, <3>2
  <2>3. g = [s \in Small(n + 1) |-> SumStep(f, g, s)]
    <3>1. g = [s \in Small(n + 1) |-> g[s]]
      OBVIOUS
    <3> HIDE DEF g
    <3> QED BY <2>2, <3>1
  <2> HIDE DEF g
  <2> QED BY <2>3
<1> HIDE DEF N
<1>5. Nat \subseteq N
  BY <1>3, <1>4, NumbersBelow
<1>6. Cardinality(D) \in Nat
  BY <1>1
<1>7. Small(Cardinality(D)) = SUBSET D
  BY <1>1
<1> HIDE DEF Small
<1> QED BY <1>5, <1>6, <1>7 DEF N

\* The sums of all parts of a function.  Whichever element CHOOSE takes first,
\* any other could be taken.
IsSums(g, f) ==
    /\ g \in [SUBSET DOMAIN f -> Int]
    /\ g[{}] = 0
    /\ \A s \in SUBSET DOMAIN f : \A x \in s : g[s] = f[x] + g[s \ {x}]

\* SumFunction is such a sum.
LEMMA SumsExist ==
    ASSUME NEW f, IsFiniteSet(DOMAIN f), \A x \in DOMAIN f : f[x] \in Int
    PROVE  \E g : IsSums(g, f) /\ SumFunction(f) = g[DOMAIN f]
<1> DEFINE D == DOMAIN f
           g == CHOOSE g : g = [s \in SUBSET DOMAIN f |-> SumStep(f, g, s)]
           First(s) == CHOOSE x \in s : TRUE
<1>1. g = [s \in SUBSET D |-> SumStep(f, g, s)]
  BY SumExists
<1>2. SumFunction(f) = g[D]
  BY SumDef
<1> HIDE DEF g
<1>3. \A s \in SUBSET D : g[s] = SumStep(f, g, s)
  BY <1>1
<1>4. g[{}] = 0
  BY <1>3 DEF SumStep
<1>5. ASSUME NEW s \in SUBSET D, s # {}
      PROVE  First(s) \in s /\ g[s] = f[First(s)] + g[s \ {First(s)}]
  BY <1>3, <1>5 DEF SumStep
<1> HIDE DEF First
<1>6. \A T \in SUBSET D : IsFiniteSet(T) /\ Cardinality(T) \in Nat
  BY FS_Subset, FS_CardinalityType
<1>7. \A s \in SUBSET D : \A x \in s : Cardinality(s \ {x}) = Cardinality(s) - 1 /\ s \ {x} \in SUBSET D
  BY <1>6, FS_RemoveElement
<1> DEFINE Good(s) == g[s] \in Int /\ \A x \in s : g[s] = f[x] + g[s \ {x}]
           N == {n \in Nat : \A s \in SUBSET D : Cardinality(s) <= n => Good(s)}
<1>8. 0 \in N
  BY <1>4, <1>6, FS_EmptySet
<1>9. ASSUME NEW n \in Nat, n \in N PROVE n + 1 \in N
  <2>0. \A s \in SUBSET D : Cardinality(s) <= n => Good(s)
    BY <1>9
  <2> SUFFICES ASSUME NEW s \in SUBSET D, Cardinality(s) = n + 1 PROVE Good(s)
    <3> HIDE DEF Good
    <3>1. \A s \in SUBSET D : Cardinality(s) <= n + 1 => Cardinality(s) <= n \/ Cardinality(s) = n + 1
      BY <1>6
    <3> QED BY <2>0, <3>1
  <2>1. \A x \in s : s \ {x} \in SUBSET D /\ Good(s \ {x})
    <3> HIDE DEF Good
    <3> QED BY <1>7, <2>0
  <2>2. s # {}
    BY FS_EmptySet
  <2> DEFINE c == First(s)
  <2>3. c \in s /\ g[s] = f[c] + g[s \ {c}]
    BY <1>5, <2>2
  <2>4. \A x \in s : f[x] \in Int /\ g[s \ {x}] \in Int
    BY <2>1
  <2>5. g[s] \in Int
    <3>1. f[c] \in Int /\ g[s \ {c}] \in Int
      BY <2>3, <2>4
    <3> QED BY <2>3, <3>1
  <2>6. ASSUME NEW x \in s, x # c PROVE g[s] = f[x] + g[s \ {x}]
    <3> DEFINE r == g[(s \ {c}) \ {x}]
    <3>1. (s \ {c}) \ {x} = (s \ {x}) \ {c} /\ x \in s \ {c} /\ c \in s \ {x}
      BY <2>3, <2>6
    <3>2. g[s \ {c}] = f[x] + r /\ g[s \ {x}] = f[c] + r
      BY <2>1, <2>3, <3>1
    <3>3. (s \ {c}) \ {x} \in SUBSET D /\ Cardinality((s \ {c}) \ {x}) = n - 1
      BY <1>7, <2>3, <3>1
    <3>4. r \in Int
      BY <2>0, <3>3
    <3> HIDE DEF r
    <3> QED BY <2>3, <2>4, <3>2, <3>4
  <2> QED BY <2>3, <2>5, <2>6
<1> HIDE DEF N
<1>10. Nat \subseteq N
  BY <1>8, <1>9, NumbersBelow
<1>11. \A s \in SUBSET D : Good(s)
  <2> SUFFICES ASSUME NEW s \in SUBSET D PROVE Good(s)
    OBVIOUS
  <2>1. Cardinality(s) \in N /\ Cardinality(s) <= Cardinality(s)
    BY <1>6, <1>10
  <2> QED BY <2>1 DEF N
<1>12. g \in [SUBSET D -> Int]
  BY <1>1, <1>11
<1> QED BY <1>2, <1>4, <1>11, <1>12 DEF IsSums

\* Functions with finitely many numbers in them.
Summable(f) == IsFiniteSet(DOMAIN f) /\ \A x \in DOMAIN f : f[x] \in Int

\* A sum of numbers is a number.
LEMMA SumType == ASSUME NEW f, Summable(f) PROVE SumFunction(f) \in Int
<1>1. PICK g : IsSums(g, f) /\ SumFunction(f) = g[DOMAIN f]
  BY SumsExist DEF Summable
<1> QED BY <1>1 DEF IsSums

\* Nothing sums to nothing.
LEMMA SumEmpty == ASSUME NEW f, DOMAIN f = {} PROVE SumFunction(f) = 0
<1>1. Summable(f)
  BY FS_EmptySet DEF Summable
<1>2. PICK g : IsSums(g, f) /\ SumFunction(f) = g[DOMAIN f]
  BY <1>1, SumsExist DEF Summable
<1> QED BY <1>2 DEF IsSums

\* The sum of two functions sums to the sum of their sums.
LEMMA SumAdd ==
    ASSUME NEW f, NEW g, NEW h, Summable(f), Summable(g),
           DOMAIN g = DOMAIN f, DOMAIN h = DOMAIN f,
           \A x \in DOMAIN f : h[x] = f[x] + g[x]
    PROVE  SumFunction(h) = SumFunction(f) + SumFunction(g)
<1> DEFINE D == DOMAIN f
<1>1. Summable(h)
  BY DEF Summable
<1>2. PICK F : IsSums(F, f) /\ SumFunction(f) = F[D]
  BY SumsExist DEF Summable
<1>3. PICK G : IsSums(G, g) /\ SumFunction(g) = G[D]
  BY SumsExist DEF Summable
<1>4. PICK H : IsSums(H, h) /\ SumFunction(h) = H[D]
  BY <1>1, SumsExist DEF Summable
<1> DEFINE Family == {s \in SUBSET D : H[s] = F[s] + G[s]}
<1>5. {} \in Family
  BY <1>2, <1>3, <1>4 DEF IsSums
<1>6. ASSUME NEW s \in SUBSET D, NEW x \in D \ s, s \in Family
      PROVE  s \union {x} \in Family
  <2> DEFINE t == s \union {x}
  <2>1. t \in SUBSET D /\ x \in t /\ t \ {x} = s
    OBVIOUS
  <2> HIDE DEF t
  <2>2. F[t] = f[x] + F[s] /\ G[t] = g[x] + G[s] /\ H[t] = h[x] + H[s]
    BY <1>2, <1>3, <1>4, <2>1 DEF IsSums
  <2>3. F[s] \in Int /\ G[s] \in Int /\ f[x] \in Int /\ g[x] \in Int
    BY <1>2, <1>3 DEF IsSums, Summable
  <2>4. H[s] = F[s] + G[s] /\ h[x] = f[x] + g[x]
    BY <1>6
  <2>5. H[t] = F[t] + G[t]
    BY <2>2, <2>3, <2>4
  <2> QED BY <2>1, <2>5 DEF t
<1> HIDE DEF Family
<1>7. D \in Family
  BY <1>5, <1>6, FamilyOfSubsets DEF Summable
<1> QED BY <1>2, <1>3, <1>4, <1>7 DEF Family

\* Zeros may be added.
LEMMA SumExtend ==
    ASSUME NEW f, NEW h, Summable(f), IsFiniteSet(DOMAIN h), DOMAIN f \subseteq DOMAIN h,
           \A x \in DOMAIN h : h[x] = IF x \in DOMAIN f THEN f[x] ELSE 0
    PROVE  SumFunction(h) = SumFunction(f)
<1> DEFINE D == DOMAIN f
           E == DOMAIN h
<1>1. Summable(h)
  BY DEF Summable
<1>2. PICK F : IsSums(F, f) /\ SumFunction(f) = F[D]
  BY SumsExist DEF Summable
<1>3. PICK H : IsSums(H, h) /\ SumFunction(h) = H[E]
  BY <1>1, SumsExist DEF Summable
<1> DEFINE Family == {s \in SUBSET E : H[s] = F[s \intersect D]}
<1>4. {} \in Family
  <2>1. {} \intersect D = {}
    OBVIOUS
  <2> QED BY <1>2, <1>3, <2>1 DEF IsSums
<1>5. ASSUME NEW s \in SUBSET E, NEW x \in E \ s, s \in Family
      PROVE  s \union {x} \in Family
  <2> DEFINE t == s \union {x}
  <2>1. t \in SUBSET E /\ x \in t /\ t \ {x} = s
    OBVIOUS
  <2>2. CASE x \in D
    <3>1. t \intersect D \in SUBSET D /\ x \in t \intersect D
          /\ (t \intersect D) \ {x} = s \intersect D
      BY <2>2
    <3> HIDE DEF t
    <3>2. F[t \intersect D] = f[x] + F[s \intersect D]
      <4> DEFINE u == t \intersect D
      <4>1. u \in SUBSET D /\ x \in u /\ u \ {x} = s \intersect D
        BY <3>1
      <4> HIDE DEF u
      <4>2. F[u] = f[x] + F[u \ {x}]
        BY <1>2, <4>1 DEF IsSums
      <4> QED BY <4>1, <4>2 DEF u
    <3>3. H[t] = h[x] + H[s]
      BY <1>3, <2>1 DEF IsSums
    <3> QED BY <1>5, <2>1, <2>2, <3>2, <3>3 DEF t
  <2>3. CASE x \notin D
    <3>1. t \intersect D = s \intersect D
      BY <2>3
    <3>2. H[t] = h[x] + H[s] /\ h[x] = 0 /\ H[s] \in Int
      BY <1>3, <2>1, <2>3 DEF IsSums
    <3>3. H[t] = H[s] /\ H[s] = F[s \intersect D]
      BY <1>5, <3>2
    <3>4. t \in Family
      BY <2>1, <3>1, <3>3
    <3> QED BY <3>4
  <2> QED BY <2>2, <2>3
<1> HIDE DEF Family
<1>6. E \in Family
  BY <1>4, <1>5, FamilyOfSubsets
<1>7. E \intersect D = D
  OBVIOUS
<1> QED BY <1>2, <1>3, <1>6, <1>7 DEF Family

\* A function that is zero but in one place.
LEMMA SumSingle ==
    ASSUME NEW f, Summable(f), NEW a \in DOMAIN f, NEW v \in Int,
           \A x \in DOMAIN f : f[x] = IF x = a THEN v ELSE 0
    PROVE  SumFunction(f) = v
<1> DEFINE D == DOMAIN f
<1>1. PICK F : IsSums(F, f) /\ SumFunction(f) = F[D]
  BY SumsExist DEF Summable
<1> DEFINE Family == {s \in SUBSET D : F[s] = IF a \in s THEN v ELSE 0}
<1>2. {} \in Family
  BY <1>1 DEF IsSums
<1>3. ASSUME NEW s \in SUBSET D, NEW x \in D \ s, s \in Family
      PROVE  s \union {x} \in Family
  <2> DEFINE t == s \union {x}
  <2>1. t \in SUBSET D /\ x \in t /\ t \ {x} = s /\ (a \in t <=> a \in s \/ x = a)
    OBVIOUS
  <2> HIDE DEF t
  <2>2. F[t] = f[x] + F[s]
    BY <1>1, <2>1 DEF IsSums
  <2>3. F[t] = IF a \in t THEN v ELSE 0
    BY <1>3, <2>1, <2>2
  <2> QED BY <2>1, <2>3 DEF t
<1> HIDE DEF Family
<1>4. D \in Family
  BY <1>2, <1>3, FamilyOfSubsets DEF Summable
<1> QED BY <1>1, <1>4 DEF Family

\* One value changes, by v.
LEMMA SumChange ==
    ASSUME NEW f, NEW h, Summable(f), NEW a \in DOMAIN f, NEW v \in Int,
           DOMAIN h = DOMAIN f,
           \A x \in DOMAIN f : h[x] = f[x] + (IF x = a THEN v ELSE 0)
    PROVE  SumFunction(h) = SumFunction(f) + v
<1> DEFINE g == [x \in DOMAIN f |-> IF x = a THEN v ELSE 0]
<1>1. DOMAIN g = DOMAIN f /\ \A x \in DOMAIN f : g[x] = (IF x = a THEN v ELSE 0) /\ g[x] \in Int
  OBVIOUS
<1> HIDE DEF g
<1>2. Summable(g)
  BY <1>1 DEF Summable
<1>3. SumFunction(g) = v
  BY <1>1, <1>2, SumSingle
<1>4. SumFunction(h) = SumFunction(f) + SumFunction(g)
  BY <1>1, <1>2, SumAdd
<1> QED BY <1>3, <1>4
==============================================================================
