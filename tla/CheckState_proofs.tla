--------------------------- MODULE CheckState_proofs ---------------------------
(***************************************************************************)
(* Machine-checked proofs about TokenStorage and CheckState, for every     *)
(* value of their constants: what FoldLeft computes, that nonces survive   *)
(* the way through a key, type correctness, that the scan of an account's  *)
(* storage finds exactly the tokens it holds, that dumping and setting     *)
(* them again restores them, and that setState, transfers and checkState   *)
(* implement TokenLedger.                                                  *)
(***************************************************************************)
EXTENDS CheckedLedger, Sums_proofs

----------------------------------------------------------------------------
(* Folds of sequences *)

\* The greatest of a finite set of numbers.
LEMMA MaxIsIn ==
    ASSUME NEW n \in Nat, NEW s \in SUBSET (1..n), s # {}
    PROVE  Max(s) \in s /\ \A i \in s : Max(s) >= i
<1> DEFINE above == {i \in Nat : \A j \in s : j <= i}
<1>1. above \in SUBSET Nat /\ n \in above
  OBVIOUS
<1>2. PICK i \in above : \A j \in above : i <= j
  BY <1>1, LeastIndex
<1>3. i \in s
  <2> SUFFICES ASSUME i \notin s PROVE FALSE
    OBVIOUS
  <2>1. \A j \in s : j <= i - 1 /\ j \in Nat
    BY <1>2
  <2>2. i - 1 \in Nat
    <3>1. PICK j \in s : TRUE
      OBVIOUS
    <3>2. j \in 1..n /\ j <= i - 1
      BY <2>1
    <3> QED BY <3>2
  <2>3. i - 1 \in above
    BY <2>1, <2>2
  <2> QED BY <1>2, <2>2, <2>3
<1>4. i \in s /\ \A j \in s : i >= j
  BY <1>2, <1>3
<1> QED BY <1>4 DEF Max

\* The greatest of the first numbers.
LEMMA MaxOfFirst ==
    ASSUME NEW n \in Nat, n # 0
    PROVE  Max(1..n) = n /\ (1..n) \ {n} = 1..(n - 1) /\ 1..n # {} /\ 1..n \in SUBSET (1..n)
<1>1. 1..n # {} /\ 1..n \in SUBSET (1..n)
  OBVIOUS
<1>2. Max(1..n) \in 1..n /\ \A i \in 1..n : Max(1..n) >= i
  BY <1>1, MaxIsIn
<1>3. n \in 1..n
  OBVIOUS
<1> QED BY <1>1, <1>2, <1>3

\* The results of a fold for all parts of 1..n; step[i] is what is done at i.
IsFold(g, n, X, base, step) ==
    /\ g \in [SUBSET (1..n) -> X]
    /\ \A s \in SUBSET (1..n) :
        g[s] = IF s = {} THEN base ELSE step[Max(s)][g[s \ {Max(s)}]]

Steps(n, X) == [1..n -> [X -> X]]

\* The first steps.
LEMMA FewerSteps ==
    ASSUME NEW n \in Nat, NEW X, NEW step \in Steps(n + 1, X)
    PROVE  [i \in 1..n |-> step[i]] \in Steps(n, X)
<1>1. 1..n \subseteq 1..(n + 1)
  OBVIOUS
<1>2. \A i \in 1..n : step[i] \in [X -> X]
  BY <1>1 DEF Steps
<1> QED BY <1>2 DEF Steps

\* One more step.
LEMMA OneMoreStep ==
    ASSUME NEW n \in Nat, NEW X, NEW base \in X, NEW step \in Steps(n + 1, X),
           NEW g, IsFold(g, n, X, base, [i \in 1..n |-> step[i]])
    PROVE  \E f : IsFold(f, n + 1, X, base, step)
<1> DEFINE few == [i \in 1..n |-> step[i]]
           f == [s \in SUBSET (1..(n + 1)) |->
                    IF n + 1 \in s THEN step[n + 1][g[s \ {n + 1}]] ELSE g[s]]
<1>1. \A s \in SUBSET (1..(n + 1)) : s \ {n + 1} \in SUBSET (1..n) /\ (n + 1 \notin s => s \in SUBSET (1..n))
  OBVIOUS
<1>2. n + 1 \in 1..(n + 1) /\ step[n + 1] \in [X -> X] /\ n + 1 \notin 1..n
  BY DEF Steps
<1>3. g \in [SUBSET (1..n) -> X] /\ \A s \in SUBSET (1..n) :
          g[s] = IF s = {} THEN base ELSE few[Max(s)][g[s \ {Max(s)}]]
  BY DEF IsFold
<1>4. f \in [SUBSET (1..(n + 1)) -> X]
  <2> SUFFICES ASSUME NEW s \in SUBSET (1..(n + 1))
               PROVE  (IF n + 1 \in s THEN step[n + 1][g[s \ {n + 1}]] ELSE g[s]) \in X
    OBVIOUS
  <2>1. CASE n + 1 \in s
    <3>1. g[s \ {n + 1}] \in X BY <1>1, <1>3
    <3> QED BY <1>2, <2>1, <3>1
  <2>2. CASE n + 1 \notin s
    BY <1>1, <1>3, <2>2
  <2> QED BY <2>1, <2>2
<1>5. ASSUME NEW s \in SUBSET (1..(n + 1))
      PROVE  f[s] = IF s = {} THEN base ELSE step[Max(s)][f[s \ {Max(s)}]]
  <2>1. CASE n + 1 \in s
    <3>1. Max(s) = n + 1
      <4>0. n + 1 \in Nat /\ s # {}
        BY <2>1
      <4>1. Max(s) \in s /\ \A i \in s : Max(s) >= i
        BY <4>0, MaxIsIn
      <4>2. Max(s) \in 1..(n + 1) /\ Max(s) >= n + 1
        BY <2>1, <4>1
      <4> QED BY <4>2
    <3>2. f[s \ {n + 1}] = g[s \ {n + 1}]
      BY <1>1
    <3> QED BY <2>1, <3>1, <3>2
  <2>2. CASE n + 1 \notin s /\ s = {}
    <3>1. f[{}] = g[{}] /\ g[{}] = base
      BY <1>3
    <3> QED BY <2>2, <3>1
  <2>3. CASE n + 1 \notin s /\ s # {}
    <3>1. s \in SUBSET (1..n) /\ s \ {Max(s)} \in SUBSET (1..n)
      BY <1>1, <2>3
    <3>2. Max(s) \in 1..n
      BY <2>3, <3>1, MaxIsIn
    <3>3. g[s] = few[Max(s)][g[s \ {Max(s)}]]
      BY <1>3, <2>3, <3>1
    <3>4. few[Max(s)] = step[Max(s)]
      BY <3>2
    <3>5. s \ {Max(s)} \in SUBSET (1..(n + 1)) /\ n + 1 \notin s \ {Max(s)}
      BY <2>3
    <3>6. f[s] = g[s] /\ f[s \ {Max(s)}] = g[s \ {Max(s)}]
      BY <2>3, <3>5
    <3> HIDE DEF f, few
    <3> QED BY <2>3, <3>3, <3>4, <3>6
  <2> QED BY <2>1, <2>2, <2>3
<1> HIDE DEF f
<1>6. IsFold(f, n + 1, X, base, step)
  BY <1>4, <1>5 DEF IsFold
<1> QED BY <1>6

\* However many steps there are, there is a fold.
LEMMA FoldExists ==
    ASSUME NEW X, NEW base \in X, NEW n \in Nat, NEW step \in Steps(n, X)
    PROVE  \E g : IsFold(g, n, X, base, step)
<1> DEFINE T == {m \in Nat : \A z \in Steps(m, X) : \E g : IsFold(g, m, X, base, z)}
<1>1. 0 \in T
  <2> SUFFICES ASSUME NEW z \in Steps(0, X) PROVE \E g : IsFold(g, 0, X, base, z)
    OBVIOUS
  <2> DEFINE g == [s \in SUBSET (1..0) |-> base]
  <2>1. \A s \in SUBSET (1..0) : s = {}
    OBVIOUS
  <2>2. IsFold(g, 0, X, base, z)
    BY <2>1 DEF IsFold
  <2> HIDE DEF g
  <2> QED BY <2>2
<1>2. ASSUME NEW m \in Nat, m \in T PROVE m + 1 \in T
  <2> SUFFICES ASSUME NEW z \in Steps(m + 1, X) PROVE \E g : IsFold(g, m + 1, X, base, z)
    OBVIOUS
  <2>1. [i \in 1..m |-> z[i]] \in Steps(m, X)
    BY FewerSteps
  <2>2. PICK g : IsFold(g, m, X, base, [i \in 1..m |-> z[i]])
    BY <1>2, <2>1
  <2> QED BY <2>2, OneMoreStep
<1> HIDE DEF T
<1>3. Nat \subseteq T
  BY <1>1, <1>2, NumbersBelow
<1> QED BY <1>3 DEF T

\* What a fold has after each step.
IsTrace(h, n, X, base, step) ==
    /\ h \in [0..n -> X]
    /\ h[0] = base
    /\ \A m \in 1..n : h[m] = step[m][h[m - 1]]

First(f, n) == [m \in 0..n |-> f[1..m]]

\* A function on the parts of 1..n that makes these steps has a trace in it.
LEMMA FoldTrace ==
    ASSUME NEW X, NEW base \in X, NEW n \in Nat, NEW step \in Steps(n, X), NEW f, f[{}] = base,
           \A m \in 1..n : f[1..(m - 1)] \in X => f[1..m] = step[m][f[1..(m - 1)]]
    PROVE  IsTrace(First(f, n), n, X, base, step)
<1> DEFINE T == {m \in Nat : m <= n => f[1..m] \in X}
<1>1. 0 \in T
  <2>1. 1..0 = {} OBVIOUS
  <2> QED BY <2>1
<1>2. ASSUME NEW m \in Nat, m \in T PROVE m + 1 \in T
  <2> SUFFICES ASSUME m + 1 <= n PROVE f[1..(m + 1)] \in X
    OBVIOUS
  <2>1. f[1..m] \in X /\ m + 1 \in 1..n /\ (m + 1) - 1 = m
    BY <1>2
  <2>2. f[1..(m + 1)] = step[m + 1][f[1..m]]
    BY <2>1
  <2>3. step[m + 1] \in [X -> X]
    BY <2>1 DEF Steps
  <2> QED BY <2>1, <2>2, <2>3
<1> HIDE DEF T
<1>3. Nat \subseteq T
  BY <1>1, <1>2, NumbersBelow
<1>4. \A m \in 0..n : m \in T /\ m <= n
  BY <1>3
<1>5. \A m \in 0..n : f[1..m] \in X
  BY <1>4 DEF T
<1>6. First(f, n)[0] = base
  <2>1. 1..0 = {} /\ 0 \in 0..n OBVIOUS
  <2> QED BY <2>1 DEF First
<1>7. ASSUME NEW m \in 1..n PROVE First(f, n)[m] = step[m][First(f, n)[m - 1]]
  <2>1. m \in 0..n /\ m - 1 \in 0..n
    OBVIOUS
  <2>2. f[1..m] = step[m][f[1..(m - 1)]]
    BY <1>5, <2>1
  <2> QED BY <2>1, <2>2 DEF First
<1> QED BY <1>5, <1>6, <1>7 DEF IsTrace, First

----------------------------------------------------------------------------
(* Numbers and their bytes *)

\* What SetBytes does with the byte at i.
ByteSteps(b) == [i \in 1..Len(b) |-> [x \in Nat |-> 256 * x + b[i]]]

BytesIter(b, f) ==
    [s \in SUBSET DOMAIN b |-> IF s = {} THEN 0 ELSE 256 * f[s \ {Max(s)}] + b[Max(s)]]

\* SetBytes is a fold.
LEMMA SetBytesFold ==
    ASSUME NEW b
    PROVE  SetBytes(b) = (CHOOSE f : f = BytesIter(b, f))[DOMAIN b]
  BY DEF SetBytes, FoldLeft, MapThenFoldSet, BytesIter

\* The bytes are numbers.
LEMMA ByteStepsType == ASSUME NEW b \in Seq(Byte) PROVE ByteSteps(b) \in Steps(Len(b), Nat)
<1>1. \A i \in 1..Len(b) : b[i] \in Nat
  <2>1. \A i \in 1..Len(b) : b[i] \in Byte
    BY ElementOfSeq
  <2>2. \A x \in Byte : x \in Nat
    BY DEF Byte
  <2> QED BY <2>1, <2>2
<1>2. \A i \in 1..Len(b) : [x \in Nat |-> 256 * x + b[i]] \in [Nat -> Nat]
  BY <1>1
<1> QED BY <1>2 DEF ByteSteps, Steps

\* The number after each byte.
LEMMA SetBytesTrace ==
    ASSUME NEW b \in Seq(Byte)
    PROVE  \E h : IsTrace(h, Len(b), Nat, 0, ByteSteps(b)) /\ SetBytes(b) = h[Len(b)]
<1> DEFINE n == Len(b)
           f == CHOOSE f : f = BytesIter(b, f)
<1>1. n \in Nat /\ DOMAIN b = 1..n /\ ByteSteps(b) \in Steps(n, Nat)
  BY ByteStepsType
<1> HIDE DEF n
<1>2. PICK g : IsFold(g, n, Nat, 0, ByteSteps(b))
  BY <1>1, FoldExists
<1>3. g = BytesIter(b, g)
  <2>1. ASSUME NEW s \in SUBSET (1..n), s # {}
        PROVE  g[s] = 256 * g[s \ {Max(s)}] + b[Max(s)]
    <3>1. Max(s) \in 1..n /\ s \ {Max(s)} \in SUBSET (1..n)
      BY <1>1, <2>1, MaxIsIn
    <3>2. g[s \ {Max(s)}] \in Nat /\ g[s] = ByteSteps(b)[Max(s)][g[s \ {Max(s)}]]
      BY <1>2, <2>1, <3>1 DEF IsFold
    <3> HIDE DEF n
    <3> QED BY <3>1, <3>2 DEF ByteSteps, n
  <2>2. g[{}] = 0 /\ g \in [SUBSET (1..n) -> Nat]
    BY <1>2 DEF IsFold
  <2> QED BY <1>1, <2>1, <2>2 DEF BytesIter
<1>4. f = BytesIter(b, f)
  BY <1>3
<1>5. SetBytes(b) = f[1..n]
  BY <1>1, SetBytesFold
<1> HIDE DEF f
<1>6. f[{}] = 0
  BY <1>4 DEF BytesIter
<1>7. ASSUME NEW m \in 1..n, f[1..(m - 1)] \in Nat PROVE f[1..m] = ByteSteps(b)[m][f[1..(m - 1)]]
  <2>1. m \in Nat /\ m # 0 /\ 1..m \in SUBSET (1..n)
    BY <1>1
  <2>2. Max(1..m) = m /\ (1..m) \ {m} = 1..(m - 1) /\ 1..m # {}
    BY <2>1, MaxOfFirst
  <2>3. f[1..m] = 256 * f[1..(m - 1)] + b[m]
    BY <1>1, <1>4, <2>1, <2>2 DEF BytesIter
  <2> QED BY <1>7, <2>3 DEF ByteSteps, n
<1>8. IsTrace(First(f, n), n, Nat, 0, ByteSteps(b))
  <2>1. 0 \in Nat /\ \A m \in 1..n : f[1..(m - 1)] \in Nat => f[1..m] = ByteSteps(b)[m][f[1..(m - 1)]]
    BY <1>7
  <2> QED BY <1>1, <1>6, <2>1, FoldTrace
<1>9. First(f, n)[n] = f[1..n]
  BY <1>1 DEF First
<1> QED BY <1>5, <1>8, <1>9 DEF n

\* The last byte of a number, and the number without it.
LEMMA LastByte ==
    ASSUME NEW n \in Nat
    PROVE  /\ n \div 256 \in Nat /\ n % 256 \in Byte
           /\ 256 * (n \div 256) + (n % 256) = n
           /\ n # 0 => n \div 256 < n
<1>1. n % 256 \in 0..255
  OBVIOUS
<1>2. n \div 256 \in Nat /\ 256 * (n \div 256) + (n % 256) = n
  OBVIOUS
<1>3. n # 0 => n \div 256 < n
  OBVIOUS
<1> QED BY <1>1, <1>2, <1>3 DEF Byte

\* What Bytes is at n.
BytesStep(f, n) == IF n = 0 THEN <<>> ELSE Append(f[n \div 256], n % 256)

\* The bytes of the numbers up to m.
IsBytesTo(f, m) == f \in [0..m -> Seq(Byte)] /\ \A n \in 0..m : f[n] = BytesStep(f, n)

\* One more number.
LEMMA BytesStepType ==
    ASSUME NEW n \in Nat, NEW f, n # 0 => f[n \div 256] \in Seq(Byte)
    PROVE  BytesStep(f, n) \in Seq(Byte)
<1>1. CASE n = 0
  BY <1>1 DEF BytesStep
<1>2. CASE n # 0
  <2>1. f[n \div 256] \in Seq(Byte) /\ n % 256 \in Byte
    BY <1>2, LastByte
  <2>2. Append(f[n \div 256], n % 256) \in Seq(Byte)
    BY <2>1, AppendProperties
  <2> QED BY <1>2, <2>2 DEF BytesStep
<1> QED BY <1>1, <1>2

\* Up to any number.
LEMMA BytesToExist == \A m \in Nat : \E f : IsBytesTo(f, m)
<1> DEFINE T == {m \in Nat : \E f : IsBytesTo(f, m)}
<1>1. 0 \in T
  <2> DEFINE f == [n \in 0..0 |-> <<>>]
  <2>1. \A n \in 0..0 : n = 0
    OBVIOUS
  <2>2. IsBytesTo(f, 0)
    BY <2>1 DEF IsBytesTo, BytesStep
  <2> HIDE DEF f
  <2> QED BY <2>2
<1>2. ASSUME NEW m \in Nat, m \in T PROVE m + 1 \in T
  <2>1. PICK g : IsBytesTo(g, m)
    BY <1>2
  <2> DEFINE f == [n \in 0..(m + 1) |-> IF n = m + 1 THEN BytesStep(g, m + 1) ELSE g[n]]
  <2>2. \A n \in 0..m : n \in 0..(m + 1) /\ n # m + 1 /\ f[n] = g[n]
    OBVIOUS
  <2>3. \A n \in 0..(m + 1) : n = m + 1 \/ n \in 0..m
    OBVIOUS
  <2>4. m + 1 \in 0..(m + 1) /\ m + 1 \in Nat /\ f[m + 1] = BytesStep(g, m + 1)
    OBVIOUS
  <2>5. \A n \in 0..(m + 1) : n # 0 => n \div 256 \in 0..m
    <3> SUFFICES ASSUME NEW n \in 0..(m + 1), n # 0 PROVE n \div 256 \in 0..m
      OBVIOUS
    <3>1. n \in Nat /\ n <= m + 1
      OBVIOUS
    <3>2. n \div 256 \in Nat /\ n \div 256 < n
      BY <3>1, LastByte
    <3> DEFINE q == n \div 256
    <3>3. q \in Nat /\ q < n
      BY <3>2
    <3> HIDE DEF q
    <3>4. q \in 0..m
      BY <3>1, <3>3
    <3> QED BY <3>4 DEF q
  <2>6. BytesStep(g, m + 1) \in Seq(Byte)
    <3>1. (m + 1) # 0 => g[(m + 1) \div 256] \in Seq(Byte)
      BY <2>1, <2>4, <2>5 DEF IsBytesTo
    <3> QED BY <2>4, <3>1, BytesStepType
  <2>7. f \in [0..(m + 1) -> Seq(Byte)]
    BY <2>1, <2>3, <2>6 DEF IsBytesTo
  <2> HIDE DEF f
  <2>8. \A n \in 0..(m + 1) : BytesStep(f, n) = BytesStep(g, n)
    BY <2>2, <2>5 DEF BytesStep
  <2>9. \A n \in 0..(m + 1) : f[n] = BytesStep(f, n)
    BY <2>1, <2>2, <2>3, <2>4, <2>8 DEF IsBytesTo
  <2>10. IsBytesTo(f, m + 1)
    BY <2>7, <2>9 DEF IsBytesTo
  <2> QED BY <2>10
<1> HIDE DEF T
<1>3. Nat \subseteq T
  BY <1>1, <1>2, NumbersBelow
<1> QED BY <1>3 DEF T

\* In one way only.
LEMMA BytesToAgree ==
    ASSUME NEW f, NEW g, NEW k \in Nat, NEW m \in Nat, IsBytesTo(f, k), IsBytesTo(g, m)
    PROVE  \A n \in Nat : n <= k /\ n <= m => f[n] = g[n]
<1> DEFINE T == {j \in Nat : \A n \in 0..j : n <= k /\ n <= m => f[n] = g[n]}
<1>1. \A n \in Nat : n <= k /\ n <= m => f[n] = BytesStep(f, n) /\ g[n] = BytesStep(g, n)
  BY DEF IsBytesTo
<1>2. 0 \in T
  <2>1. \A n \in 0..0 : n = 0
    OBVIOUS
  <2> QED BY <1>1, <2>1 DEF BytesStep
<1>3. ASSUME NEW j \in Nat, j \in T PROVE j + 1 \in T
  <2>1. \A n \in 0..j : n <= k /\ n <= m => f[n] = g[n]
    BY <1>3
  <2>2. \A n \in 0..(j + 1) : n = j + 1 \/ n \in 0..j
    OBVIOUS
  <2>3. ASSUME j + 1 <= k, j + 1 <= m PROVE f[j + 1] = g[j + 1]
    <3> DEFINE q == (j + 1) \div 256
    <3>1. j + 1 \in Nat /\ j + 1 # 0
      OBVIOUS
    <3>2. q \in Nat /\ q < j + 1
      BY <3>1, LastByte
    <3> HIDE DEF q
    <3>3. q \in 0..j /\ q <= k /\ q <= m
      BY <2>3, <3>2
    <3>4. f[q] = g[q]
      BY <2>1, <3>3
    <3> QED BY <1>1, <2>3, <3>1, <3>4 DEF BytesStep, q
  <2> QED BY <2>1, <2>2, <2>3
<1> HIDE DEF T
<1>4. Nat \subseteq T
  BY <1>2, <1>3, NumbersBelow
<1> SUFFICES ASSUME NEW n \in Nat, n <= k, n <= m PROVE f[n] = g[n]
  OBVIOUS
<1>5. n \in T /\ n \in 0..n
  BY <1>4
<1> QED BY <1>5 DEF T

\* Bytes is what its definition says.
LEMMA BytesDef == \A n \in Nat : Bytes[n] \in Seq(Byte) /\ Bytes[n] = BytesStep(Bytes, n)
<1> DEFINE F == [m \in Nat |-> CHOOSE f : IsBytesTo(f, m)]
           g == [n \in Nat |-> F[n][n]]
<1>1. \A m \in Nat : IsBytesTo(F[m], m)
  BY BytesToExist
<1> HIDE DEF F
<1>2. ASSUME NEW n \in Nat PROVE g[n] \in Seq(Byte) /\ g[n] = BytesStep(g, n)
  <2>1. IsBytesTo(F[n], n) /\ n \in 0..n
    BY <1>1
  <2>2. F[n][n] \in Seq(Byte) /\ F[n][n] = BytesStep(F[n], n)
    BY <2>1 DEF IsBytesTo
  <2>3. CASE n = 0
    BY <2>2, <2>3 DEF BytesStep
  <2>4. CASE n # 0
    <3> DEFINE q == n \div 256
    <3>1. q \in Nat /\ q < n
      BY <2>4, LastByte
    <3> HIDE DEF q
    <3>2. q <= q /\ q <= n /\ IsBytesTo(F[q], q)
      BY <1>1, <3>1
    <3>3. F[n][q] = F[q][q]
      BY <2>1, <3>1, <3>2, BytesToAgree
    <3>4. g[q] = F[n][q]
      BY <3>1, <3>3
    <3> HIDE DEF g
    <3>5. BytesStep(g, n) = BytesStep(F[n], n)
      BY <3>4 DEF BytesStep, q
    <3> QED BY <2>2, <3>5 DEF g
  <2> QED BY <2>3, <2>4
<1>3. g = [n \in Nat |-> BytesStep(g, n)]
  <2>1. g = [n \in Nat |-> g[n]]
    OBVIOUS
  <2> HIDE DEF g
  <2> QED BY <1>2, <2>1
<1> HIDE DEF g
<1>4. Bytes = (CHOOSE f : f = [n \in Nat |-> BytesStep(f, n)])
  BY DEF Bytes, BytesStep
<1>5. Bytes = [n \in Nat |-> BytesStep(Bytes, n)]
  BY <1>3, <1>4
<1>6. \A n \in Nat : Bytes[n] = BytesStep(Bytes, n)
  BY <1>5
<1> DEFINE T == {m \in Nat : \A n \in 0..m : Bytes[n] \in Seq(Byte)}
<1>7. 0 \in T
  <2>1. \A n \in 0..0 : n = 0
    OBVIOUS
  <2>2. <<>> \in Seq(Byte)
    OBVIOUS
  <2> QED BY <1>6, <2>1, <2>2 DEF BytesStep
<1>8. ASSUME NEW m \in Nat, m \in T PROVE m + 1 \in T
  <2>1. \A n \in 0..(m + 1) : n = m + 1 \/ n \in 0..m
    OBVIOUS
  <2> DEFINE q == (m + 1) \div 256
  <2>2. m + 1 \in Nat /\ q \in Nat /\ q < m + 1
    BY LastByte
  <2> HIDE DEF q
  <2>3. Bytes[q] \in Seq(Byte)
    BY <1>8, <2>2
  <2>4. BytesStep(Bytes, m + 1) \in Seq(Byte)
    BY <2>2, <2>3, BytesStepType DEF q
  <2> QED BY <1>6, <1>8, <2>1, <2>2, <2>4
<1> HIDE DEF T
<1>9. Nat \subseteq T
  BY <1>7, <1>8, NumbersBelow
<1> SUFFICES ASSUME NEW n \in Nat PROVE Bytes[n] \in Seq(Byte)
  BY <1>6
<1>10. n \in T /\ n \in 0..n
  BY <1>9
<1> QED BY <1>10 DEF T

\* No bytes are zero.
LEMMA SetBytesEmpty == SetBytes(<<>>) = 0
<1>1. <<>> \in Seq(Byte) /\ Len(<<>>) = 0
  OBVIOUS
<1>2. PICK h : IsTrace(h, Len(<<>>), Nat, 0, ByteSteps(<<>>)) /\ SetBytes(<<>>) = h[Len(<<>>)]
  BY <1>1, SetBytesTrace
<1> QED BY <1>1, <1>2 DEF IsTrace

\* Bytes make a natural number.
LEMMA SetBytesType == ASSUME NEW b \in Seq(Byte) PROVE SetBytes(b) \in Nat
<1>1. PICK h : IsTrace(h, Len(b), Nat, 0, ByteSteps(b)) /\ SetBytes(b) = h[Len(b)]
  BY SetBytesTrace
<1>2. Len(b) \in 0..Len(b)
  BY LenProperties
<1> QED BY <1>1, <1>2 DEF IsTrace

\* One more byte.
LEMMA SetBytesAppend ==
    ASSUME NEW b \in Seq(Byte), NEW x \in Byte
    PROVE  SetBytes(Append(b, x)) = 256 * SetBytes(b) + x
<1> DEFINE c == Append(b, x)
           n == Len(b)
<1>1. c \in Seq(Byte) /\ Len(c) = n + 1 /\ n \in Nat /\ c[n + 1] = x
      /\ \A i \in 1..n : c[i] = b[i]
  BY AppendProperties
<1> HIDE DEF c
<1>2. PICK h : IsTrace(h, n, Nat, 0, ByteSteps(b)) /\ SetBytes(b) = h[n]
  BY SetBytesTrace
<1>3. PICK k : IsTrace(k, n + 1, Nat, 0, ByteSteps(c)) /\ SetBytes(c) = k[n + 1]
  BY <1>1, SetBytesTrace
<1>4. \A i \in 1..n : h[i - 1] \in Nat /\ h[i] = 256 * h[i - 1] + b[i]
  <2> SUFFICES ASSUME NEW i \in 1..n PROVE h[i - 1] \in Nat /\ h[i] = 256 * h[i - 1] + b[i]
    OBVIOUS
  <2>1. i - 1 \in 0..n
    BY <1>1
  <2>2. h[i - 1] \in Nat /\ h[i] = ByteSteps(b)[i][h[i - 1]]
    BY <1>2, <2>1 DEF IsTrace
  <2> QED BY <2>2 DEF ByteSteps
<1>5. \A i \in 1..(n + 1) : k[i - 1] \in Nat /\ k[i] = 256 * k[i - 1] + c[i]
  <2> SUFFICES ASSUME NEW i \in 1..(n + 1) PROVE k[i - 1] \in Nat /\ k[i] = 256 * k[i - 1] + c[i]
    OBVIOUS
  <2>1. i - 1 \in 0..(n + 1)
    BY <1>1
  <2>2. k[i - 1] \in Nat /\ k[i] = ByteSteps(c)[i][k[i - 1]]
    BY <1>3, <2>1 DEF IsTrace
  <2> QED BY <1>1, <2>2 DEF ByteSteps
<1> HIDE DEF n
<1> DEFINE T == {i \in Nat : i <= n => k[i] = h[i]}
<1>6. 0 \in T
  BY <1>2, <1>3 DEF IsTrace
<1>7. ASSUME NEW i \in Nat, i \in T PROVE i + 1 \in T
  <2> SUFFICES ASSUME i + 1 <= n PROVE k[i + 1] = h[i + 1]
    OBVIOUS
  <2>1. i + 1 \in 1..n /\ i + 1 \in 1..(n + 1) /\ (i + 1) - 1 = i
    BY <1>1
  <2>2. k[i + 1] = 256 * k[i] + c[i + 1] /\ h[i + 1] = 256 * h[i] + b[i + 1]
    BY <1>4, <1>5, <2>1
  <2> QED BY <1>1, <1>7, <2>1, <2>2
<1> HIDE DEF T
<1>8. Nat \subseteq T
  BY <1>6, <1>7, NumbersBelow
<1>9. k[n] = h[n]
  BY <1>1, <1>8 DEF T
<1>10. n + 1 \in 1..(n + 1) /\ (n + 1) - 1 = n
  BY <1>1
<1>11. k[n + 1] = 256 * k[n] + c[n + 1]
  BY <1>5, <1>10
<1> QED BY <1>1, <1>2, <1>3, <1>9, <1>11 DEF c

\* A number is read back from its bytes.
LEMMA BytesAreReadBack == \A n \in Nat : SetBytes(Bytes[n]) = n
<1> DEFINE T == {m \in Nat : \A n \in 0..m : SetBytes(Bytes[n]) = n}
<1>1. 0 \in T
  <2>1. \A n \in 0..0 : n = 0
    OBVIOUS
  <2>2. Bytes[0] = <<>>
    BY BytesDef DEF BytesStep
  <2> QED BY <2>1, <2>2, SetBytesEmpty
<1>2. ASSUME NEW m \in Nat, m \in T PROVE m + 1 \in T
  <2>1. \A n \in 0..(m + 1) : n = m + 1 \/ n \in 0..m
    OBVIOUS
  <2> DEFINE q == (m + 1) \div 256
             r == (m + 1) % 256
  <2>2. m + 1 \in Nat /\ m + 1 # 0
    OBVIOUS
  <2>3. q \in Nat /\ q < m + 1 /\ r \in Byte /\ 256 * q + r = m + 1
    BY <2>2, LastByte
  <2>4. Bytes[m + 1] = Append(Bytes[q], r)
    BY <2>2, BytesDef DEF BytesStep
  <2> HIDE DEF q, r
  <2>5. SetBytes(Bytes[q]) = q /\ Bytes[q] \in Seq(Byte)
    BY <1>2, <2>3, BytesDef
  <2>6. SetBytes(Bytes[m + 1]) = 256 * SetBytes(Bytes[q]) + r
    BY <2>3, <2>4, <2>5, SetBytesAppend
  <2> QED BY <1>2, <2>1, <2>3, <2>5, <2>6
<1> HIDE DEF T
<1>3. Nat \subseteq T
  BY <1>1, <1>2, NumbersBelow
<1> SUFFICES ASSUME NEW n \in Nat PROVE SetBytes(Bytes[n]) = n
  OBVIOUS
<1>4. n \in T /\ n \in 0..n
  BY <1>3
<1> QED BY <1>4 DEF T

----------------------------------------------------------------------------
(* Keys *)

\* A token identifier has one separator, and six bytes after it.
IsTicker(t) ==
    \E p \in 1..Len(t) :
        Len(t) = p + esdtRandomSequenceLength /\ \A i \in 1..Len(t) : t[i] = Separator <=> i = p

\* What the scan relies on, and the code takes for granted: identifiers are well
\* formed, and no byte of a nonce happens to be the separator.
KeysComeApart ==
    /\ \A t \in Token : IsTicker(t)
    /\ \A n \in Nonce : \A i \in DOMAIN Bytes[n] : Bytes[n][i] # Separator

\* The name and the nonce that a key was made of are found in it.
LEMMA KeyComesApart ==
    ASSUME KeysComeApart, NEW t \in Token, NEW n \in Nonce
    PROVE  extractTokenIdentifierAndNonceESDTWipe(t \o Bytes[n]) = [token |-> t, nonce |-> n]
<1> DEFINE b == Bytes[n]
           args == t \o b
           cuts == {i \in DOMAIN args : args[i] = Separator}
           L == Len(t)
           M == Len(b)
<1>1. t \in Seq(Byte) /\ b \in Seq(Byte) /\ n \in Nat
  BY TokenAssumption, BytesDef
<1>2. L \in Nat /\ M \in Nat /\ DOMAIN t = 1..L /\ DOMAIN b = 1..M
  BY <1>1
<1>3. args \in Seq(Byte) /\ Len(args) = L + M
      /\ \A i \in 1..(L + M) : args[i] = IF i <= L THEN t[i] ELSE b[i - L]
  BY <1>1, ConcatProperties
<1>4. DOMAIN args = 1..(L + M)
  BY <1>3
<1>5. PICK p \in 1..L : L = p + 6 /\ \A i \in 1..L : t[i] = Separator <=> i = p
  BY DEF KeysComeApart, IsTicker, esdtRandomSequenceLength
<1>6. \A i \in 1..M : b[i] # Separator
  BY <1>2 DEF KeysComeApart
<1>7. SetBytes(b) = n /\ SetBytes(<<>>) = 0
  BY <1>1, BytesAreReadBack, SetBytesEmpty
<1>8. SubSeq(args, 1, L) = t
  <2>1. p \in Nat /\ 1 \in 1..L /\ L \in 1..L
    BY <1>2, <1>5
  <2>2. SubSeq(t \o b, 1, L) = SubSeq(t, 1, L)
    BY <1>1, <2>1, SubSeqOfConcat1
  <2>3. SubSeq(t, 1, L) = t
    BY <1>1, SubSeqFull
  <2> QED BY <2>2, <2>3
<1>9. M # 0 => SubSeq(args, L + 1, L + M) = b
  <2> SUFFICES ASSUME M # 0 PROVE SubSeq(args, L + 1, L + M) = b
    OBVIOUS
  <2>1. L + 1 \in (L + 1)..(L + M) /\ L + M \in (L + 1)..(L + M)
    BY <1>2
  <2>2. SubSeq(t \o b, L + 1, L + M) = SubSeq(b, L + 1 - L, L + M - L)
    BY <1>1, <2>1, SubSeqOfConcat2
  <2>3. L + 1 - L = 1 /\ L + M - L = M
    BY <1>2
  <2>4. SubSeq(b, 1, M) = b
    BY <1>1, SubSeqFull
  <2> QED BY <2>2, <2>3, <2>4
<1>10. M = 0 => b = <<>> /\ args = t
  BY <1>1, ConcatEmptySeq, EmptySeq
<1> HIDE DEF args, b, L, M
<1>11. cuts = {p}
  <2>1. \A i \in 1..(L + M) : i <= L => i \in 1..L
    BY <1>2
  <2>2. \A i \in 1..(L + M) : ~(i <= L) => i - L \in 1..M /\ i # p
    BY <1>2, <1>5
  <2>3. p \in 1..(L + M) /\ p <= L
    BY <1>2, <1>5
  <2> QED BY <1>3, <1>4, <1>5, <1>6, <2>1, <2>2, <2>3
<1> HIDE DEF cuts
<1>12. Min(cuts) = p
  BY <1>5, <1>11 DEF Min
<1>13. (cuts \ {Min(cuts)}) \union {Len(args) + 1} = {L + M + 1}
  BY <1>3, <1>11, <1>12
<1>14. Min((cuts \ {Min(cuts)}) \union {Len(args) + 1}) = L + M + 1
  BY <1>2, <1>13 DEF Min
<1> DEFINE result ==
      IF cuts = {} \/ (L + M + 1) - p - 1 <= 6 THEN [token |-> args, nonce |-> 0]
      ELSE [token |-> SubSeq(args, 1, p + 6), nonce |-> SetBytes(SubSeq(args, p + 6 + 1, (L + M + 1) - 1))]
<1>15. extractTokenIdentifierAndNonceESDTWipe(args) = result
  BY <1>12, <1>14 DEF extractTokenIdentifierAndNonceESDTWipe, cuts, esdtRandomSequenceLength
<1>16. CASE M = 0
  <2>1. (L + M + 1) - p - 1 <= 6
    BY <1>2, <1>5, <1>16
  <2>2. n = 0
    BY <1>7, <1>10, <1>16
  <2> QED BY <1>10, <1>15, <1>16, <2>1, <2>2 DEF args, b
<1>17. CASE M # 0
  <2>1. ~((L + M + 1) - p - 1 <= 6) /\ cuts # {}
    BY <1>2, <1>5, <1>11, <1>17
  <2>2. p + 6 = L /\ p + 6 + 1 = L + 1 /\ (L + M + 1) - 1 = L + M
    BY <1>2, <1>5
  <2> QED BY <1>7, <1>8, <1>9, <1>15, <1>17, <2>1, <2>2 DEF args, b
<1> QED BY <1>16, <1>17

----------------------------------------------------------------------------
(* The storage of accounts, with metadata from A and roles from R *)

KeySpace == [prefix : {"plain", "esdt", "nonce", "role"}, rest : Seq(Byte)]

TokenData(A) == [value : Nat, meta : [stored : BOOLEAN, nonce : Nonce \union {0}, attrs : A]]

\* The token data at a key say the nonce that is in the key, or nothing.
InstanceEntry(A, k, v) ==
    /\ v \in TokenData(A)
    /\ \E t \in Token, n \in Nonce : k = makeTokenKey(t, n) /\ (v.meta.stored => v.meta.nonce = n)

SoundEntry(A, R, k, v) ==
    \/ k.prefix = "plain" /\ k.rest \in EntryKey /\ v \in Entry
    \/ k.prefix = "esdt" /\ InstanceEntry(A, k, v)
    \/ k.prefix = "nonce" /\ k.rest \in Token /\ v \in Seq(Byte)
    \/ k.prefix = "role" /\ k.rest \in Token /\ v \in R

Values(A, R) == Entry \union TokenData(A) \union Seq(Byte) \union R

Storages(A, R) ==
    {s \in UNION {[D -> Values(A, R)] : D \in SUBSET KeySpace} :
        IsFiniteSet(DOMAIN s) /\ \A k \in DOMAIN s : SoundEntry(A, R, k, s[k])}

\* Finitely many arguments have finitely many values.
LEMMA FiniteValues ==
    ASSUME NEW S, IsFiniteSet(S), NEW f, f = [x \in S |-> f[x]]
    PROVE  IsFiniteSet({f[x] : x \in S})
<1>1. f \in Surjection(S, {f[x] : x \in S})
  BY DEF Surjection
<1> QED BY <1>1, FS_Surjection

\* A storage is a function with sound entries.
LEMMA StorageIs ==
    ASSUME NEW A, NEW R, NEW s \in Storages(A, R)
    PROVE  /\ s = [k \in DOMAIN s |-> s[k]] /\ DOMAIN s \in SUBSET KeySpace /\ IsFiniteSet(DOMAIN s)
           /\ \A k \in DOMAIN s : SoundEntry(A, R, k, s[k])
<1>1. PICK D \in SUBSET KeySpace : s \in [D -> Values(A, R)]
  BY DEF Storages
<1>2. s = [k \in DOMAIN s |-> s[k]] /\ DOMAIN s \in SUBSET KeySpace
  BY <1>1
<1> QED BY <1>2 DEF Storages

\* A sound value is a value.
LEMMA SoundValue ==
    ASSUME NEW A, NEW R, NEW k, NEW v, SoundEntry(A, R, k, v)
    PROVE  v \in Values(A, R)
  BY DEF SoundEntry, InstanceEntry, Values

\* A function with finitely many sound entries is a storage.
LEMMA IsAStorage ==
    ASSUME NEW A, NEW R, NEW s, s = [k \in DOMAIN s |-> s[k]], DOMAIN s \in SUBSET KeySpace,
           IsFiniteSet(DOMAIN s), \A k \in DOMAIN s : SoundEntry(A, R, k, s[k])
    PROVE  s \in Storages(A, R)
<1>1. \A k \in DOMAIN s : s[k] \in Values(A, R)
  BY SoundValue
<1>2. s \in [DOMAIN s -> Values(A, R)]
  BY <1>1
<1> QED BY <1>2 DEF Storages

\* What Put does.
LEMMA PutIs ==
    ASSUME NEW s, NEW k, NEW v
    PROVE  /\ DOMAIN Put(s, k, v) = DOMAIN s \union {k}
           /\ Put(s, k, v)[k] = v
           /\ \A x \in DOMAIN s : x # k => Put(s, k, v)[x] = s[x]
  BY DEF Put

\* A sound entry may be put.
LEMMA PutSound ==
    ASSUME NEW A, NEW R, NEW s \in Storages(A, R), NEW k \in KeySpace, NEW v, SoundEntry(A, R, k, v)
    PROVE  Put(s, k, v) \in Storages(A, R)
<1> DEFINE z == Put(s, k, v)
<1>1. /\ z = [x \in DOMAIN z |-> z[x]] /\ DOMAIN z = DOMAIN s \union {k} /\ z[k] = v
      /\ \A x \in DOMAIN s : x # k => z[x] = s[x]
  BY DEF Put
<1> HIDE DEF z
<1>2. DOMAIN z \in SUBSET KeySpace /\ IsFiniteSet(DOMAIN z)
  BY <1>1, StorageIs, FS_AddElement
<1>3. \A x \in DOMAIN z : SoundEntry(A, R, x, z[x])
  BY <1>1, StorageIs
<1> QED BY <1>1, <1>2, <1>3, IsAStorage DEF z

\* The keys of tokens.
LEMMA KeyTypes ==
    ASSUME NEW t \in Token, NEW n \in Nonce
    PROVE  /\ makeTokenKey(t, n) \in KeySpace /\ makeTokenKey(t, n).prefix = "esdt"
           /\ makeTokenKey(t, n).rest = t \o Bytes[n]
           /\ makeLastNonceKey(t) \in KeySpace /\ makeTokenRolesKey(t) \in KeySpace
<1>1. t \in Seq(Byte) /\ Bytes[n] \in Seq(Byte)
  BY TokenAssumption, BytesDef
<1>2. t \o Bytes[n] \in Seq(Byte)
  BY <1>1, ConcatProperties
<1> QED BY <1>1, <1>2 DEF makeTokenKey, makeLastNonceKey, makeTokenRolesKey, Key, KeySpace

\* The keys of last nonces and roles.
LEMMA NamedKeyTypes ==
    ASSUME NEW t \in Token
    PROVE  /\ makeLastNonceKey(t) = [prefix |-> "nonce", rest |-> t] /\ makeLastNonceKey(t) \in KeySpace
           /\ makeTokenRolesKey(t) = [prefix |-> "role", rest |-> t] /\ makeTokenRolesKey(t) \in KeySpace
<1>1. t \in Seq(Byte)
  BY TokenAssumption
<1> QED BY <1>1 DEF makeLastNonceKey, makeTokenRolesKey, Key, KeySpace

\* Token data under a key made of a name and a nonce.
LEMMA InstanceIsSound ==
    ASSUME NEW A, NEW R, NEW t \in Token, NEW n \in Nonce, NEW v \in TokenData(A),
           v.meta.stored => v.meta.nonce = n
    PROVE  SoundEntry(A, R, makeTokenKey(t, n), v)
  BY KeyTypes DEF SoundEntry, InstanceEntry

----------------------------------------------------------------------------
(* What setState writes *)

IsUnits(i, A) == i.nonce \in Nonce /\ i.balance \in Nat /\ i.attrs \in A

IsMockESDTData(d, A, R) ==
    /\ d.token \in Token /\ d.lastNonce \in Nat /\ d.roles \in R
    /\ d.instances \in Seq(Range(d.instances))
    /\ \A i \in 1..Len(d.instances) : IsUnits(d.instances[i], A)

\* An instance is written.
LEMMA WriteInstanceType ==
    ASSUME NEW A, NEW R, NEW t \in Token, NEW s \in Storages(A, R), NEW i, IsUnits(i, A)
    PROVE  WriteInstance(t, s, i) \in Storages(A, R)
<1> DEFINE v == Instance(i.balance, MetaData(i.nonce, i.attrs))
<1>1. v \in TokenData(A) /\ (v.meta.stored => v.meta.nonce = i.nonce)
  BY DEF IsUnits, Instance, MetaData, TokenData
<1> HIDE DEF v
<1>2. i.nonce \in Nonce
  BY DEF IsUnits
<1>3. SoundEntry(A, R, makeTokenKey(t, i.nonce), v)
  BY <1>1, <1>2, InstanceIsSound
<1>4. Put(s, makeTokenKey(t, i.nonce), v) \in Storages(A, R)
  BY <1>2, <1>3, KeyTypes, PutSound
<1> QED BY <1>4 DEF WriteInstance, v

\* The instances of d, written to s.
Written(s, d) == FoldLeft(LAMBDA x, i : WriteInstance(d.token, x, i), s, d.instances)

\* What is done at each instance.
InstanceSteps(d, X) ==
    [i \in 1..Len(d.instances) |-> [x \in X |-> WriteInstance(d.token, x, d.instances[i])]]

InstancesIter(s0, d, f) ==
    [s \in SUBSET DOMAIN d.instances |->
        IF s = {} THEN s0 ELSE WriteInstance(d.token, f[s \ {Max(s)}], d.instances[Max(s)])]

\* Writing the instances is a fold.
LEMMA WrittenFold ==
    ASSUME NEW s, NEW d
    PROVE  Written(s, d) = (CHOOSE f : f = InstancesIter(s, d, f))[DOMAIN d.instances]
  BY DEF Written, FoldLeft, MapThenFoldSet, InstancesIter

\* The steps stay among the storages.
LEMMA InstanceStepsType ==
    ASSUME NEW A, NEW R, NEW d, IsMockESDTData(d, A, R)
    PROVE  InstanceSteps(d, Storages(A, R)) \in Steps(Len(d.instances), Storages(A, R))
<1>1. \A i \in 1..Len(d.instances) : \A x \in Storages(A, R) :
        WriteInstance(d.token, x, d.instances[i]) \in Storages(A, R)
  BY WriteInstanceType DEF IsMockESDTData
<1> QED BY <1>1 DEF InstanceSteps, Steps

\* The storage after each instance.
LEMMA WrittenTrace ==
    ASSUME NEW A, NEW R, NEW d, IsMockESDTData(d, A, R), NEW s0 \in Storages(A, R)
    PROVE  \E h : /\ IsTrace(h, Len(d.instances), Storages(A, R), s0, InstanceSteps(d, Storages(A, R)))
                  /\ Written(s0, d) = h[Len(d.instances)]
<1> DEFINE n == Len(d.instances)
           X == Storages(A, R)
           Z == InstanceSteps(d, X)
           f == CHOOSE f : f = InstancesIter(s0, d, f)
<1>1. n \in Nat /\ DOMAIN d.instances = 1..n /\ Z \in Steps(n, X) /\ s0 \in X
  BY InstanceStepsType, LenProperties DEF IsMockESDTData
<1>2. \A i \in 1..n : \A x \in X : Z[i][x] = WriteInstance(d.token, x, d.instances[i])
  BY DEF InstanceSteps
<1> HIDE DEF n, Z, X
<1>3. PICK g : IsFold(g, n, X, s0, Z)
  BY <1>1, FoldExists
<1>4. g = InstancesIter(s0, d, g)
  <2>1. ASSUME NEW s \in SUBSET (1..n), s # {}
        PROVE  g[s] = WriteInstance(d.token, g[s \ {Max(s)}], d.instances[Max(s)])
    <3>1. Max(s) \in 1..n /\ s \ {Max(s)} \in SUBSET (1..n)
      BY <1>1, <2>1, MaxIsIn
    <3>2. g[s \ {Max(s)}] \in X /\ g[s] = Z[Max(s)][g[s \ {Max(s)}]]
      BY <1>3, <2>1, <3>1 DEF IsFold
    <3> QED BY <1>2, <3>1, <3>2
  <2>2. g[{}] = s0 /\ g \in [SUBSET (1..n) -> X]
    BY <1>3 DEF IsFold
  <2> QED BY <1>1, <2>1, <2>2 DEF InstancesIter
<1>5. f = InstancesIter(s0, d, f)
  BY <1>4
<1>6. Written(s0, d) = f[1..n]
  BY <1>1, WrittenFold
<1> HIDE DEF f
<1>7. f[{}] = s0
  BY <1>5 DEF InstancesIter
<1>8. \A m \in 1..n : f[1..(m - 1)] \in X => f[1..m] = Z[m][f[1..(m - 1)]]
  <2> SUFFICES ASSUME NEW m \in 1..n, f[1..(m - 1)] \in X PROVE f[1..m] = Z[m][f[1..(m - 1)]]
    OBVIOUS
  <2>1. m \in Nat /\ m # 0 /\ 1..m \in SUBSET (1..n)
    BY <1>1
  <2>2. Max(1..m) = m /\ (1..m) \ {m} = 1..(m - 1) /\ 1..m # {}
    BY <2>1, MaxOfFirst
  <2>3. f[1..m] = WriteInstance(d.token, f[1..(m - 1)], d.instances[m])
    BY <1>1, <1>5, <2>1, <2>2 DEF InstancesIter
  <2> QED BY <1>2, <2>3
<1>9. IsTrace(First(f, n), n, X, s0, Z)
  BY <1>1, <1>7, <1>8, FoldTrace
<1>10. First(f, n)[n] = f[1..n]
  BY <1>1 DEF First
<1> QED BY <1>6, <1>9, <1>10 DEF n, X, Z

\* Writing the instances of a token leaves a storage.
LEMMA WrittenType ==
    ASSUME NEW A, NEW R, NEW d, IsMockESDTData(d, A, R), NEW s \in Storages(A, R)
    PROVE  Written(s, d) \in Storages(A, R)
<1>1. PICK h : /\ IsTrace(h, Len(d.instances), Storages(A, R), s, InstanceSteps(d, Storages(A, R)))
               /\ Written(s, d) = h[Len(d.instances)]
  BY WrittenTrace
<1>2. Len(d.instances) \in 0..Len(d.instances)
  BY LenProperties DEF IsMockESDTData
<1> QED BY <1>1, <1>2 DEF IsTrace

\* What WriteToken does after the instances.
LEMMA WriteTokenIs ==
    ASSUME NEW s, NEW d
    PROVE  WriteToken(s, d) = Put(Put(Written(s, d), makeLastNonceKey(d.token), Bytes[d.lastNonce]),
                                  makeTokenRolesKey(d.token), d.roles)
  BY DEF WriteToken, Written

\* Writing a token leaves a storage.
LEMMA WriteTokenType ==
    ASSUME NEW A, NEW R, NEW d, IsMockESDTData(d, A, R), NEW s \in Storages(A, R)
    PROVE  WriteToken(s, d) \in Storages(A, R)
<1> DEFINE t == d.token
           z == Put(Written(s, d), makeLastNonceKey(t), Bytes[d.lastNonce])
<1>1. t \in Token /\ Bytes[d.lastNonce] \in Seq(Byte) /\ d.roles \in R
  BY BytesDef DEF IsMockESDTData
<1>2. SoundEntry(A, R, makeLastNonceKey(t), Bytes[d.lastNonce]) /\ makeLastNonceKey(t) \in KeySpace
  BY <1>1, NamedKeyTypes DEF SoundEntry
<1>3. SoundEntry(A, R, makeTokenRolesKey(t), d.roles) /\ makeTokenRolesKey(t) \in KeySpace
  BY <1>1, NamedKeyTypes DEF SoundEntry
<1>4. z \in Storages(A, R)
  BY <1>2, WrittenType, PutSound
<1> HIDE DEF z
<1>5. Put(z, makeTokenRolesKey(t), d.roles) \in Storages(A, R)
  BY <1>3, <1>4, PutSound
<1> QED BY <1>5, WriteTokenIs DEF z

IsESDT(data, A, R) ==
    data \in Seq(Range(data)) /\ \A i \in 1..Len(data) : IsMockESDTData(data[i], A, R)

\* What is done at each token.
TokenSteps(data, X) == [i \in 1..Len(data) |-> [x \in X |-> WriteToken(x, data[i])]]

TokensIter(s0, data, f) ==
    [s \in SUBSET DOMAIN data |->
        IF s = {} THEN s0 ELSE WriteToken(f[s \ {Max(s)}], data[Max(s)])]

\* Writing the tokens of an account is a fold.
LEMMA TokensFold ==
    ASSUME NEW s, NEW data
    PROVE  WriteScenariosESDTToStorage(data, s) = (CHOOSE f : f = TokensIter(s, data, f))[DOMAIN data]
  BY DEF WriteScenariosESDTToStorage, FoldLeft, MapThenFoldSet, TokensIter

\* The steps stay among the storages.
LEMMA TokenStepsType ==
    ASSUME NEW A, NEW R, NEW data, IsESDT(data, A, R)
    PROVE  TokenSteps(data, Storages(A, R)) \in Steps(Len(data), Storages(A, R))
<1>1. \A i \in 1..Len(data) : \A x \in Storages(A, R) : WriteToken(x, data[i]) \in Storages(A, R)
  BY WriteTokenType DEF IsESDT
<1> QED BY <1>1 DEF TokenSteps, Steps

\* The storage after each token.
LEMMA TokensTrace ==
    ASSUME NEW A, NEW R, NEW data, IsESDT(data, A, R), NEW s0 \in Storages(A, R)
    PROVE  \E h : /\ IsTrace(h, Len(data), Storages(A, R), s0, TokenSteps(data, Storages(A, R)))
                  /\ WriteScenariosESDTToStorage(data, s0) = h[Len(data)]
<1> DEFINE n == Len(data)
           X == Storages(A, R)
           Z == TokenSteps(data, X)
           f == CHOOSE f : f = TokensIter(s0, data, f)
<1>1. n \in Nat /\ DOMAIN data = 1..n /\ Z \in Steps(n, X) /\ s0 \in X
  BY TokenStepsType, LenProperties DEF IsESDT
<1>2. \A i \in 1..n : \A x \in X : Z[i][x] = WriteToken(x, data[i])
  BY DEF TokenSteps
<1> HIDE DEF n, Z, X
<1>3. PICK g : IsFold(g, n, X, s0, Z)
  BY <1>1, FoldExists
<1>4. g = TokensIter(s0, data, g)
  <2>1. ASSUME NEW s \in SUBSET (1..n), s # {}
        PROVE  g[s] = WriteToken(g[s \ {Max(s)}], data[Max(s)])
    <3>1. Max(s) \in 1..n /\ s \ {Max(s)} \in SUBSET (1..n)
      BY <1>1, <2>1, MaxIsIn
    <3>2. g[s \ {Max(s)}] \in X /\ g[s] = Z[Max(s)][g[s \ {Max(s)}]]
      BY <1>3, <2>1, <3>1 DEF IsFold
    <3> QED BY <1>2, <3>1, <3>2
  <2>2. g[{}] = s0 /\ g \in [SUBSET (1..n) -> X]
    BY <1>3 DEF IsFold
  <2> QED BY <1>1, <2>1, <2>2 DEF TokensIter
<1>5. f = TokensIter(s0, data, f)
  BY <1>4
<1>6. WriteScenariosESDTToStorage(data, s0) = f[1..n]
  BY <1>1, TokensFold
<1> HIDE DEF f
<1>7. f[{}] = s0
  BY <1>5 DEF TokensIter
<1>8. \A m \in 1..n : f[1..(m - 1)] \in X => f[1..m] = Z[m][f[1..(m - 1)]]
  <2> SUFFICES ASSUME NEW m \in 1..n, f[1..(m - 1)] \in X PROVE f[1..m] = Z[m][f[1..(m - 1)]]
    OBVIOUS
  <2>1. m \in Nat /\ m # 0 /\ 1..m \in SUBSET (1..n)
    BY <1>1
  <2>2. Max(1..m) = m /\ (1..m) \ {m} = 1..(m - 1) /\ 1..m # {}
    BY <2>1, MaxOfFirst
  <2>3. f[1..m] = WriteToken(f[1..(m - 1)], data[m])
    BY <1>1, <1>5, <2>1, <2>2 DEF TokensIter
  <2> QED BY <1>2, <2>3
<1>9. IsTrace(First(f, n), n, X, s0, Z)
  BY <1>1, <1>7, <1>8, FoldTrace
<1>10. First(f, n)[n] = f[1..n]
  BY <1>1 DEF First
<1> QED BY <1>6, <1>9, <1>10 DEF n, X, Z

\* The accounts setState may write, with metadata from A and roles from R.
IsSpecOf(spec, A, R) ==
    /\ DOMAIN spec.entries \in SUBSET EntryKey /\ IsFiniteSet(DOMAIN spec.entries)
    /\ spec.entries \in [DOMAIN spec.entries -> Entry]
    /\ IsESDT(spec.esdt, A, R)

PlainStorage(entries) == [k \in {Plain(e) : e \in DOMAIN entries} |-> entries[k.rest]]

\* The plain entries of an account.
LEMMA PlainStorageType ==
    ASSUME NEW A, NEW R, NEW spec, IsSpecOf(spec, A, R)
    PROVE  PlainStorage(spec.entries) \in Storages(A, R)
<1> DEFINE s == PlainStorage(spec.entries)
           D == DOMAIN spec.entries
<1>1. D \in SUBSET EntryKey /\ IsFiniteSet(D) /\ \A e \in D : spec.entries[e] \in Entry
  BY DEF IsSpecOf
<1>2. DOMAIN s = {Plain(e) : e \in D} /\ s = [k \in DOMAIN s |-> s[k]]
      /\ \A k \in DOMAIN s : s[k] = spec.entries[k.rest]
  BY DEF PlainStorage
<1> HIDE DEF s, D
<1>3. \A e \in D : Plain(e).prefix = "plain" /\ Plain(e).rest = e /\ Plain(e) \in KeySpace
  BY <1>1, CheckAssumption DEF Plain, Key, KeySpace
<1>4. IsFiniteSet({Plain(e) : e \in D})
  <2> DEFINE f == [e \in D |-> Plain(e)]
  <2>1. IsFiniteSet({f[e] : e \in D})
    BY <1>1, FiniteValues
  <2>2. {f[e] : e \in D} = {Plain(e) : e \in D}
    OBVIOUS
  <2> QED BY <2>1, <2>2
<1>5. \A k \in DOMAIN s : SoundEntry(A, R, k, s[k]) /\ k \in KeySpace
  BY <1>1, <1>2, <1>3 DEF SoundEntry
<1> QED BY <1>2, <1>4, <1>5, IsAStorage DEF s

\* The storage of an account that setState writes.
LEMMA ConvertedStorage ==
    ASSUME NEW A, NEW R, NEW spec, IsSpecOf(spec, A, R)
    PROVE  /\ convertAccount(spec).Storage = WriteScenariosESDTToStorage(spec.esdt, PlainStorage(spec.entries))
           /\ convertAccount(spec).Storage \in Storages(A, R)
<1>1. convertAccount(spec).Storage = WriteScenariosESDTToStorage(spec.esdt, PlainStorage(spec.entries))
  BY DEF convertAccount, PlainStorage
<1>2. PlainStorage(spec.entries) \in Storages(A, R) /\ IsESDT(spec.esdt, A, R)
  BY PlainStorageType DEF IsSpecOf
<1>3. PICK h : /\ IsTrace(h, Len(spec.esdt), Storages(A, R), PlainStorage(spec.entries),
                          TokenSteps(spec.esdt, Storages(A, R)))
               /\ WriteScenariosESDTToStorage(spec.esdt, PlainStorage(spec.entries)) = h[Len(spec.esdt)]
  BY <1>2, TokensTrace
<1>4. Len(spec.esdt) \in 0..Len(spec.esdt)
  BY <1>2, LenProperties DEF IsESDT
<1> QED BY <1>1, <1>3, <1>4 DEF IsTrace

----------------------------------------------------------------------------
(* Reading and changing a token *)

\* There is an empty storage.
LEMMA NoStorageType == ASSUME NEW A, NEW R PROVE NoStorage \in Storages(A, R) /\ DOMAIN NoStorage = {}
<1>1. DOMAIN NoStorage = {} /\ NoStorage = [k \in DOMAIN NoStorage |-> NoStorage[k]]
  BY DEF NoStorage
<1>2. IsFiniteSet(DOMAIN NoStorage) /\ DOMAIN NoStorage \in SUBSET KeySpace
  BY <1>1, FS_EmptySet
<1> QED BY <1>1, <1>2, IsAStorage

\* What is under the key of an instance.
LEMMA EntryOfKey ==
    ASSUME NEW A, NEW R, NEW s \in Storages(A, R), NEW k \in DOMAIN s, k.prefix = "esdt"
    PROVE  InstanceEntry(A, k, s[k])
<1>1. SoundEntry(A, R, k, s[k])
  BY StorageIs
<1> QED BY <1>1 DEF SoundEntry

\* NoToken may be under any key of an instance.
LEMMA NoTokenType ==
    ASSUME NEW A, NoAttrs \in A
    PROVE  /\ NoToken \in TokenData(A) /\ NoToken.meta.stored = FALSE /\ NoToken.value = 0
           /\ NoMetaData = [stored |-> FALSE, nonce |-> 0, attrs |-> NoAttrs] /\ NoToken.meta = NoMetaData
  BY DEF NoToken, NoMetaData, Instance, TokenData

\* Reading a token.
LEMMA GetTokenDataType ==
    ASSUME NEW A, NEW R, NoAttrs \in A, NEW s \in Storages(A, R), NEW z \in Storages(A, R),
           NEW t \in Token, NEW n \in Nonce
    PROVE  InstanceEntry(A, makeTokenKey(t, n), getTokenDataByKey(makeTokenKey(t, n), s, z))
<1> DEFINE k == makeTokenKey(t, n)
<1>1. k.prefix = "esdt" /\ \E u \in Token, m \in Nonce : k = makeTokenKey(u, m)
  BY KeyTypes
<1> HIDE DEF k
<1>2. InstanceEntry(A, k, NoToken)
  BY <1>1, NoTokenType DEF InstanceEntry
<1>3. CASE k \notin DOMAIN s \/ s[k] = NoToken
  BY <1>2, <1>3 DEF getTokenDataByKey, k
<1>4. CASE ~(k \notin DOMAIN s \/ s[k] = NoToken) /\ (k \notin DOMAIN z \/ z[k] = NoToken)
  <2>1. InstanceEntry(A, k, s[k])
    BY <1>1, <1>4, EntryOfKey
  <2> QED BY <1>4, <2>1 DEF getTokenDataByKey, k
<1>5. CASE ~(k \notin DOMAIN s \/ s[k] = NoToken) /\ ~(k \notin DOMAIN z \/ z[k] = NoToken)
  <2>1. InstanceEntry(A, k, s[k]) /\ InstanceEntry(A, k, z[k])
    BY <1>1, <1>5, EntryOfKey
  <2> DEFINE r == [s[k] EXCEPT !.meta = z[k].meta]
  <2>2. r \in TokenData(A) /\ r.meta = z[k].meta
    BY <2>1 DEF InstanceEntry, TokenData
  <2>3. getTokenDataByKey(k, s, z) = r
    BY <1>5 DEF getTokenDataByKey
  <2> HIDE DEF r
  <2>4. InstanceEntry(A, k, r)
    BY <2>1, <2>2 DEF InstanceEntry
  <2> QED BY <2>3, <2>4 DEF k
<1> QED BY <1>3, <1>4, <1>5

\* Token data under the key of an instance may be put there.
LEMMA PutEntry ==
    ASSUME NEW A, NEW R, NEW s \in Storages(A, R), NEW t \in Token, NEW n \in Nonce, NEW v,
           InstanceEntry(A, makeTokenKey(t, n), v)
    PROVE  Put(s, makeTokenKey(t, n), v) \in Storages(A, R)
<1>1. makeTokenKey(t, n) \in KeySpace /\ SoundEntry(A, R, makeTokenKey(t, n), v)
  BY KeyTypes DEF SoundEntry
<1> QED BY <1>1, PutSound

\* Token data without metadata.
LEMMA PlainEntry ==
    ASSUME NEW A, NoAttrs \in A, NEW t \in Token, NEW n \in Nonce, NEW x \in Nat
    PROVE  InstanceEntry(A, makeTokenKey(t, n), Instance(x, NoMetaData))
<1>1. Instance(x, NoMetaData) \in TokenData(A) /\ Instance(x, NoMetaData).meta.stored = FALSE
  BY DEF Instance, NoMetaData, TokenData
<1> QED BY <1>1 DEF InstanceEntry

\* SetTokenBalance leaves a storage.
LEMMA SetTokenBalanceType ==
    ASSUME NEW A, NEW R, NoAttrs \in A, NEW s \in Storages(A, R), NEW t \in Token, NEW n \in Nonce,
           NEW x \in Nat
    PROVE  SetTokenBalance(t, n, x, s) \in Storages(A, R)
<1> DEFINE k == makeTokenKey(t, n)
           r == getTokenDataByKey(k, s, NoStorage)
           v == [r EXCEPT !.value = x]
<1>1. InstanceEntry(A, k, r)
  BY NoStorageType, GetTokenDataType
<1> HIDE DEF r
<1>2. v \in TokenData(A) /\ v.meta = r.meta
  BY <1>1 DEF InstanceEntry, TokenData
<1> HIDE DEF v, k
<1>3. InstanceEntry(A, k, v)
  BY <1>1, <1>2 DEF InstanceEntry
<1>4. Put(s, k, v) \in Storages(A, R)
  BY <1>3, PutEntry DEF k
<1> QED BY <1>4 DEF SetTokenBalance, k, r, v

----------------------------------------------------------------------------
(* The inductive invariant *)

SpecData == UNION {Range(spec.esdt) : spec \in AccountSpec}
SpecUnits == UNION {Range(d.instances) : d \in SpecData}
SpecAttrs == {NoAttrs} \union {i.attrs : i \in SpecUnits}
SpecRoles == {{}} \union {d.roles : d \in SpecData}

\* What scenarios set is sound.
LEMMA SpecsAreSound ==
    /\ \A spec \in AccountSpec : IsSpecOf(spec, SpecAttrs, SpecRoles)
    /\ \A roles \in SpecRoles : IsFiniteSet(roles)
    /\ NoAttrs \in SpecAttrs
<1>1. ASSUME NEW spec \in AccountSpec PROVE IsSpecOf(spec, SpecAttrs, SpecRoles)
  <2> DEFINE data == spec.esdt
  <2>1. IsAccountSpec(spec)
    BY AccountAssumption
  <2>2. data \in Seq(Range(data)) /\ Range(data) \subseteq SpecData
    BY <2>1 DEF IsAccountSpec, SpecData
  <2>3. ASSUME NEW i \in 1..Len(data) PROVE IsMockESDTData(data[i], SpecAttrs, SpecRoles)
    <3> DEFINE d == data[i]
    <3>1. d \in Range(data) /\ d \in SpecData
      BY <2>2, ElementOfSeq
    <3>2. /\ d.token \in Token /\ d.lastNonce \in Nat /\ d.instances \in Seq(Range(d.instances))
          /\ \A u \in Range(d.instances) : u.nonce \in Nonce /\ u.balance \in Nat
      BY <2>1, <3>1 DEF IsAccountSpec
    <3>3. d.roles \in SpecRoles
      BY <3>1 DEF SpecRoles
    <3>4. Range(d.instances) \subseteq SpecUnits
      BY <3>1 DEF SpecUnits
    <3> HIDE DEF d
    <3>5. \A j \in 1..Len(d.instances) : d.instances[j] \in Range(d.instances)
      BY <3>2, ElementOfSeq
    <3>6. \A u \in SpecUnits : u.attrs \in SpecAttrs
      BY DEF SpecAttrs
    <3>7. \A j \in 1..Len(d.instances) : IsUnits(d.instances[j], SpecAttrs)
      BY <3>2, <3>4, <3>5, <3>6 DEF IsUnits
    <3>8. IsMockESDTData(d, SpecAttrs, SpecRoles)
      BY <3>2, <3>3, <3>7 DEF IsMockESDTData
    <3> QED BY <3>8 DEF d
  <2>4. IsESDT(data, SpecAttrs, SpecRoles)
    BY <2>2, <2>3 DEF IsESDT
  <2> QED BY <2>1, <2>4 DEF IsSpecOf, IsAccountSpec
<1>2. ASSUME NEW d \in SpecData PROVE IsFiniteSet(d.roles)
  <2>1. PICK spec \in AccountSpec : d \in Range(spec.esdt)
    BY DEF SpecData
  <2>2. IsAccountSpec(spec)
    BY AccountAssumption
  <2> QED BY <2>1, <2>2 DEF IsAccountSpec
<1> QED BY <1>1, <1>2, FS_EmptySet DEF SpecRoles, SpecAttrs

Storage0 == Storages(SpecAttrs, SpecRoles)
Balances == {0} \union {spec.balance : spec \in AccountSpec}
Owners == {NoOwner} \union {spec.owner : spec \in AccountSpec}
Accounts == [balance : Balances, owner : Owners, Storage : Storage0]

Addresses == Holder \union {SystemAccount}
AccountMaps == UNION {[D -> Accounts] : D \in SUBSET Addresses}

IInv ==
    /\ AcctMap \in AccountMaps
    /\ checked \in Check \union {<<>>}
    /\ verdict \in {"none", "ok", "error"}

\* Account maps, by what is in them.
LEMMA AccountMapIs ==
    ASSUME NEW m
    PROVE  m \in AccountMaps <=> /\ m = [a \in DOMAIN m |-> m[a]] /\ DOMAIN m \in SUBSET Addresses
                                 /\ \A a \in DOMAIN m : m[a] \in Accounts
<1>1. ASSUME m \in AccountMaps
      PROVE  /\ m = [a \in DOMAIN m |-> m[a]] /\ DOMAIN m \in SUBSET Addresses
             /\ \A a \in DOMAIN m : m[a] \in Accounts
  <2>1. PICK D \in SUBSET Addresses : m \in [D -> Accounts]
    BY <1>1 DEF AccountMaps
  <2> QED BY <2>1
<1>2. ASSUME m = [a \in DOMAIN m |-> m[a]], DOMAIN m \in SUBSET Addresses,
             \A a \in DOMAIN m : m[a] \in Accounts
      PROVE  m \in AccountMaps
  <2>1. m \in [DOMAIN m -> Accounts]
    BY <1>2
  <2> QED BY <1>2, <2>1 DEF AccountMaps
<1> QED BY <1>1, <1>2

\* An account setState writes.
LEMMA ConvertedAccount == ASSUME NEW spec \in AccountSpec PROVE convertAccount(spec) \in Accounts
<1>1. convertAccount(spec).Storage \in Storage0
  BY SpecsAreSound, ConvertedStorage DEF Storage0
<1>2. spec.balance \in Balances /\ spec.owner \in Owners
  BY DEF Balances, Owners
<1>3. convertAccount(spec) = [balance |-> spec.balance, owner |-> spec.owner,
                              Storage |-> convertAccount(spec).Storage]
  BY DEF convertAccount
<1> QED BY <1>1, <1>2, <1>3 DEF Accounts

\* An account nobody has set.
LEMMA NewAccountType == NewAccount \in Accounts
<1>1. NoStorage \in Storage0
  BY NoStorageType DEF Storage0
<1> QED BY <1>1 DEF NewAccount, Accounts, Balances, Owners

\* The metadata of NFTs are in a storage.
LEMMA SystemStorageType == ASSUME IInv PROVE SystemStorage \in Storage0
<1>1. \A a \in DOMAIN AcctMap : AcctMap[a].Storage \in Storage0
  BY AccountMapIs DEF IInv, Accounts
<1> QED BY <1>1, NoStorageType DEF SystemStorage, Storage0

\* An account with another storage.
LEMMA AnotherStorage ==
    ASSUME NEW acct \in Accounts, NEW s \in Storage0
    PROVE  [acct EXCEPT !.Storage = s] \in Accounts
  BY DEF Accounts

\* setState keeps the invariant.
LEMMA SetStateKeeps ==
    ASSUME IInv, NEW a \in Holder, NEW spec \in AccountSpec, SetState(a, spec)
    PROVE  IInv'
<1> DEFINE m == PutAccount(a, convertAccount(spec))
<1>1. AcctMap' = m /\ checked' = checked /\ verdict' = verdict
  BY DEF SetState, NotACheck
<1>2. /\ DOMAIN AcctMap \in SUBSET Addresses
      /\ \A x \in DOMAIN AcctMap : AcctMap[x] \in Accounts
  BY AccountMapIs DEF IInv
<1>3. convertAccount(spec) \in Accounts /\ a \in Addresses
  BY ConvertedAccount DEF Addresses
<1>4. /\ m = [x \in DOMAIN m |-> m[x]] /\ DOMAIN m = DOMAIN AcctMap \union {a}
      /\ \A x \in DOMAIN m : m[x] = IF x = a THEN convertAccount(spec) ELSE AcctMap[x]
  BY DEF PutAccount
<1> HIDE DEF m
<1>5. DOMAIN m \in SUBSET Addresses /\ \A x \in DOMAIN m : m[x] \in Accounts
  BY <1>2, <1>3, <1>4
<1>6. m \in AccountMaps
  BY <1>4, <1>5, AccountMapIs
<1> QED BY <1>1, <1>6 DEF IInv

\* A change of the storage of one account.
LEMMA OneStorage ==
    ASSUME NEW m \in AccountMaps, NEW a \in DOMAIN m, NEW s \in Storage0
    PROVE  [m EXCEPT ![a].Storage = s] \in AccountMaps
<1> DEFINE z == [m EXCEPT ![a].Storage = s]
<1>1. m = [x \in DOMAIN m |-> m[x]] /\ DOMAIN m \in SUBSET Addresses /\ \A x \in DOMAIN m : m[x] \in Accounts
  BY AccountMapIs
<1>2. /\ z = [x \in DOMAIN z |-> z[x]] /\ DOMAIN z = DOMAIN m
      /\ \A x \in DOMAIN z : z[x] = IF x = a THEN [m[a] EXCEPT !.Storage = s] ELSE m[x]
  BY <1>1
<1> HIDE DEF z
<1>3. \A x \in DOMAIN z : z[x] \in Accounts
  BY <1>1, <1>2, AnotherStorage
<1> QED BY <1>1, <1>2, <1>3, AccountMapIs DEF z

\* SetTokenBalance keeps the invariant.
LEMMA SetBalanceKeeps ==
    ASSUME IInv, NEW a \in DOMAIN AcctMap, NEW t \in Token, NEW n \in Nonce, NEW v \in Amount,
           SetBalance(a, t, n, v)
    PROVE  IInv'
<1> DEFINE s == SetTokenBalance(t, n, v, AcctMap[a].Storage)
<1>1. AcctMap' = [AcctMap EXCEPT ![a].Storage = s] /\ checked' = checked /\ verdict' = verdict
  BY DEF SetBalance, NotACheck
<1>2. AcctMap[a].Storage \in Storage0 /\ AcctMap \in AccountMaps
  BY AccountMapIs DEF IInv, Accounts
<1>3. s \in Storage0
  <2>1. v \in Nat /\ NoAttrs \in SpecAttrs
    BY AmountAssumption, SpecsAreSound
  <2> QED BY <1>2, <2>1, SetTokenBalanceType DEF Storage0
<1> HIDE DEF s
<1>4. [AcctMap EXCEPT ![a].Storage = s] \in AccountMaps
  BY <1>2, <1>3, OneStorage
<1> QED BY <1>1, <1>4 DEF IInv

\* A transfer keeps the invariant.
LEMMA TransferKeeps ==
    ASSUME IInv, NEW from \in DOMAIN AcctMap, NEW to \in DOMAIN AcctMap,
           NEW t \in Token, NEW n \in Nonce, NEW v \in Amount, Transfer(from, to, t, n, v)
    PROVE  IInv'
<1> DEFINE k    == makeTokenKey(t, n)
           F    == AcctMap[from].Storage
           T    == AcctMap[to].Storage
           sent == GetTokenData(t, n, F, SystemStorage)
           got  == GetTokenBalance(t, n, T)
           left == IF sent.value = v THEN NoToken ELSE Instance(sent.value - v, NoMetaData)
           sf   == Put(F, k, left)
           st   == Put(T, k, Instance(got + v, NoMetaData))
           ss   == Put(SystemStorage, k, Instance(0, sent.meta))
           m1   == [AcctMap EXCEPT ![from].Storage = sf]
           m2   == [m1 EXCEPT ![to].Storage = st]
           central == [NewAccount EXCEPT !.Storage = ss]
           m3   == [a \in DOMAIN AcctMap \union {SystemAccount} |-> IF a = SystemAccount THEN central ELSE m2[a]]
<1>1. /\ from # to /\ v <= sent.value
      /\ checked' = checked /\ verdict' = verdict
      /\ AcctMap' = IF n = 0 THEN [AcctMap EXCEPT ![from].Storage = sf, ![to].Storage = st]
                    ELSE [a \in DOMAIN AcctMap \union {SystemAccount} |->
                            IF a = SystemAccount THEN central
                            ELSE [AcctMap EXCEPT ![from].Storage = sf, ![to].Storage = st][a]]
  BY DEF Transfer, NotACheck
<1>2. AcctMap \in AccountMaps /\ F \in Storage0 /\ T \in Storage0 /\ SystemStorage \in Storage0
  BY AccountMapIs, SystemStorageType DEF IInv, Accounts
<1>3. InstanceEntry(SpecAttrs, k, sent)
  BY <1>2, SpecsAreSound, GetTokenDataType DEF GetTokenData, Storage0
<1>4. InstanceEntry(SpecAttrs, k, getTokenDataByKey(k, T, NoStorage))
  BY <1>2, SpecsAreSound, GetTokenDataType, NoStorageType DEF Storage0
<1>5. sent.value \in Nat /\ got \in Nat /\ v \in Nat
  <2>1. \A x \in TokenData(SpecAttrs) : x.value \in Nat
    BY DEF TokenData
  <2>2. got = getTokenDataByKey(k, T, NoStorage).value
    BY DEF GetTokenBalance, GetTokenData
  <2>3. sent \in TokenData(SpecAttrs) /\ getTokenDataByKey(k, T, NoStorage) \in TokenData(SpecAttrs)
    BY <1>3, <1>4 DEF InstanceEntry
  <2> HIDE DEF sent, got
  <2> QED BY <2>1, <2>2, <2>3, AmountAssumption
<1>6. InstanceEntry(SpecAttrs, k, Instance(0, sent.meta))
  <2> HIDE DEF sent
  <2> DEFINE c == Instance(0, sent.meta)
  <2>1. c \in TokenData(SpecAttrs) /\ c.meta = sent.meta
    BY <1>3 DEF InstanceEntry, TokenData, Instance
  <2> HIDE DEF c
  <2>2. InstanceEntry(SpecAttrs, k, c)
    BY <1>3, <2>1 DEF InstanceEntry
  <2> QED BY <2>2 DEF c
<1>7. InstanceEntry(SpecAttrs, k, left)
  <2> DEFINE rest == sent.value - v
  <2>1. rest \in Nat
    BY <1>1, <1>5
  <2>2. left = NoToken \/ left = Instance(rest, NoMetaData)
    OBVIOUS
  <2>3. NoToken = Instance(0, NoMetaData) /\ 0 \in Nat
    BY DEF NoToken
  <2> HIDE DEF left, rest
  <2> QED BY <2>1, <2>2, <2>3, PlainEntry, SpecsAreSound
<1>8. InstanceEntry(SpecAttrs, k, Instance(got + v, NoMetaData))
  <2> DEFINE sum == got + v
  <2>1. sum \in Nat
    BY <1>5
  <2> HIDE DEF sum
  <2>2. InstanceEntry(SpecAttrs, k, Instance(sum, NoMetaData))
    BY <2>1, PlainEntry, SpecsAreSound
  <2> QED BY <2>2 DEF sum
<1>9. sf \in Storage0 /\ st \in Storage0 /\ ss \in Storage0
  <2> DEFINE x == Instance(got + v, NoMetaData)
             y == Instance(0, sent.meta)
  <2>1. InstanceEntry(SpecAttrs, k, x) /\ InstanceEntry(SpecAttrs, k, y)
    BY <1>6, <1>8
  <2> HIDE DEF x, y, left
  <2>2. sf \in Storage0 /\ Put(T, k, x) \in Storage0 /\ Put(SystemStorage, k, y) \in Storage0
    BY <1>2, <1>7, <2>1, PutEntry DEF Storage0
  <2> QED BY <2>2 DEF x, y
<1> HIDE DEF sf, st, ss
<1>10. m1 \in AccountMaps /\ DOMAIN m1 = DOMAIN AcctMap
  BY <1>2, <1>9, OneStorage
<1>11. m2 \in AccountMaps /\ DOMAIN m2 = DOMAIN AcctMap
  <2> HIDE DEF m1
  <2> QED BY <1>9, <1>10, OneStorage
<1>12. [AcctMap EXCEPT ![from].Storage = sf, ![to].Storage = st] = m2
  OBVIOUS
<1>13. m3 \in AccountMaps
  <2>1. central \in Accounts
    BY <1>9, NewAccountType, AnotherStorage
  <2> HIDE DEF central, m2
  <2>2. /\ m3 = [x \in DOMAIN m3 |-> m3[x]] /\ DOMAIN m3 = DOMAIN AcctMap \union {SystemAccount}
        /\ \A x \in DOMAIN m3 : m3[x] = IF x = SystemAccount THEN central ELSE m2[x]
    OBVIOUS
  <2> HIDE DEF m3
  <2>3. DOMAIN m2 \in SUBSET Addresses /\ \A x \in DOMAIN m2 : m2[x] \in Accounts
    BY <1>11, AccountMapIs
  <2>4. DOMAIN m3 \in SUBSET Addresses /\ \A x \in DOMAIN m3 : m3[x] \in Accounts
    BY <1>11, <2>1, <2>2, <2>3 DEF Addresses
  <2> QED BY <2>2, <2>4, AccountMapIs
<1> HIDE DEF m2, central
<1>14. AcctMap' = m2 \/ AcctMap' = m3
  BY <1>1, <1>12
<1> HIDE DEF m3
<1> QED BY <1>1, <1>11, <1>13, <1>14 DEF IInv

\* The invariant holds at first.
LEMMA InitInvariant == Init => IInv
<1> SUFFICES ASSUME Init PROVE IInv
  OBVIOUS
<1>1. AcctMap = [a \in DOMAIN AcctMap |-> AcctMap[a]] /\ DOMAIN AcctMap = {}
  BY DEF Init
<1>2. AcctMap \in AccountMaps
  BY <1>1, AccountMapIs
<1> QED BY <1>2 DEF Init, IInv

\* Every step keeps the invariant.
LEMMA NextInvariant == IInv /\ [Next]_vars => IInv'
<1> SUFFICES ASSUME IInv, [Next]_vars PROVE IInv'
  OBVIOUS
<1>1. CASE \E a \in Holder, spec \in AccountSpec : SetState(a, spec)
  BY <1>1, SetStateKeeps
<1>2. CASE \E a \in DOMAIN AcctMap \ {SystemAccount}, t \in Token, n \in Nonce, v \in Amount :
             SetBalance(a, t, n, v)
  BY <1>2, SetBalanceKeeps
<1>3. CASE \E from, to \in DOMAIN AcctMap \ {SystemAccount}, t \in Token, n \in Nonce,
             v \in Amount : Transfer(from, to, t, n, v)
  BY <1>3, TransferKeeps
<1>4. CASE \E check \in Check : ExecuteCheckStateStep(check)
  BY <1>4 DEF ExecuteCheckStateStep, IInv
<1>5. CASE Continue
  BY <1>5 DEF Continue, IInv
<1>6. CASE UNCHANGED vars
  BY <1>6 DEF vars, IInv
<1> QED BY <1>1, <1>2, <1>3, <1>4, <1>5, <1>6 DEF Next

\* Every reachable state has storages with sound entries only.
LEMMA Invariant == Spec => []IInv
  BY InitInvariant, NextInvariant, PTL DEF Spec

----------------------------------------------------------------------------
(* Type correctness *)

\* The invariant implies the types.
LEMMA InvariantTypes == IInv => TypeOK
<1> SUFFICES ASSUME IInv PROVE TypeOK
  OBVIOUS
<1>1. /\ DOMAIN AcctMap \in SUBSET Addresses
      /\ \A a \in DOMAIN AcctMap : AcctMap[a].Storage \in Storage0
  BY AccountMapIs DEF IInv, Accounts
<1>2. ASSUME NEW a \in DOMAIN AcctMap, NEW k \in DOMAIN AcctMap[a].Storage
      PROVE  LET v == AcctMap[a].Storage[k]
             IN  CASE k.prefix = "plain" -> k.rest \in EntryKey /\ v \in Entry
                   [] k.prefix = "esdt"  -> IsTokenData(v)
                   [] k.prefix = "nonce" -> v \in Seq(Byte)
                   [] k.prefix = "role"  -> k.rest \in Token /\ IsFiniteSet(v)
  <2> DEFINE v == AcctMap[a].Storage[k]
  <2>1. SoundEntry(SpecAttrs, SpecRoles, k, v)
    BY <1>1, StorageIs DEF Storage0
  <2>2. v \in TokenData(SpecAttrs) => IsTokenData(v)
    BY DEF TokenData, IsTokenData
  <2> HIDE DEF v
  <2>3. CASE k.prefix = "plain" /\ k.rest \in EntryKey /\ v \in Entry
    BY <2>3 DEF v
  <2>4. CASE k.prefix = "esdt" /\ IsTokenData(v)
    BY <2>4 DEF v
  <2>5. CASE k.prefix = "nonce" /\ v \in Seq(Byte)
    BY <2>5 DEF v
  <2>6. CASE k.prefix = "role" /\ k.rest \in Token /\ IsFiniteSet(v)
    BY <2>6 DEF v
  <2> QED BY <2>1, <2>2, <2>3, <2>4, <2>5, <2>6, SpecsAreSound DEF SoundEntry, InstanceEntry
<1>3. DOMAIN AcctMap \subseteq Holder \union {SystemAccount}
  BY <1>1 DEF Addresses
<1> QED BY <1>2, <1>3 DEF TypeOK, IInv

\* Whatever is set, moved and checked, storages have the keys setState and the
\* builtin functions write, with values of their kind.
THEOREM TypeCorrect == Spec => []TypeOK
  BY Invariant, InvariantTypes, PTL

----------------------------------------------------------------------------
(* The scan finds what is there *)

\* The instances of a token that a storage has.
Holds(t, s) == {n \in Nonce : GetTokenBalance(t, n, s) > 0}

\* What is to be found of one of them.
Unit(t, n, s, z) ==
    [nonce |-> n, balance |-> GetTokenBalance(t, n, s), attrs |-> GetTokenData(t, n, s, z).meta.attrs]

TokensIn(s) ==
    {t \in Token : Holds(t, s) # {} \/ makeLastNonceKey(t) \in DOMAIN s \/ makeTokenRolesKey(t) \in DOMAIN s}

LastNonceOf(t, s) == IF makeLastNonceKey(t) \in DOMAIN s THEN SetBytes(s[makeLastNonceKey(t)]) ELSE 0
RolesOf(t, s) == IF makeTokenRolesKey(t) \in DOMAIN s THEN s[makeTokenRolesKey(t)] ELSE {}

\* What is to be found of a token.
Find(t, s, z) ==
    [instances |-> {Unit(t, n, s, z) : n \in Holds(t, s)},
     lastNonce |-> LastNonceOf(t, s), roles |-> RolesOf(t, s)]

\* The balance of an instance does not depend on the system account.
LEMMA BalanceOfData ==
    ASSUME NEW k, NEW s, NEW z
    PROVE  getTokenDataByKey(k, s, z).value = getTokenDataByKey(k, s, NoStorage).value
<1>1. CASE k \notin DOMAIN s \/ s[k] = NoToken
  BY <1>1 DEF getTokenDataByKey
<1>2. CASE ~(k \notin DOMAIN s \/ s[k] = NoToken)
  <2>1. k \notin DOMAIN NoStorage
    BY DEF NoStorage
  <2>2. getTokenDataByKey(k, s, NoStorage) = s[k]
    BY <1>2, <2>1 DEF getTokenDataByKey
  <2>3. [s[k] EXCEPT !.meta = z[k].meta].value = s[k].value
    OBVIOUS
  <2>4. getTokenDataByKey(k, s, z) = s[k] \/ getTokenDataByKey(k, s, z) = [s[k] EXCEPT !.meta = z[k].meta]
    BY <1>2 DEF getTokenDataByKey
  <2> QED BY <2>2, <2>3, <2>4
<1> QED BY <1>1, <1>2

\* The balance of an instance is a number, and 0 if there is no entry.
LEMMA BalanceType ==
    ASSUME NEW A, NEW R, NoAttrs \in A, NEW s \in Storages(A, R), NEW t \in Token, NEW n \in Nonce
    PROVE  /\ GetTokenBalance(t, n, s) \in Nat
           /\ GetTokenBalance(t, n, s) > 0 => makeTokenKey(t, n) \in DOMAIN s
           /\ makeTokenKey(t, n) \in DOMAIN s => GetTokenBalance(t, n, s) = s[makeTokenKey(t, n)].value
<1> DEFINE k == makeTokenKey(t, n)
           r == getTokenDataByKey(k, s, NoStorage)
<1>1. GetTokenBalance(t, n, s) = r.value
  BY DEF GetTokenBalance, GetTokenData
<1>2. r \in TokenData(A)
  <2>1. InstanceEntry(A, k, r)
    BY NoStorageType, GetTokenDataType
  <2> QED BY <2>1 DEF InstanceEntry
<1>3. r.value \in Nat
  <2> HIDE DEF r
  <2> QED BY <1>2 DEF TokenData
<1>4. k \notin DOMAIN s => r = NoToken
  BY DEF getTokenDataByKey
<1>5. k \in DOMAIN s => r = s[k]
  <2>1. k \notin DOMAIN NoStorage
    BY DEF NoStorage
  <2> QED BY <2>1 DEF getTokenDataByKey
<1>6. NoToken.value = 0
  BY DEF NoToken, Instance
<1> QED BY <1>1, <1>3, <1>4, <1>5, <1>6

\* The scan loads an instance with its own name, nonce and balance.
LEMMA LoadedIs ==
    ASSUME KeysComeApart, NEW A, NEW R, NoAttrs \in A, NEW s \in Storages(A, R), NEW z \in Storages(A, R),
           NEW t \in Token, NEW n \in Nonce
    PROVE  loadMockESDTDataInstance(makeTokenKey(t, n), s, z) =
             [token |-> t, balance |-> GetTokenBalance(t, n, s),
              attrs |-> GetTokenData(t, n, s, z).meta.attrs, nonce |-> n]
<1> DEFINE k == makeTokenKey(t, n)
           data == getTokenDataByKey(k, s, z)
           id == extractTokenIdentifierAndNonceESDTWipe(k.rest)
<1>1. id = [token |-> t, nonce |-> n]
  BY KeyTypes, KeyComesApart
<1>2. PICK u \in Token, m \in Nonce : k = makeTokenKey(u, m) /\ (data.meta.stored => data.meta.nonce = m)
  BY GetTokenDataType DEF InstanceEntry
<1>3. id = [token |-> u, nonce |-> m]
  <2>1. makeTokenKey(u, m).rest = u \o Bytes[m]
    BY KeyTypes
  <2>2. extractTokenIdentifierAndNonceESDTWipe(u \o Bytes[m]) = [token |-> u, nonce |-> m]
    BY KeyComesApart
  <2> QED BY <1>2, <2>1, <2>2
<1>4. m = n /\ id.token = t /\ id.nonce = n
  <2>1. [token |-> t, nonce |-> n].nonce = n /\ [token |-> u, nonce |-> m].nonce = m
        /\ [token |-> t, nonce |-> n].token = t
    OBVIOUS
  <2> HIDE DEF id
  <2> QED BY <1>1, <1>3, <2>1
<1>5. data.value = GetTokenBalance(t, n, s)
  BY BalanceOfData DEF GetTokenBalance, GetTokenData
<1>6. data = GetTokenData(t, n, s, z)
  BY DEF GetTokenData
<1>7. loadMockESDTDataInstance(k, s, z) =
        [token |-> id.token, balance |-> data.value, attrs |-> data.meta.attrs,
         nonce |-> IF data.meta.stored THEN data.meta.nonce ELSE id.nonce]
  BY DEF loadMockESDTDataInstance
<1>8. (IF data.meta.stored THEN data.meta.nonce ELSE id.nonce) = n
  <2> HIDE DEF data, id
  <2> QED BY <1>2, <1>4
<1> HIDE DEF data, id
<1> QED BY <1>4, <1>5, <1>6, <1>7, <1>8

\* The keys the scan looks at are those of tokens.
LEMMA ScannedKeys ==
    ASSUME NEW A, NEW R, NEW s \in Storages(A, R)
    PROVE  /\ \A k \in KeysWith("esdt", s) : k \in DOMAIN s /\ \E t \in Token, n \in Nonce : k = makeTokenKey(t, n)
           /\ \A t \in Token, n \in Nonce : makeTokenKey(t, n) \in DOMAIN s => makeTokenKey(t, n) \in KeysWith("esdt", s)
           /\ {k.rest : k \in KeysWith("nonce", s) \union KeysWith("role", s)} =
                {t \in Token : makeLastNonceKey(t) \in DOMAIN s \/ makeTokenRolesKey(t) \in DOMAIN s}
<1>1. \A k \in DOMAIN s : SoundEntry(A, R, k, s[k]) /\ k \in KeySpace
  BY StorageIs
<1>2. \A k \in KeysWith("esdt", s) : k \in DOMAIN s /\ \E t \in Token, n \in Nonce : k = makeTokenKey(t, n)
  BY <1>1 DEF KeysWith, SoundEntry, InstanceEntry
<1>3. \A t \in Token, n \in Nonce : makeTokenKey(t, n) \in DOMAIN s => makeTokenKey(t, n) \in KeysWith("esdt", s)
  BY KeyTypes DEF KeysWith
<1>4. ASSUME NEW k \in KeysWith("nonce", s) \union KeysWith("role", s)
      PROVE  k.rest \in Token /\ (makeLastNonceKey(k.rest) \in DOMAIN s \/ makeTokenRolesKey(k.rest) \in DOMAIN s)
  <2>1. k \in DOMAIN s /\ k.prefix \in {"nonce", "role"}
    BY DEF KeysWith
  <2>2. k = [prefix |-> k.prefix, rest |-> k.rest]
    BY <1>1, <2>1 DEF KeySpace
  <2>3. k.rest \in Token
    BY <1>1, <2>1 DEF SoundEntry
  <2>4. makeLastNonceKey(k.rest) = [prefix |-> "nonce", rest |-> k.rest]
        /\ makeTokenRolesKey(k.rest) = [prefix |-> "role", rest |-> k.rest]
    BY <2>3, NamedKeyTypes
  <2> QED BY <2>1, <2>2, <2>3, <2>4
<1>5. ASSUME NEW t \in Token, makeLastNonceKey(t) \in DOMAIN s \/ makeTokenRolesKey(t) \in DOMAIN s
      PROVE  \E k \in KeysWith("nonce", s) \union KeysWith("role", s) : k.rest = t
  <2>1. /\ makeLastNonceKey(t).prefix = "nonce" /\ makeLastNonceKey(t).rest = t
        /\ makeTokenRolesKey(t).prefix = "role" /\ makeTokenRolesKey(t).rest = t
    BY NamedKeyTypes
  <2> QED BY <1>5, <2>1 DEF KeysWith
<1>6. {k.rest : k \in KeysWith("nonce", s) \union KeysWith("role", s)} =
        {t \in Token : makeLastNonceKey(t) \in DOMAIN s \/ makeTokenRolesKey(t) \in DOMAIN s}
  <2> DEFINE K == KeysWith("nonce", s) \union KeysWith("role", s)
             P(t) == makeLastNonceKey(t) \in DOMAIN s \/ makeTokenRolesKey(t) \in DOMAIN s
  <2>1. \A k \in K : k.rest \in Token /\ P(k.rest)
    BY <1>4
  <2>2. \A t \in Token : P(t) => \E k \in K : k.rest = t
    BY <1>5
  <2> HIDE DEF K, P
  <2>3. {k.rest : k \in K} = {t \in Token : P(t)}
    BY <2>1, <2>2
  <2> QED BY <2>3 DEF K, P
<1> QED BY <1>2, <1>3, <1>6

\* GetFullMockESDTData is a function from tokens to what there is of them.
LEMMA ScanIsComplete ==
    ASSUME KeysComeApart, NEW A, NEW R, NoAttrs \in A, NEW s \in Storages(A, R), NEW z \in Storages(A, R)
    PROVE  GetFullMockESDTData(s, z) = [t \in TokensIn(s) |-> Find(t, s, z)]
<1> DEFINE loaded == {loadMockESDTDataInstance(k, s, z) : k \in KeysWith("esdt", s)}
           held == {i \in loaded : i.balance > 0}
           named == {k.rest : k \in KeysWith("nonce", s) \union KeysWith("role", s)}
           full == GetFullMockESDTData(s, z)
           Data(t) == [instances |-> {[nonce |-> i.nonce, balance |-> i.balance, attrs |-> i.attrs] :
                                        i \in {j \in held : j.token = t}},
                       lastNonce |-> LastNonceOf(t, s), roles |-> RolesOf(t, s)]
           Record(t, n) == [token |-> t, balance |-> GetTokenBalance(t, n, s),
                            attrs |-> GetTokenData(t, n, s, z).meta.attrs, nonce |-> n]
<1>1. full = [t \in {i.token : i \in held} \union named |-> Data(t)]
  BY DEF GetFullMockESDTData, LastNonceOf, RolesOf
<1>2. \A t \in Token, n \in Nonce : loadMockESDTDataInstance(makeTokenKey(t, n), s, z) = Record(t, n)
  BY LoadedIs
<1>3. \A t \in Token, n \in Nonce : n \in Holds(t, s) => Record(t, n) \in held
  <2> SUFFICES ASSUME NEW t \in Token, NEW n \in Nonce, n \in Holds(t, s) PROVE Record(t, n) \in held
    OBVIOUS
  <2>1. GetTokenBalance(t, n, s) > 0 /\ makeTokenKey(t, n) \in DOMAIN s
    BY BalanceType DEF Holds
  <2>2. makeTokenKey(t, n) \in KeysWith("esdt", s)
    BY <2>1, ScannedKeys
  <2>3. Record(t, n) \in loaded
    <3> HIDE DEF Record
    <3> QED BY <1>2, <2>2
  <2>4. Record(t, n).balance > 0
    BY <2>1
  <2> HIDE DEF Record, loaded
  <2> QED BY <2>3, <2>4
<1>4. \A i \in held : \E t \in Token, n \in Nonce : n \in Holds(t, s) /\ i = Record(t, n)
  <2> SUFFICES ASSUME NEW i \in held PROVE \E t \in Token, n \in Nonce : n \in Holds(t, s) /\ i = Record(t, n)
    OBVIOUS
  <2>1. PICK k \in KeysWith("esdt", s) : i = loadMockESDTDataInstance(k, s, z)
    OBVIOUS
  <2>2. PICK t \in Token, n \in Nonce : k = makeTokenKey(t, n)
    BY ScannedKeys
  <2>3. i = Record(t, n)
    <3> HIDE DEF Record
    <3> QED BY <1>2, <2>1, <2>2
  <2>4. GetTokenBalance(t, n, s) > 0
    <3>1. i.balance > 0
      OBVIOUS
    <3>2. Record(t, n).balance = GetTokenBalance(t, n, s)
      OBVIOUS
    <3> HIDE DEF Record, held, loaded
    <3> QED BY <2>3, <3>1, <3>2
  <2> HIDE DEF Record, held, loaded
  <2> QED BY <2>3, <2>4 DEF Holds
<1>5. \A t, n : /\ Record(t, n).token = t /\ Record(t, n).nonce = n
                /\ [nonce |-> Record(t, n).nonce, balance |-> Record(t, n).balance, attrs |-> Record(t, n).attrs]
                     = Unit(t, n, s, z)
  BY DEF Unit
<1>6. named = {t \in Token : makeLastNonceKey(t) \in DOMAIN s \/ makeTokenRolesKey(t) \in DOMAIN s}
  BY ScannedKeys
<1> HIDE DEF Record, held, named
<1>7. {i.token : i \in held} = {t \in Token : Holds(t, s) # {}}
  <2>1. \A t : \A n \in Holds(t, s) : n \in Nonce
    BY DEF Holds
  <2>2. \A i \in held : i.token \in Token /\ Holds(i.token, s) # {}
    BY <1>4, <1>5
  <2>3. \A t \in Token : Holds(t, s) # {} => \E i \in held : i.token = t
    BY <1>3, <1>5, <2>1
  <2> QED BY <2>2, <2>3
<1>8. {i.token : i \in held} \union named = TokensIn(s)
  BY <1>6, <1>7 DEF TokensIn
<1>9. ASSUME NEW t \in Token
      PROVE  {[nonce |-> i.nonce, balance |-> i.balance, attrs |-> i.attrs] : i \in {j \in held : j.token = t}}
               = {Unit(t, n, s, z) : n \in Holds(t, s)}
  <2> DEFINE Cut(i) == [nonce |-> i.nonce, balance |-> i.balance, attrs |-> i.attrs]
             mine == {j \in held : j.token = t}
  <2>1. \A n \in Holds(t, s) : n \in Nonce
    BY DEF Holds
  <2>2. \A i \in mine : \E n \in Holds(t, s) : i = Record(t, n)
    BY <1>4, <1>5
  <2>3. \A n \in Holds(t, s) : Record(t, n) \in mine
    BY <1>3, <1>5, <2>1
  <2>4. \A n : Cut(Record(t, n)) = Unit(t, n, s, z)
    BY <1>5
  <2> HIDE DEF mine, Cut
  <2>5. {Cut(i) : i \in mine} = {Unit(t, n, s, z) : n \in Holds(t, s)}
    BY <2>2, <2>3, <2>4
  <2> QED BY <2>5 DEF mine, Cut
<1>10. \A t \in TokensIn(s) : Data(t) = Find(t, s, z)
  BY <1>9 DEF Find, TokensIn
<1> HIDE DEF Data, full
<1>11. full = [t \in TokensIn(s) |-> Data(t)]
  BY <1>1, <1>8
<1>12. full = [t \in TokensIn(s) |-> Find(t, s, z)]
  BY <1>10, <1>11
<1> QED BY <1>12 DEF full

\* The invariant implies that the scan is complete, if keys come apart.
LEMMA InvariantComplete == KeysComeApart /\ IInv => FullDataIsComplete
<1> SUFFICES ASSUME KeysComeApart, IInv, NEW a \in DOMAIN AcctMap, NEW t \in Token
             PROVE  LET full == FullData(a)
                    IN  {<<i.nonce, i.balance>> : i \in IF t \in DOMAIN full THEN full[t].instances ELSE {}}
                          = {<<n, GetTokenBalance(t, n, AcctMap[a].Storage)>> : n \in
                                {m \in Nonce : GetTokenBalance(t, m, AcctMap[a].Storage) > 0}}
  BY DEF FullDataIsComplete
<1> DEFINE s == AcctMap[a].Storage
           z == SystemStorage
           full == FullData(a)
           units == IF t \in DOMAIN full THEN full[t].instances ELSE {}
<1>1. s \in Storage0 /\ z \in Storage0
  BY AccountMapIs, SystemStorageType DEF IInv, Accounts
<1>2. full = [u \in TokensIn(s) |-> Find(u, s, z)]
  BY <1>1, SpecsAreSound, ScanIsComplete DEF FullData, Storage0
<1> HIDE DEF full, z
<1>3. units = {Unit(t, n, s, z) : n \in Holds(t, s)}
  <2>1. CASE t \in TokensIn(s)
    BY <1>2, <2>1 DEF Find
  <2>2. CASE t \notin TokensIn(s)
    <3>1. Holds(t, s) = {}
      BY <2>2 DEF TokensIn
    <3> QED BY <1>2, <2>2, <3>1
  <2> QED BY <2>1, <2>2
<1>4. \A n : Unit(t, n, s, z).nonce = n /\ Unit(t, n, s, z).balance = GetTokenBalance(t, n, s)
  BY DEF Unit
<1> HIDE DEF units, s
<1>5. {<<i.nonce, i.balance>> : i \in units} = {<<n, GetTokenBalance(t, n, s)>> : n \in Holds(t, s)}
  <2>1. \A i \in units : \E n \in Holds(t, s) : i.nonce = n /\ i.balance = GetTokenBalance(t, n, s)
    BY <1>3, <1>4
  <2>2. \A n \in Holds(t, s) : \E i \in units : i.nonce = n /\ i.balance = GetTokenBalance(t, n, s)
    BY <1>3, <1>4
  <2> QED BY <2>1, <2>2
<1> QED BY <1>5 DEF s, full, units, Holds

\* GetFullMockESDTData finds every token of an account and nothing else, whatever
\* transactions have left in its storage, if identifiers are well formed and no
\* byte of a nonce is the separator.
THEOREM ScanFindsAll == KeysComeApart /\ Spec => []FullDataIsComplete
<1> SUFFICES ASSUME KeysComeApart PROVE Spec => []FullDataIsComplete
  OBVIOUS
<1>1. IInv => FullDataIsComplete
  BY InvariantComplete
<1> QED BY <1>1, Invariant, PTL

----------------------------------------------------------------------------
(* What is dumped can be set again *)

\* Map order is some order.
LEMMA OrderOfSet ==
    ASSUME NEW S, IsFiniteSet(S)
    PROVE  AnyOrder(S) \in Seq(S) /\ Range(AnyOrder(S)) = S
<1> DEFINE n == Cardinality(S)
           f == AnyOrder(S)
<1>1. n \in Nat
  BY FS_CardinalityType
<1>2. ExistsBijection(1..n, S)
  BY FS_NatBijection, FS_CountingElements
<1>3. \E g \in [1..n -> S] : IsInjective(g)
  BY <1>2 DEF ExistsBijection, Bijection, Injection
<1>4. f \in [1..n -> S] /\ IsInjective(f)
  BY <1>3 DEF AnyOrder, SetToSeq
<1> HIDE DEF f
<1>5. f \in Injection(1..n, S)
  BY <1>4 DEF Injection
<1>6. IsFiniteSet(1..n) /\ Cardinality(1..n) = n
  BY <1>1, FS_Interval
<1>7. f \in Surjection(1..n, S)
  BY <1>5, <1>6, FS_Injection
<1>8. \A y \in S : \E x \in 1..n : f[x] = y
  BY <1>7 DEF Surjection
<1>9. Range(f) = S
  BY <1>4, <1>8 DEF Range
<1>10. f \in Seq(S)
  BY <1>1, <1>4, SeqDef
<1> QED BY <1>9, <1>10 DEF f

\* The token a key names.
TokenOfKey(k) == IF k.prefix = "esdt" THEN extractTokenIdentifierAndNonceESDTWipe(k.rest).token ELSE k.rest
NonceOfKey(k) == extractTokenIdentifierAndNonceESDTWipe(k.rest).nonce

\* Each kind of key names its token and its nonce.
LEMMA KeysName ==
    ASSUME KeysComeApart, NEW t \in Token, NEW n \in Nonce
    PROVE  /\ TokenOfKey(makeTokenKey(t, n)) = t /\ NonceOfKey(makeTokenKey(t, n)) = n
           /\ TokenOfKey(makeLastNonceKey(t)) = t /\ TokenOfKey(makeTokenRolesKey(t)) = t
<1>1. extractTokenIdentifierAndNonceESDTWipe(makeTokenKey(t, n).rest) = [token |-> t, nonce |-> n]
  BY KeyTypes, KeyComesApart
<1>2. makeTokenKey(t, n).prefix = "esdt"
  BY KeyTypes
<1> QED BY <1>1, <1>2, NamedKeyTypes DEF TokenOfKey, NonceOfKey

\* A storage has finitely many tokens, with finitely many instances.
LEMMA FinitelyManyTokens ==
    ASSUME KeysComeApart, NEW A, NEW R, NoAttrs \in A, NEW s \in Storages(A, R)
    PROVE  IsFiniteSet(TokensIn(s)) /\ \A t \in Token : IsFiniteSet(Holds(t, s))
<1> DEFINE f == [k \in DOMAIN s |-> TokenOfKey(k)]
           g == [k \in DOMAIN s |-> NonceOfKey(k)]
<1>1. IsFiniteSet(DOMAIN s)
  BY StorageIs
<1>2. IsFiniteSet({f[k] : k \in DOMAIN s}) /\ IsFiniteSet({g[k] : k \in DOMAIN s})
  <2>1. f = [k \in DOMAIN s |-> f[k]] /\ g = [k \in DOMAIN s |-> g[k]]
    OBVIOUS
  <2> HIDE DEF f, g
  <2> QED BY <1>1, <2>1, FiniteValues
<1>3. \A t \in Token : \A n \in Holds(t, s) : n \in Nonce /\ makeTokenKey(t, n) \in DOMAIN s
  BY BalanceType DEF Holds
<1>4. ASSUME NEW t \in TokensIn(s) PROVE \E k \in DOMAIN s : TokenOfKey(k) = t
  <2>0. t \in Token
    BY DEF TokensIn
  <2>1. CASE \E n : n \in Holds(t, s)
    BY <1>3, <2>0, <2>1, KeysName
  <2>2. CASE Holds(t, s) = {}
    <3>1. makeLastNonceKey(t) \in DOMAIN s \/ makeTokenRolesKey(t) \in DOMAIN s
      BY <2>2 DEF TokensIn
    <3>2. TokenOfKey(makeLastNonceKey(t)) = t /\ TokenOfKey(makeTokenRolesKey(t)) = t
      BY <2>0, NamedKeyTypes DEF TokenOfKey
    <3> QED BY <3>1, <3>2
  <2> QED BY <2>1, <2>2
<1>5. TokensIn(s) \subseteq {f[k] : k \in DOMAIN s}
  BY <1>4
<1>6. \A t \in Token : Holds(t, s) \subseteq {g[k] : k \in DOMAIN s}
  BY <1>3, KeysName
<1> QED BY <1>2, <1>5, <1>6, FS_Subset

\* A token as it is dumped.
DumpedToken(t, s, z) ==
    [token |-> t, instances |-> AnyOrder({Unit(t, n, s, z) : n \in Holds(t, s)}),
     lastNonce |-> LastNonceOf(t, s), roles |-> RolesOf(t, s)]

\* Its parts.
LEMMA DumpedTokenIs ==
    ASSUME KeysComeApart, NEW A, NEW R, NoAttrs \in A, {} \in R,
           NEW s \in Storages(A, R), NEW z \in Storages(A, R), NEW t \in Token
    PROVE  /\ IsMockESDTData(DumpedToken(t, s, z), A, R)
           /\ DumpedToken(t, s, z).token = t
           /\ Range(DumpedToken(t, s, z).instances) = {Unit(t, n, s, z) : n \in Holds(t, s)}
           /\ DumpedToken(t, s, z).lastNonce = LastNonceOf(t, s)
           /\ DumpedToken(t, s, z).roles = RolesOf(t, s)
<1> DEFINE d == DumpedToken(t, s, z)
           units == {Unit(t, n, s, z) : n \in Holds(t, s)}
<1>1. /\ d.token = t /\ d.instances = AnyOrder(units)
      /\ d.lastNonce = LastNonceOf(t, s) /\ d.roles = RolesOf(t, s)
  BY DEF DumpedToken
<1>2. IsFiniteSet(units)
  <2> DEFINE H == Holds(t, s)
             f == [n \in H |-> Unit(t, n, s, z)]
  <2>1. IsFiniteSet(H)
    BY FinitelyManyTokens
  <2> HIDE DEF H
  <2>2. IsFiniteSet({f[n] : n \in H})
    BY <2>1, FiniteValues
  <2>3. {f[n] : n \in H} = {Unit(t, n, s, z) : n \in H}
    OBVIOUS
  <2> QED BY <2>2, <2>3 DEF H
<1>3. \A u \in units : IsUnits(u, A)
  <2> SUFFICES ASSUME NEW n \in Holds(t, s) PROVE IsUnits(Unit(t, n, s, z), A)
    OBVIOUS
  <2>1. n \in Nonce
    BY DEF Holds
  <2>2. GetTokenBalance(t, n, s) \in Nat
    BY <2>1, BalanceType
  <2>3. GetTokenData(t, n, s, z) \in TokenData(A)
    BY <2>1, GetTokenDataType DEF GetTokenData, InstanceEntry
  <2>4. GetTokenData(t, n, s, z).meta.attrs \in A
    BY <2>3 DEF TokenData
  <2> QED BY <2>1, <2>2, <2>4 DEF IsUnits, Unit
<1>4. LastNonceOf(t, s) \in Nat /\ RolesOf(t, s) \in R
  <2>1. makeLastNonceKey(t) \in DOMAIN s => s[makeLastNonceKey(t)] \in Seq(Byte)
    BY StorageIs, NamedKeyTypes DEF SoundEntry
  <2>2. makeTokenRolesKey(t) \in DOMAIN s => s[makeTokenRolesKey(t)] \in R
    BY StorageIs, NamedKeyTypes DEF SoundEntry
  <2> QED BY <2>1, <2>2, SetBytesType DEF LastNonceOf, RolesOf
<1> HIDE DEF d, units
<1>5. d.instances \in Seq(units) /\ Range(d.instances) = units
  BY <1>1, <1>2, OrderOfSet
<1>6. \A i \in 1..Len(d.instances) : IsUnits(d.instances[i], A)
  BY <1>3, <1>5, ElementOfSeq
<1>7. IsMockESDTData(d, A, R)
  BY <1>1, <1>4, <1>5, <1>6 DEF IsMockESDTData
<1> QED BY <1>1, <1>5, <1>7 DEF d, units

\* What a dump leads to under a key.
Copied(k, s, z) ==
    IF k.prefix = "esdt"
    THEN Instance(GetTokenBalance(TokenOfKey(k), NonceOfKey(k), s),
                  MetaData(NonceOfKey(k), GetTokenData(TokenOfKey(k), NonceOfKey(k), s, z).meta.attrs))
    ELSE IF k.prefix = "nonce" THEN Bytes[LastNonceOf(k.rest, s)] ELSE RolesOf(k.rest, s)

\* x is p, with the keys of K copied.
CopiedTo(x, p, K, s, z) ==
    /\ DOMAIN x = DOMAIN p \union K
    /\ \A k \in K : x[k] = Copied(k, s, z)

\* Copying one more key.
LEMMA CopyOne ==
    ASSUME NEW x, NEW p, NEW K, NEW s, NEW z, CopiedTo(x, p, K, s, z), NEW k
    PROVE  CopiedTo(Put(x, k, Copied(k, s, z)), p, K \union {k}, s, z)
<1> DEFINE v == Copied(k, s, z)
           y == Put(x, k, v)
<1>1. /\ DOMAIN y = DOMAIN x \union {k} /\ y[k] = v
      /\ \A e \in DOMAIN x : e # k => y[e] = x[e]
  BY DEF Put
<1> HIDE DEF v, y
<1>2. DOMAIN y = DOMAIN p \union (K \union {k})
  BY <1>1 DEF CopiedTo
<1>3. ASSUME NEW e \in K \union {k} PROVE y[e] = Copied(e, s, z)
  <2>1. CASE e = k
    BY <1>1, <2>1 DEF v
  <2>2. CASE e # k
    BY <1>1, <2>2 DEF CopiedTo
  <2> QED BY <2>1, <2>2
<1>4. CopiedTo(y, p, K \union {k}, s, z)
  BY <1>2, <1>3 DEF CopiedTo
<1> QED BY <1>4 DEF y, v

\* An instance that is dumped and set again is copied.
LEMMA CopyInstance ==
    ASSUME KeysComeApart, NEW t \in Token, NEW n \in Nonce, NEW s, NEW z, NEW x
    PROVE  WriteInstance(t, x, Unit(t, n, s, z)) =
             Put(x, makeTokenKey(t, n), Copied(makeTokenKey(t, n), s, z))
<1> DEFINE k == makeTokenKey(t, n)
<1>1. k.prefix = "esdt" /\ TokenOfKey(k) = t /\ NonceOfKey(k) = n
  BY KeyTypes, KeysName
<1>2. /\ Unit(t, n, s, z).nonce = n /\ Unit(t, n, s, z).balance = GetTokenBalance(t, n, s)
      /\ Unit(t, n, s, z).attrs = GetTokenData(t, n, s, z).meta.attrs
  BY DEF Unit
<1> HIDE DEF k
<1>3. Copied(k, s, z) = Instance(GetTokenBalance(t, n, s), MetaData(n, GetTokenData(t, n, s, z).meta.attrs))
  BY <1>1 DEF Copied
<1> QED BY <1>2, <1>3 DEF WriteInstance, k

KeysOfInstances(t, s) == {makeTokenKey(t, n) : n \in Holds(t, s)}
KeysOfToken(t, s) == KeysOfInstances(t, s) \union {makeLastNonceKey(t), makeTokenRolesKey(t)}

\* All the instances of a token are copied.
LEMMA CopyInstances ==
    ASSUME KeysComeApart, NEW A, NEW R, NoAttrs \in A, {} \in R,
           NEW s \in Storages(A, R), NEW z \in Storages(A, R), NEW t \in Token,
           NEW p, NEW K, NEW x \in Storages(A, R), CopiedTo(x, p, K, s, z)
    PROVE  CopiedTo(Written(x, DumpedToken(t, s, z)), p, K \union KeysOfInstances(t, s), s, z)
<1> DEFINE d == DumpedToken(t, s, z)
           n == Len(d.instances)
           X == Storages(A, R)
           Done(j) == {makeTokenKey(t, d.instances[i].nonce) : i \in 1..j}
<1>1. IsMockESDTData(d, A, R) /\ d.token = t
      /\ Range(d.instances) = {Unit(t, m, s, z) : m \in Holds(t, s)}
  BY DumpedTokenIs
<1> HIDE DEF d
<1>2. PICK h : IsTrace(h, n, X, x, InstanceSteps(d, X)) /\ Written(x, d) = h[n]
  BY <1>1, WrittenTrace
<1>3. n \in Nat /\ DOMAIN d.instances = 1..n
  BY <1>1, LenProperties DEF IsMockESDTData
<1>4. \A i \in 1..n : \E m \in Holds(t, s) : d.instances[i] = Unit(t, m, s, z)
  BY <1>1, <1>3 DEF Range
<1>5. \A m \in Holds(t, s) : \E i \in 1..n : d.instances[i] = Unit(t, m, s, z)
  BY <1>1, <1>3 DEF Range
<1>6. \A m : Unit(t, m, s, z).nonce = m
  BY DEF Unit
<1>7. \A m \in Holds(t, s) : m \in Nonce
  BY DEF Holds
<1>8. \A i \in 1..n : h[i - 1] \in X /\ h[i] = WriteInstance(t, h[i - 1], d.instances[i])
  <2> SUFFICES ASSUME NEW i \in 1..n PROVE h[i - 1] \in X /\ h[i] = WriteInstance(t, h[i - 1], d.instances[i])
    OBVIOUS
  <2>1. i - 1 \in 0..n
    BY <1>3
  <2>2. h[i - 1] \in X /\ h[i] = InstanceSteps(d, X)[i][h[i - 1]]
    BY <1>2, <2>1 DEF IsTrace
  <2> HIDE DEF X
  <2>3. InstanceSteps(d, X)[i][h[i - 1]] = WriteInstance(d.token, h[i - 1], d.instances[i])
    BY <2>2 DEF InstanceSteps
  <2> QED BY <1>1, <2>2, <2>3
<1> DEFINE T == {j \in Nat : j <= n => CopiedTo(h[j], p, K \union Done(j), s, z)}
<1> HIDE DEF n, X
<1>9. 0 \in T
  <2>1. 1..0 = {}
    OBVIOUS
  <2>2. K \union Done(0) = K
    BY <2>1
  <2>3. h[0] = x
    BY <1>2 DEF IsTrace
  <2> HIDE DEF Done
  <2> QED BY <2>2, <2>3
<1>10. ASSUME NEW j \in Nat, j \in T PROVE j + 1 \in T
  <2> SUFFICES ASSUME j + 1 <= n PROVE CopiedTo(h[j + 1], p, K \union Done(j + 1), s, z)
    OBVIOUS
  <2>1. j + 1 \in 1..n /\ (j + 1) - 1 = j /\ j <= n
    BY <1>3
  <2>2. PICK m \in Holds(t, s) : d.instances[j + 1] = Unit(t, m, s, z)
    BY <1>4, <2>1
  <2> DEFINE k == makeTokenKey(t, m)
  <2>3. h[j + 1] = Put(h[j], k, Copied(k, s, z))
    <3>1. h[j + 1] = WriteInstance(t, h[j], Unit(t, m, s, z))
      BY <1>8, <2>1, <2>2
    <3>2. m \in Nonce
      BY <1>7
    <3> QED BY <3>1, <3>2, CopyInstance
  <2>4. Done(j + 1) = Done(j) \union {k}
    <3>1. 1..(j + 1) = (1..j) \union {j + 1}
      OBVIOUS
    <3>2. makeTokenKey(t, d.instances[j + 1].nonce) = k
      BY <1>6, <2>2
    <3> HIDE DEF k
    <3> QED BY <3>1, <3>2
  <2>5. CopiedTo(h[j], p, K \union Done(j), s, z)
    BY <1>10, <2>1
  <2> HIDE DEF Done, k
  <2>6. CopiedTo(Put(h[j], k, Copied(k, s, z)), p, (K \union Done(j)) \union {k}, s, z)
    BY <2>5, CopyOne
  <2>7. (K \union Done(j)) \union {k} = K \union Done(j + 1)
    BY <2>4
  <2> QED BY <2>3, <2>6, <2>7
<1> HIDE DEF T
<1>11. Nat \subseteq T
  BY <1>9, <1>10, NumbersBelow
<1>12. CopiedTo(h[n], p, K \union Done(n), s, z)
  <2>1. n \in T /\ n <= n
    BY <1>3, <1>11
  <2> HIDE DEF Done
  <2> QED BY <2>1 DEF T
<1>13. Done(n) = KeysOfInstances(t, s)
  BY <1>4, <1>5, <1>6 DEF KeysOfInstances
<1> HIDE DEF Done
<1> QED BY <1>2, <1>12, <1>13 DEF d

\* A token is copied.
LEMMA CopyToken ==
    ASSUME KeysComeApart, NEW A, NEW R, NoAttrs \in A, {} \in R,
           NEW s \in Storages(A, R), NEW z \in Storages(A, R), NEW t \in Token,
           NEW p, NEW K, NEW x \in Storages(A, R), CopiedTo(x, p, K, s, z)
    PROVE  CopiedTo(WriteToken(x, DumpedToken(t, s, z)), p, K \union KeysOfToken(t, s), s, z)
<1> DEFINE d == DumpedToken(t, s, z)
           k1 == makeLastNonceKey(t)
           k2 == makeTokenRolesKey(t)
           w0 == Written(x, d)
           w1 == Put(w0, k1, Copied(k1, s, z))
           w2 == Put(w1, k2, Copied(k2, s, z))
           K0 == K \union KeysOfInstances(t, s)
<1>1. d.token = t /\ d.lastNonce = LastNonceOf(t, s) /\ d.roles = RolesOf(t, s)
  BY DumpedTokenIs
<1>2. CopiedTo(w0, p, K0, s, z)
  BY CopyInstances
<1>3. Copied(k1, s, z) = Bytes[LastNonceOf(t, s)] /\ Copied(k2, s, z) = RolesOf(t, s)
  BY NamedKeyTypes DEF Copied
<1>4. WriteToken(x, d) = Put(Put(w0, k1, Bytes[LastNonceOf(t, s)]), k2, RolesOf(t, s))
  <2> HIDE DEF d
  <2> QED BY <1>1, WriteTokenIs
<1>5. WriteToken(x, d) = w2
  <2> HIDE DEF d, w0, k1, k2
  <2> QED BY <1>3, <1>4
<1> HIDE DEF d, k1, k2, w0, K0
<1>6. CopiedTo(w1, p, K0 \union {k1}, s, z)
  BY <1>2, CopyOne
<1> HIDE DEF w1
<1>7. CopiedTo(w2, p, (K0 \union {k1}) \union {k2}, s, z)
  BY <1>6, CopyOne
<1>8. (K0 \union {k1}) \union {k2} = K \union KeysOfToken(t, s)
  BY DEF K0, KeysOfToken, k1, k2
<1> HIDE DEF w2
<1> QED BY <1>5, <1>7, <1>8 DEF d

DumpedTokens(s, z) == {DumpedToken(t, s, z) : t \in TokensIn(s)}
KeysOfTokens(s) == UNION {KeysOfToken(t, s) : t \in TokensIn(s)}

\* The list of dumped tokens.
LEMMA DumpedTokensAre ==
    ASSUME KeysComeApart, NEW A, NEW R, NoAttrs \in A, {} \in R,
           NEW s \in Storages(A, R), NEW z \in Storages(A, R)
    PROVE  /\ IsESDT(AnyOrder(DumpedTokens(s, z)), A, R)
           /\ Range(AnyOrder(DumpedTokens(s, z))) = DumpedTokens(s, z)
<1> DEFINE D == TokensIn(s)
           S == DumpedTokens(s, z)
           data == AnyOrder(S)
           f == [t \in D |-> DumpedToken(t, s, z)]
<1>1. IsFiniteSet(D) /\ \A t \in D : t \in Token
  BY FinitelyManyTokens DEF TokensIn
<1> HIDE DEF D
<1>2. IsFiniteSet({f[t] : t \in D})
  BY <1>1, FiniteValues
<1>3. {f[t] : t \in D} = S
  BY DEF DumpedTokens, D
<1> HIDE DEF S
<1>4. data \in Seq(S) /\ Range(data) = S
  BY <1>2, <1>3, OrderOfSet
<1>5. \A d \in S : IsMockESDTData(d, A, R)
  BY <1>1, DumpedTokenIs DEF S, DumpedTokens, D
<1> HIDE DEF data
<1>6. \A i \in 1..Len(data) : data[i] \in S
  BY <1>4, ElementOfSeq
<1>7. IsESDT(data, A, R)
  BY <1>4, <1>5, <1>6 DEF IsESDT
<1> QED BY <1>4, <1>7 DEF data, S

\* All the tokens are copied.
LEMMA CopyTokens ==
    ASSUME KeysComeApart, NEW A, NEW R, NoAttrs \in A, {} \in R,
           NEW s \in Storages(A, R), NEW z \in Storages(A, R), NEW p \in Storages(A, R)
    PROVE  CopiedTo(WriteScenariosESDTToStorage(AnyOrder(DumpedTokens(s, z)), p), p, KeysOfTokens(s), s, z)
<1> DEFINE data == AnyOrder(DumpedTokens(s, z))
           n == Len(data)
           X == Storages(A, R)
           Done(j) == UNION {KeysOfToken(data[i].token, s) : i \in 1..j}
<1>1. IsESDT(data, A, R) /\ Range(data) = DumpedTokens(s, z)
  BY DumpedTokensAre
<1> HIDE DEF data
<1>2. PICK h : IsTrace(h, n, X, p, TokenSteps(data, X)) /\ WriteScenariosESDTToStorage(data, p) = h[n]
  BY <1>1, TokensTrace
<1>3. n \in Nat /\ DOMAIN data = 1..n
  BY <1>1, LenProperties DEF IsESDT
<1>4. \A i \in 1..n : \E t \in TokensIn(s) : data[i] = DumpedToken(t, s, z)
  BY <1>1, <1>3 DEF Range, DumpedTokens
<1>5. \A t \in TokensIn(s) : \E i \in 1..n : data[i] = DumpedToken(t, s, z)
  BY <1>1, <1>3 DEF Range, DumpedTokens
<1>6. \A t \in TokensIn(s) : t \in Token /\ DumpedToken(t, s, z).token = t
  BY DEF TokensIn, DumpedToken
<1>7. \A i \in 1..n : h[i - 1] \in X /\ h[i] = WriteToken(h[i - 1], data[i])
  <2> SUFFICES ASSUME NEW i \in 1..n PROVE h[i - 1] \in X /\ h[i] = WriteToken(h[i - 1], data[i])
    OBVIOUS
  <2>1. i - 1 \in 0..n
    BY <1>3
  <2>2. h[i - 1] \in X /\ h[i] = TokenSteps(data, X)[i][h[i - 1]]
    BY <1>2, <2>1 DEF IsTrace
  <2> HIDE DEF X
  <2>3. TokenSteps(data, X)[i][h[i - 1]] = WriteToken(h[i - 1], data[i])
    BY <2>2 DEF TokenSteps
  <2> QED BY <2>2, <2>3
<1> DEFINE T == {j \in Nat : j <= n => CopiedTo(h[j], p, Done(j), s, z)}
<1> HIDE DEF n
<1>8. 0 \in T
  <2>1. 1..0 = {}
    OBVIOUS
  <2>2. Done(0) = {}
    BY <2>1
  <2>3. h[0] = p
    BY <1>2 DEF IsTrace
  <2>4. CopiedTo(p, p, {}, s, z)
    BY DEF CopiedTo
  <2> HIDE DEF Done
  <2> QED BY <2>2, <2>3, <2>4
<1>9. ASSUME NEW j \in Nat, j \in T PROVE j + 1 \in T
  <2> SUFFICES ASSUME j + 1 <= n PROVE CopiedTo(h[j + 1], p, Done(j + 1), s, z)
    OBVIOUS
  <2>1. j + 1 \in 1..n /\ (j + 1) - 1 = j /\ j <= n
    BY <1>3
  <2>2. PICK t \in TokensIn(s) : data[j + 1] = DumpedToken(t, s, z)
    BY <1>4, <2>1
  <2>3. h[j] \in X /\ h[j + 1] = WriteToken(h[j], DumpedToken(t, s, z))
    BY <1>7, <2>1, <2>2
  <2>4. Done(j + 1) = Done(j) \union KeysOfToken(t, s)
    <3>1. 1..(j + 1) = (1..j) \union {j + 1}
      OBVIOUS
    <3>2. data[j + 1].token = t
      BY <1>6, <2>2
    <3> QED BY <3>1, <3>2
  <2>5. CopiedTo(h[j], p, Done(j), s, z)
    BY <1>9, <2>1
  <2> HIDE DEF Done
  <2>6. CopiedTo(WriteToken(h[j], DumpedToken(t, s, z)), p, Done(j) \union KeysOfToken(t, s), s, z)
    BY <1>6, <2>3, <2>5, CopyToken
  <2> QED BY <2>3, <2>4, <2>6
<1> HIDE DEF T
<1>10. Nat \subseteq T
  BY <1>8, <1>9, NumbersBelow
<1>11. CopiedTo(h[n], p, Done(n), s, z)
  <2>1. n \in T /\ n <= n
    BY <1>3, <1>10
  <2> HIDE DEF Done
  <2> QED BY <2>1 DEF T
<1>12. Done(n) = KeysOfTokens(s)
  BY <1>4, <1>5, <1>6 DEF KeysOfTokens
<1> HIDE DEF Done
<1> QED BY <1>2, <1>11, <1>12 DEF data

OnlyPlain(p) == \A k \in DOMAIN p : k.prefix = "plain"

\* The keys of a copy.
LEMMA KeysOfCopy ==
    ASSUME KeysComeApart, NEW A, NEW R, NoAttrs \in A, NEW s \in Storages(A, R), NEW z, NEW p, OnlyPlain(p),
           NEW x, CopiedTo(x, p, KeysOfTokens(s), s, z), NEW t \in Token
    PROVE  /\ \A n \in Nonce : makeTokenKey(t, n) \in DOMAIN x <=> n \in Holds(t, s)
           /\ makeLastNonceKey(t) \in DOMAIN x <=> t \in TokensIn(s)
           /\ makeTokenRolesKey(t) \in DOMAIN x <=> t \in TokensIn(s)
<1>1. DOMAIN x = DOMAIN p \union KeysOfTokens(s)
  BY DEF CopiedTo
<1>2. \A u \in TokensIn(s) : u \in Token /\ \A m \in Holds(u, s) : m \in Nonce
  BY DEF TokensIn, Holds
<1>3. \A u \in Token, m \in Nonce : makeTokenKey(u, m).prefix = "esdt"
  BY KeyTypes
<1>4. \A u \in Token : makeLastNonceKey(u) = [prefix |-> "nonce", rest |-> u]
                       /\ makeTokenRolesKey(u) = [prefix |-> "role", rest |-> u]
  BY NamedKeyTypes
<1>5. \A u \in Token : /\ makeLastNonceKey(u).prefix = "nonce" /\ makeLastNonceKey(u).rest = u
                       /\ makeTokenRolesKey(u).prefix = "role" /\ makeTokenRolesKey(u).rest = u
  BY <1>4
<1>6. ASSUME NEW n \in Nonce PROVE makeTokenKey(t, n) \in DOMAIN x <=> n \in Holds(t, s)
  <2> DEFINE k == makeTokenKey(t, n)
  <2>1. k.prefix = "esdt" /\ TokenOfKey(k) = t /\ NonceOfKey(k) = n
    BY <1>3, KeysName
  <2>2. n \in Holds(t, s) => k \in KeysOfTokens(s)
    BY DEF KeysOfTokens, KeysOfToken, KeysOfInstances, TokensIn
  <2> HIDE DEF k
  <2>3. k \notin DOMAIN p
    BY <2>1 DEF OnlyPlain
  <2>4. ASSUME k \in KeysOfTokens(s) PROVE n \in Holds(t, s)
    <3>1. PICK u \in TokensIn(s) : k \in KeysOfToken(u, s)
      BY <2>4 DEF KeysOfTokens
    <3>2. k # makeLastNonceKey(u) /\ k # makeTokenRolesKey(u)
      BY <1>2, <1>5, <2>1
    <3>3. PICK m \in Holds(u, s) : k = makeTokenKey(u, m)
      BY <3>1, <3>2 DEF KeysOfToken, KeysOfInstances
    <3>4. TokenOfKey(k) = u /\ NonceOfKey(k) = m
      BY <1>2, <3>3, KeysName
    <3> QED BY <2>1, <3>4
  <2> QED BY <1>1, <2>2, <2>3, <2>4 DEF k
<1>7. makeLastNonceKey(t) \in DOMAIN x <=> t \in TokensIn(s)
  <2>1. makeLastNonceKey(t) \notin DOMAIN p
    BY <1>5 DEF OnlyPlain
  <2>2. t \in TokensIn(s) => makeLastNonceKey(t) \in KeysOfTokens(s)
    BY DEF KeysOfTokens, KeysOfToken
  <2>3. ASSUME makeLastNonceKey(t) \in KeysOfTokens(s) PROVE t \in TokensIn(s)
    <3>1. PICK u \in TokensIn(s) : makeLastNonceKey(t) \in KeysOfToken(u, s)
      BY <2>3 DEF KeysOfTokens
    <3>2. makeLastNonceKey(t) = makeLastNonceKey(u)
      BY <1>2, <1>3, <1>5, <3>1 DEF KeysOfToken, KeysOfInstances
    <3> QED BY <1>2, <1>5, <3>2
  <2> QED BY <1>1, <2>1, <2>2, <2>3
<1>8. makeTokenRolesKey(t) \in DOMAIN x <=> t \in TokensIn(s)
  <2>1. makeTokenRolesKey(t) \notin DOMAIN p
    BY <1>5 DEF OnlyPlain
  <2>2. t \in TokensIn(s) => makeTokenRolesKey(t) \in KeysOfTokens(s)
    BY DEF KeysOfTokens, KeysOfToken
  <2>3. ASSUME makeTokenRolesKey(t) \in KeysOfTokens(s) PROVE t \in TokensIn(s)
    <3>1. PICK u \in TokensIn(s) : makeTokenRolesKey(t) \in KeysOfToken(u, s)
      BY <2>3 DEF KeysOfTokens
    <3>2. makeTokenRolesKey(t) = makeTokenRolesKey(u)
      BY <1>2, <1>3, <1>5, <3>1 DEF KeysOfToken, KeysOfInstances
    <3> QED BY <1>2, <1>5, <3>2
  <2> QED BY <1>1, <2>1, <2>2, <2>3
<1> QED BY <1>6, <1>7, <1>8

\* An instance has the same balance and metadata in the copy.
LEMMA InstanceOfCopy ==
    ASSUME KeysComeApart, NEW A, NEW R, NoAttrs \in A, NEW s \in Storages(A, R), NEW z,
           NEW p, OnlyPlain(p), NEW x \in Storages(A, R), CopiedTo(x, p, KeysOfTokens(s), s, z),
           NEW t \in Token, NEW n \in Holds(t, s)
    PROVE  GetTokenBalance(t, n, x) > 0 /\ Unit(t, n, x, NoStorage) = Unit(t, n, s, z)
<1> DEFINE k == makeTokenKey(t, n)
           b == GetTokenBalance(t, n, s)
           at == GetTokenData(t, n, s, z).meta.attrs
           v == Instance(b, MetaData(n, at))
<1>1. n \in Nonce /\ b > 0 /\ b \in Nat
  <2>1. n \in Nonce /\ b > 0
    BY DEF Holds
  <2> QED BY <2>1, BalanceType
<1>2. k.prefix = "esdt" /\ TokenOfKey(k) = t /\ NonceOfKey(k) = n
  BY <1>1, KeyTypes, KeysName
<1>3. Copied(k, s, z) = v
  <2> HIDE DEF k
  <2> QED BY <1>2 DEF Copied
<1>4. k \in KeysOfTokens(s)
  BY DEF KeysOfTokens, KeysOfToken, KeysOfInstances, TokensIn
<1>5. k \in DOMAIN x /\ x[k] = v
  <2>1. k \in DOMAIN x /\ x[k] = Copied(k, s, z)
    <3> HIDE DEF k
    <3> QED BY <1>4 DEF CopiedTo
  <2> QED BY <1>3, <2>1
<1>6. v.value = b /\ v.meta.attrs = at
  BY DEF Instance, MetaData
<1>7. v # NoToken
  <2>1. NoToken.value = 0
    BY DEF NoToken, Instance
  <2> HIDE DEF v, b
  <2> QED BY <1>1, <1>6, <2>1
<1> HIDE DEF v, b, at
<1>8. GetTokenBalance(t, n, x) = b
  BY <1>1, <1>5, <1>6, BalanceType
<1>9. GetTokenData(t, n, x, NoStorage) = v
  <2>1. k \notin DOMAIN NoStorage
    BY DEF NoStorage
  <2> QED BY <1>5, <1>7, <2>1 DEF GetTokenData, getTokenDataByKey
<1>10. Unit(t, n, x, NoStorage) = [nonce |-> n, balance |-> b, attrs |-> at]
  BY <1>6, <1>8, <1>9 DEF Unit
<1> QED BY <1>1, <1>8, <1>10 DEF Unit, b, at

\* The scan finds in the copy what it finds in the storage.
LEMMA CopyIsTheSame ==
    ASSUME KeysComeApart, NEW A, NEW R, NoAttrs \in A, NEW s \in Storages(A, R), NEW z \in Storages(A, R),
           NEW p, OnlyPlain(p), NEW x \in Storages(A, R), CopiedTo(x, p, KeysOfTokens(s), s, z)
    PROVE  GetFullMockESDTData(x, NoStorage) = GetFullMockESDTData(s, z)
<1>1. ASSUME NEW t \in Token PROVE Holds(t, x) = Holds(t, s)
  <2>1. ASSUME NEW n \in Nonce, GetTokenBalance(t, n, x) > 0 PROVE n \in Holds(t, s)
    <3>1. makeTokenKey(t, n) \in DOMAIN x
      BY <2>1, BalanceType
    <3> QED BY <3>1, KeysOfCopy
  <2>2. ASSUME NEW n \in Holds(t, s) PROVE n \in Holds(t, x)
    <3>1. n \in Nonce
      BY DEF Holds
    <3>2. GetTokenBalance(t, n, x) > 0
      BY InstanceOfCopy
    <3> QED BY <3>1, <3>2 DEF Holds
  <2>3. Holds(t, x) \subseteq Holds(t, s)
    BY <2>1 DEF Holds
  <2> QED BY <2>2, <2>3
<1>2. \A t \in Token : /\ makeLastNonceKey(t) \in DOMAIN x <=> t \in TokensIn(s)
                       /\ makeTokenRolesKey(t) \in DOMAIN x <=> t \in TokensIn(s)
  BY KeysOfCopy
<1>3. TokensIn(x) = TokensIn(s)
  <2>1. \A t \in Token : Holds(t, s) # {} => t \in TokensIn(s)
    BY DEF TokensIn
  <2> QED BY <1>1, <1>2, <2>1 DEF TokensIn
<1>4. ASSUME NEW t \in TokensIn(s) PROVE Find(t, x, NoStorage) = Find(t, s, z)
  <2>0. t \in Token
    BY DEF TokensIn
  <2>1. {Unit(t, n, x, NoStorage) : n \in Holds(t, x)} = {Unit(t, n, s, z) : n \in Holds(t, s)}
    BY <1>1, <2>0, InstanceOfCopy
  <2> DEFINE k1 == makeLastNonceKey(t)
             k2 == makeTokenRolesKey(t)
  <2>2. k1 \in KeysOfTokens(s) /\ k2 \in KeysOfTokens(s)
    BY DEF KeysOfTokens, KeysOfToken
  <2>3. x[k1] = Copied(k1, s, z) /\ x[k2] = Copied(k2, s, z)
    <3> HIDE DEF k1, k2
    <3> QED BY <2>2 DEF CopiedTo
  <2>4. Copied(k1, s, z) = Bytes[LastNonceOf(t, s)] /\ Copied(k2, s, z) = RolesOf(t, s)
    BY <2>0, NamedKeyTypes DEF Copied
  <2>5. k1 \in DOMAIN x /\ k2 \in DOMAIN x
    BY <1>2, <2>0
  <2>6. RolesOf(t, x) = RolesOf(t, s)
    BY <2>3, <2>4, <2>5 DEF RolesOf
  <2>7. LastNonceOf(t, s) \in Nat
    <3>1. k1 \in DOMAIN s => s[k1] \in Seq(Byte)
      BY <2>0, StorageIs, NamedKeyTypes DEF SoundEntry
    <3> QED BY <3>1, SetBytesType DEF LastNonceOf
  <2>8. LastNonceOf(t, x) = SetBytes(x[k1])
    BY <2>5 DEF LastNonceOf
  <2>9. LastNonceOf(t, x) = LastNonceOf(t, s)
    <3>1. x[k1] = Bytes[LastNonceOf(t, s)]
      BY <2>3, <2>4
    <3> HIDE DEF k1
    <3> QED BY <2>7, <2>8, <3>1, BytesAreReadBack
  <2> QED BY <2>1, <2>6, <2>9 DEF Find
<1>5. NoStorage \in Storages(A, R)
  BY NoStorageType
<1>6. GetFullMockESDTData(x, NoStorage) = [t \in TokensIn(x) |-> Find(t, x, NoStorage)]
  BY <1>5, ScanIsComplete
<1>7. GetFullMockESDTData(s, z) = [t \in TokensIn(s) |-> Find(t, s, z)]
  BY ScanIsComplete
<1> QED BY <1>3, <1>4, <1>6, <1>7

\* What DumpWorld prints of an account is an account setState may write.
LEMMA DumpIsASpec ==
    ASSUME KeysComeApart, IInv, NEW a \in DOMAIN AcctMap
    PROVE  /\ DumpAccount(a).esdt = AnyOrder(DumpedTokens(AcctMap[a].Storage, SystemStorage))
           /\ IsSpecOf(DumpAccount(a), SpecAttrs, SpecRoles)
<1> DEFINE s == AcctMap[a].Storage
           z == SystemStorage
           full == FullData(a)
           kept == {k \in KeysWith("plain", s) : s[k] # Empty}
           E == {k.rest : k \in kept}
           entries == [e \in E |-> s[Plain(e)]]
           Format(t) == [token |-> t, instances |-> AnyOrder(full[t].instances),
                         lastNonce |-> full[t].lastNonce, roles |-> full[t].roles]
<1>1. s \in Storages(SpecAttrs, SpecRoles) /\ z \in Storages(SpecAttrs, SpecRoles)
  BY AccountMapIs, SystemStorageType DEF IInv, Accounts, Storage0
<1>2. NoAttrs \in SpecAttrs /\ {} \in SpecRoles
  BY DEF SpecAttrs, SpecRoles
<1>3. full = [t \in TokensIn(s) |-> Find(t, s, z)]
  BY <1>1, <1>2, ScanIsComplete DEF FullData
<1>4. DumpAccount(a).esdt = AnyOrder({Format(t) : t \in DOMAIN full})
      /\ DumpAccount(a).entries = entries
  BY DEF DumpAccount
<1> HIDE DEF full, z
<1>5. \A t \in TokensIn(s) : Format(t) = DumpedToken(t, s, z)
  BY <1>3 DEF Find, DumpedToken
<1> HIDE DEF Format
<1>6. {Format(t) : t \in DOMAIN full} = DumpedTokens(s, z)
  BY <1>3, <1>5 DEF DumpedTokens
<1>7. DumpAccount(a).esdt = AnyOrder(DumpedTokens(s, z))
  BY <1>4, <1>6
<1>8. IsESDT(DumpAccount(a).esdt, SpecAttrs, SpecRoles)
  BY <1>1, <1>2, <1>7, DumpedTokensAre
<1> HIDE DEF s
<1>9. \A k \in kept : /\ k \in DOMAIN s /\ k.rest \in EntryKey /\ s[k] \in Entry
                      /\ k = Plain(k.rest)
  <2> SUFFICES ASSUME NEW k \in kept
               PROVE  k \in DOMAIN s /\ k.rest \in EntryKey /\ s[k] \in Entry /\ k = Plain(k.rest)
    OBVIOUS
  <2>1. k \in DOMAIN s /\ k.prefix = "plain"
    BY DEF KeysWith
  <2>2. SoundEntry(SpecAttrs, SpecRoles, k, s[k]) /\ k \in KeySpace
    BY <1>1, <2>1, StorageIs
  <2>3. k.rest \in EntryKey /\ s[k] \in Entry
    BY <2>1, <2>2 DEF SoundEntry
  <2>4. k = [prefix |-> "plain", rest |-> k.rest]
    BY <2>1, <2>2 DEF KeySpace
  <2> QED BY <2>1, <2>3, <2>4 DEF Plain, Key
<1>10. IsFiniteSet(E)
  <2> DEFINE f == [k \in kept |-> k.rest]
  <2>1. IsFiniteSet(kept)
    <3>1. IsFiniteSet(DOMAIN s)
      BY <1>1, StorageIs
    <3>2. kept \subseteq DOMAIN s
      BY <1>9
    <3> QED BY <3>1, <3>2, FS_Subset
  <2> HIDE DEF kept
  <2>2. IsFiniteSet({f[k] : k \in kept})
    BY <2>1, FiniteValues
  <2>3. {f[k] : k \in kept} = E
    OBVIOUS
  <2> QED BY <2>2, <2>3
<1>11. \A e \in E : e \in EntryKey /\ s[Plain(e)] \in Entry
  <2> HIDE DEF kept
  <2> QED BY <1>9
<1>12. DOMAIN entries = E /\ entries \in [E -> Entry]
  <2> HIDE DEF E
  <2> QED BY <1>11
<1> HIDE DEF entries, E
<1>13. IsSpecOf(DumpAccount(a), SpecAttrs, SpecRoles)
  BY <1>4, <1>8, <1>10, <1>11, <1>12 DEF IsSpecOf
<1> QED BY <1>7, <1>13 DEF s, z

\* The invariant implies that a dump restores the tokens, if keys come apart.
LEMMA InvariantRestores == KeysComeApart /\ IInv => DumpRestoresTokens
<1> SUFFICES ASSUME KeysComeApart, IInv, NEW a \in DOMAIN AcctMap
             PROVE  GetFullMockESDTData(convertAccount(DumpAccount(a)).Storage, NoStorage) = FullData(a)
  BY DEF DumpRestoresTokens
<1> DEFINE s == AcctMap[a].Storage
           z == SystemStorage
           spec == DumpAccount(a)
           p == PlainStorage(spec.entries)
           x == convertAccount(spec).Storage
<1>1. s \in Storages(SpecAttrs, SpecRoles) /\ z \in Storages(SpecAttrs, SpecRoles)
  BY AccountMapIs, SystemStorageType DEF IInv, Accounts, Storage0
<1>2. NoAttrs \in SpecAttrs /\ {} \in SpecRoles
  BY DEF SpecAttrs, SpecRoles
<1>3. spec.esdt = AnyOrder(DumpedTokens(s, z)) /\ IsSpecOf(spec, SpecAttrs, SpecRoles)
  BY DumpIsASpec
<1> HIDE DEF spec
<1>4. x = WriteScenariosESDTToStorage(spec.esdt, p) /\ x \in Storages(SpecAttrs, SpecRoles)
  BY <1>3, ConvertedStorage
<1>5. p \in Storages(SpecAttrs, SpecRoles)
  BY <1>3, PlainStorageType
<1>6. OnlyPlain(p)
  <2>1. \A e : Plain(e).prefix = "plain"
    BY DEF Plain, Key
  <2> QED BY <2>1 DEF OnlyPlain, PlainStorage
<1> HIDE DEF p, x, s, z
<1>7. CopiedTo(x, p, KeysOfTokens(s), s, z)
  BY <1>1, <1>2, <1>3, <1>4, <1>5, CopyTokens
<1>8. GetFullMockESDTData(x, NoStorage) = GetFullMockESDTData(s, z)
  BY <1>1, <1>2, <1>4, <1>6, <1>7, CopyIsTheSame
<1> QED BY <1>8 DEF FullData, x, s, z, spec

\* What DumpWorld prints, set as the state of another world, holds the same
\* tokens, nonces, balances, metadata and roles, under the same conditions.
THEOREM DumpRestores == KeysComeApart /\ Spec => []DumpRestoresTokens
<1> SUFFICES ASSUME KeysComeApart PROVE Spec => []DumpRestoresTokens
  OBVIOUS
<1>1. IInv => DumpRestoresTokens
  BY InvariantRestores
<1> QED BY <1>1, Invariant, PTL

----------------------------------------------------------------------------
(* What is last in a list counts *)

\* The two storages have the same under k.
SameAt(k, s, r) == (k \in DOMAIN r <=> k \in DOMAIN s) /\ (k \in DOMAIN s => r[k] = s[k])

\* Being the same is transitive.
LEMMA SameAtTwice ==
    ASSUME NEW k, NEW s, NEW r, NEW q, SameAt(k, s, r), SameAt(k, r, q)
    PROVE  SameAt(k, s, q)
  BY DEF SameAt

\* Nothing happens between two steps that leave k alone.
LEMMA LeftAlone ==
    ASSUME NEW n \in Nat, NEW p \in Nat, p <= n, NEW h, NEW k,
           \A m \in 1..n : m > p => SameAt(k, h[m - 1], h[m])
    PROVE  SameAt(k, h[p], h[n])
<1> DEFINE T == {j \in Nat : p + j <= n => SameAt(k, h[p], h[p + j])}
<1>1. 0 \in T
  <2>1. p + 0 = p
    OBVIOUS
  <2> QED BY <2>1 DEF SameAt
<1>2. ASSUME NEW j \in Nat, j \in T PROVE j + 1 \in T
  <2> SUFFICES ASSUME p + (j + 1) <= n PROVE SameAt(k, h[p], h[p + (j + 1)])
    OBVIOUS
  <2> DEFINE m == p + (j + 1)
  <2>1. m \in 1..n /\ m > p /\ m - 1 = p + j /\ p + j <= n
    OBVIOUS
  <2>2. SameAt(k, h[p], h[p + j])
    BY <1>2, <2>1
  <2> HIDE DEF m
  <2>3. SameAt(k, h[m - 1], h[m])
    BY <2>1
  <2>4. SameAt(k, h[p], h[m])
    BY <2>1, <2>2, <2>3, SameAtTwice
  <2> QED BY <2>4 DEF m
<1> HIDE DEF T
<1>3. n - p \in T
  BY <1>1, <1>2, NumbersBelow
<1>4. p + (n - p) = n
  OBVIOUS
<1> QED BY <1>3, <1>4 DEF T

\* The storages h[0], ..., h[n], where steps I write V to k and the others leave it.
WritesTo(k, h, n, I, V) ==
    /\ I \in SUBSET (1..n)
    /\ \A m \in I : k \in DOMAIN h[m] /\ h[m][k] = V[m]
    /\ \A m \in (1..n) \ I : SameAt(k, h[m - 1], h[m])

\* The last write to k counts.
LEMMA LastWrite ==
    ASSUME NEW n \in Nat, NEW I, NEW h, NEW k, NEW V, WritesTo(k, h, n, I, V)
    PROVE  /\ I = {} => SameAt(k, h[0], h[n])
           /\ I # {} => k \in DOMAIN h[n] /\ h[n][k] = V[Max(I)]
<1>0. /\ I \in SUBSET (1..n) /\ \A m \in I : k \in DOMAIN h[m] /\ h[m][k] = V[m]
      /\ \A m \in (1..n) \ I : SameAt(k, h[m - 1], h[m])
  BY DEF WritesTo
<1>1. CASE I = {}
  <2>1. \A m \in 1..n : m > 0 => SameAt(k, h[m - 1], h[m])
    BY <1>0, <1>1
  <2>2. SameAt(k, h[0], h[n])
    BY <2>1, LeftAlone
  <2> QED BY <1>1, <2>2
<1>2. CASE I # {}
  <2> DEFINE p == Max(I)
  <2>1. p \in I /\ \A i \in I : p >= i
    BY <1>0, <1>2, MaxIsIn
  <2> HIDE DEF p
  <2>6. p \in Nat /\ p <= n
    BY <1>0, <2>1
  <2>2. \A m \in 1..n : m > p => SameAt(k, h[m - 1], h[m])
    BY <1>0, <2>1, <2>6
  <2>3. SameAt(k, h[p], h[n])
    BY <2>2, <2>6, LeftAlone
  <2>4. k \in DOMAIN h[p] /\ h[p][k] = V[p]
    BY <1>0, <2>1
  <2>5. k \in DOMAIN h[n] /\ h[n][k] = V[p]
    BY <2>3, <2>4 DEF SameAt
  <2> QED BY <1>2, <2>5 DEF p
<1> QED BY <1>1, <1>2

----------------------------------------------------------------------------
(* What setState leaves under a key *)

\* Where d lists the instance n, and where data name the token, or the instance.
Listings(d, n) == {i \in 1..Len(d.instances) : d.instances[i].nonce = n}
Namings(data, t) == {m \in 1..Len(data) : data[m].token = t}
Mentions(data, t, n) == {m \in 1..Len(data) : data[m].token = t /\ Listings(data[m], n) # {}}

\* What is written of an instance.
LastListed(d, n) == d.instances[Max(Listings(d, n))]
Units(i) == Instance(i.balance, MetaData(i.nonce, i.attrs))

\* Keys of different instances differ.
LEMMA KeysDiffer ==
    ASSUME KeysComeApart, NEW t \in Token, NEW n \in Nonce, NEW u \in Token, NEW m \in Nonce,
           makeTokenKey(t, n) = makeTokenKey(u, m)
    PROVE  t = u /\ n = m
  BY KeysName

\* Put changes one key.
LEMMA PutElsewhere == ASSUME NEW s, NEW k, NEW v, NEW x, x # k PROVE SameAt(x, s, Put(s, k, v))
  BY DEF SameAt, Put

\* The instances of a token, written one after the other.
LEMMA WrittenAtKey ==
    ASSUME KeysComeApart, NEW A, NEW R, NEW d, IsMockESDTData(d, A, R), NEW s \in Storages(A, R),
           NEW t \in Token, NEW n \in Nonce
    PROVE  LET k == makeTokenKey(t, n)
           IN  IF d.token = t /\ Listings(d, n) # {}
               THEN k \in DOMAIN Written(s, d) /\ Written(s, d)[k] = Units(LastListed(d, n))
               ELSE SameAt(k, s, Written(s, d))
<1> DEFINE k == makeTokenKey(t, n)
           X == Storages(A, R)
           N == Len(d.instances)
           I == {i \in 1..N : d.token = t /\ d.instances[i].nonce = n}
           V == [i \in 1..N |-> Units(d.instances[i])]
<1>1. /\ N \in Nat /\ d.token \in Token
      /\ \A i \in 1..N : d.instances[i].nonce \in Nonce
  BY LenProperties DEF IsMockESDTData, IsUnits
<1>2. PICK h : /\ IsTrace(h, N, X, s, InstanceSteps(d, X)) /\ Written(s, d) = h[N]
  BY WrittenTrace
<1>3. /\ h[0] = s
      /\ \A m \in 1..N : h[m] = WriteInstance(d.token, h[m - 1], d.instances[m])
  <2>1. h[0] = s /\ h \in [0..N -> X] /\ \A m \in 1..N : h[m] = InstanceSteps(d, X)[m][h[m - 1]]
    BY <1>2 DEF IsTrace
  <2>2. \A m \in 1..N : m - 1 \in 0..N
    BY <1>1
  <2>3. \A m \in 1..N : \A x \in X : InstanceSteps(d, X)[m][x] = WriteInstance(d.token, x, d.instances[m])
    BY DEF InstanceSteps
  <2> HIDE DEF N, X
  <2> QED BY <2>1, <2>2, <2>3
<1>4. \A m \in 1..N : h[m] = Put(h[m - 1], makeTokenKey(d.token, d.instances[m].nonce), Units(d.instances[m]))
  BY <1>3 DEF WriteInstance, Units
<1> HIDE DEF k, X, N
<1>5. \A m \in 1..N : m \in I => k \in DOMAIN h[m] /\ h[m][k] = V[m]
  <2> SUFFICES ASSUME NEW m \in 1..N, d.token = t, d.instances[m].nonce = n
               PROVE  k \in DOMAIN h[m] /\ h[m][k] = Units(d.instances[m])
    OBVIOUS
  <2>1. h[m] = Put(h[m - 1], k, Units(d.instances[m]))
    BY <1>4 DEF k
  <2> QED BY <2>1 DEF Put
<1>6. \A m \in 1..N : m \notin I => SameAt(k, h[m - 1], h[m])
  <2> SUFFICES ASSUME NEW m \in 1..N, ~(d.token = t /\ d.instances[m].nonce = n)
               PROVE  SameAt(k, h[m - 1], h[m])
    OBVIOUS
  <2>1. k # makeTokenKey(d.token, d.instances[m].nonce)
    BY <1>1, KeysDiffer DEF k
  <2> QED BY <1>4, <2>1, PutElsewhere
<1>7. I \in SUBSET (1..N) /\ WritesTo(k, h, N, I, V)
  BY <1>5, <1>6 DEF WritesTo
<1> HIDE DEF I, V
<1>8. /\ I = {} => SameAt(k, h[0], h[N])
      /\ I # {} => k \in DOMAIN h[N] /\ h[N][k] = V[Max(I)]
  <2>1. N \in Nat BY <1>1
  <2>2. WritesTo(k, h, N, I, V) BY <1>7
  <2>3. I = {} => SameAt(k, h[0], h[N]) BY <2>1, <2>2, LastWrite
  <2>4. ASSUME I # {} PROVE k \in DOMAIN h[N] BY <2>1, <2>2, <2>4, LastWrite
  <2>5. ASSUME I # {} PROVE h[N][k] = V[Max(I)] BY <2>1, <2>2, <2>5, LastWrite
  <2> QED BY <2>3, <2>4, <2>5
<1>9. CASE d.token = t /\ Listings(d, n) # {}
  <2>1. I = Listings(d, n)
    BY <1>9 DEF I, Listings, N
  <2>2. Max(I) \in 1..N
    BY <1>1, <1>7, <1>9, <2>1, MaxIsIn
  <2>3. V[Max(I)] = Units(d.instances[Max(I)])
    BY <2>2 DEF V
  <2> QED BY <1>2, <1>8, <1>9, <2>1, <2>3 DEF LastListed, k
<1>10. CASE ~(d.token = t /\ Listings(d, n) # {})
  <2>1. I = {}
    BY <1>10 DEF I, Listings, N
  <2> QED BY <1>2, <1>3, <1>8, <1>10, <2>1 DEF k
<1> QED BY <1>9, <1>10

\* Instances are written to keys of instances only.
LEMMA WrittenElsewhere ==
    ASSUME NEW A, NEW R, NEW d, IsMockESDTData(d, A, R), NEW s \in Storages(A, R), NEW k, k.prefix # "esdt"
    PROVE  SameAt(k, s, Written(s, d))
<1> DEFINE X == Storages(A, R)
           N == Len(d.instances)
<1>1. N \in Nat /\ d.token \in Token
      /\ \A i \in 1..N : d.instances[i].nonce \in Nonce
  BY LenProperties DEF IsMockESDTData, IsUnits
<1>2. PICK h : /\ IsTrace(h, N, X, s, InstanceSteps(d, X)) /\ Written(s, d) = h[N]
  BY WrittenTrace
<1>3. h[0] = s /\ h \in [0..N -> X] /\ \A m \in 1..N : h[m] = InstanceSteps(d, X)[m][h[m - 1]]
  BY <1>2 DEF IsTrace
<1>4. \A m \in 1..N : \A x \in X : InstanceSteps(d, X)[m][x] = WriteInstance(d.token, x, d.instances[m])
  BY DEF InstanceSteps
<1> HIDE DEF N, X
<1>5. ASSUME NEW m \in 1..N PROVE SameAt(k, h[m - 1], h[m])
  <2>1. m - 1 \in 0..N
    BY <1>1
  <2>2. h[m] = WriteInstance(d.token, h[m - 1], d.instances[m])
    BY <1>3, <1>4, <2>1
  <2>3. makeTokenKey(d.token, d.instances[m].nonce) # k
    BY <1>1, KeyTypes
  <2> QED BY <2>2, <2>3, PutElsewhere DEF WriteInstance
<1>6. SameAt(k, h[0], h[N])
  BY <1>1, <1>5, LeftAlone
<1> QED BY <1>2, <1>3, <1>6

\* A token that is written: its instances, and nothing else of other tokens.
LEMMA TokenAtKey ==
    ASSUME KeysComeApart, NEW A, NEW R, NEW d, IsMockESDTData(d, A, R), NEW s \in Storages(A, R),
           NEW t \in Token, NEW n \in Nonce
    PROVE  LET k == makeTokenKey(t, n)
           IN  IF d.token = t /\ Listings(d, n) # {}
               THEN k \in DOMAIN WriteToken(s, d) /\ WriteToken(s, d)[k] = Units(LastListed(d, n))
               ELSE SameAt(k, s, WriteToken(s, d))
<1> DEFINE k == makeTokenKey(t, n)
           w == Written(s, d)
           p == Put(w, makeLastNonceKey(d.token), Bytes[d.lastNonce])
           r == WriteToken(s, d)
<1>1. r = Put(p, makeTokenRolesKey(d.token), d.roles)
  BY WriteTokenIs
<1>2. k # makeLastNonceKey(d.token) /\ k # makeTokenRolesKey(d.token)
  <2>1. k.prefix = "esdt" /\ d.token \in Token
    BY KeyTypes DEF IsMockESDTData
  <2> HIDE DEF k
  <2> QED BY <2>1, NamedKeyTypes
<1> HIDE DEF k
<1>3. SameAt(k, w, p)
  BY <1>2, PutElsewhere
<1> HIDE DEF p, r, w
<1>4. SameAt(k, w, r)
  BY <1>1, <1>2, <1>3, PutElsewhere, SameAtTwice
<1>5. IF d.token = t /\ Listings(d, n) # {}
      THEN k \in DOMAIN w /\ w[k] = Units(LastListed(d, n))
      ELSE SameAt(k, s, w)
  BY WrittenAtKey DEF k, w
<1>6. CASE d.token = t /\ Listings(d, n) # {}
  <2>1. k \in DOMAIN r /\ r[k] = w[k]
    BY <1>4, <1>5, <1>6 DEF SameAt
  <2> QED BY <1>5, <1>6, <2>1 DEF k, r
<1>7. CASE ~(d.token = t /\ Listings(d, n) # {})
  <2>1. SameAt(k, s, r)
    BY <1>4, <1>5, <1>7, SameAtTwice
  <2> QED BY <1>7, <2>1 DEF k, r
<1> QED BY <1>6, <1>7

\* Its last nonce and its roles, and none of other tokens.
LEMMA TokenAtName ==
    ASSUME NEW A, NEW R, NEW d, IsMockESDTData(d, A, R), NEW s \in Storages(A, R), NEW t \in Token
    PROVE  LET r == WriteToken(s, d)
               l == makeLastNonceKey(t)
               k == makeTokenRolesKey(t)
           IN  IF d.token = t
               THEN /\ l \in DOMAIN r /\ r[l] = Bytes[d.lastNonce]
                    /\ k \in DOMAIN r /\ r[k] = d.roles
               ELSE SameAt(l, s, r) /\ SameAt(k, s, r)
<1> DEFINE w == Written(s, d)
           dl == makeLastNonceKey(d.token)
           dk == makeTokenRolesKey(d.token)
           p == Put(w, dl, Bytes[d.lastNonce])
           r == WriteToken(s, d)
           l == makeLastNonceKey(t)
           k == makeTokenRolesKey(t)
<1>1. r = Put(p, dk, d.roles)
  BY WriteTokenIs
<1>2. l = [prefix |-> "nonce", rest |-> t] /\ k = [prefix |-> "role", rest |-> t]
      /\ dl = [prefix |-> "nonce", rest |-> d.token] /\ dk = [prefix |-> "role", rest |-> d.token]
  BY NamedKeyTypes DEF IsMockESDTData
<1> HIDE DEF l, k, dl, dk
<1>3. /\ l # k /\ l # dk /\ k # dl /\ l.prefix # "esdt" /\ k.prefix # "esdt"
      /\ d.token = t <=> l = dl
      /\ d.token = t <=> k = dk
  BY <1>2
<1>4. SameAt(l, s, w) /\ SameAt(k, s, w)
  BY <1>3, WrittenElsewhere
<1> HIDE DEF w, r
<1>5. CASE d.token = t
  <2>1. l \in DOMAIN p /\ p[l] = Bytes[d.lastNonce]
    BY <1>3, <1>5 DEF Put
  <2> HIDE DEF p
  <2>2. k \in DOMAIN r /\ r[k] = d.roles
    BY <1>1, <1>3, <1>5 DEF Put
  <2>3. SameAt(l, p, r)
    BY <1>1, <1>3, PutElsewhere
  <2>4. l \in DOMAIN r /\ r[l] = Bytes[d.lastNonce]
    BY <2>1, <2>3 DEF SameAt
  <2> QED BY <1>5, <2>2, <2>4 DEF l, k, r
<1>6. CASE d.token # t
  <2>1. SameAt(l, w, p) /\ SameAt(k, w, p)
    BY <1>3, <1>6, PutElsewhere
  <2> HIDE DEF p
  <2>2. SameAt(l, p, r) /\ SameAt(k, p, r)
    BY <1>1, <1>3, <1>6, PutElsewhere
  <2>3. SameAt(l, s, p) /\ SameAt(k, s, p)
    BY <1>4, <2>1, SameAtTwice
  <2>4. SameAt(l, s, r) /\ SameAt(k, s, r)
    BY <2>2, <2>3, SameAtTwice
  <2> QED BY <1>6, <2>4 DEF l, k, r
<1> QED BY <1>5, <1>6

\* A token is not written to plain keys.
LEMMA TokenElsewhere ==
    ASSUME NEW A, NEW R, NEW d, IsMockESDTData(d, A, R), NEW s \in Storages(A, R), NEW k, k.prefix = "plain"
    PROVE  SameAt(k, s, WriteToken(s, d))
<1> DEFINE w == Written(s, d)
           dl == makeLastNonceKey(d.token)
           dk == makeTokenRolesKey(d.token)
           p == Put(w, dl, Bytes[d.lastNonce])
<1>1. WriteToken(s, d) = Put(p, dk, d.roles)
  BY WriteTokenIs
<1>2. k # dl /\ k # dk
  <2>1. dl = [prefix |-> "nonce", rest |-> d.token] /\ dk = [prefix |-> "role", rest |-> d.token]
    BY NamedKeyTypes DEF IsMockESDTData
  <2> HIDE DEF dl, dk
  <2>2. dl.prefix = "nonce" /\ dk.prefix = "role"
    BY <2>1
  <2> QED BY <2>2
<1> HIDE DEF dl, dk
<1>3. SameAt(k, s, w)
  BY WrittenElsewhere
<1> HIDE DEF w
<1>4. SameAt(k, w, p)
  BY <1>2, PutElsewhere
<1> HIDE DEF p
<1>5. SameAt(k, p, WriteToken(s, d))
  BY <1>1, <1>2, PutElsewhere
<1> QED BY <1>3, <1>4, <1>5, SameAtTwice

\* The storage an account gets, after each of its tokens.
LEMMA ConvertedTrace ==
    ASSUME NEW A, NEW R, NEW spec, IsSpecOf(spec, A, R)
    PROVE  \E h : /\ h[0] = PlainStorage(spec.entries)
                  /\ h[Len(spec.esdt)] = convertAccount(spec).Storage
                  /\ \A m \in 1..Len(spec.esdt) :
                        h[m - 1] \in Storages(A, R) /\ h[m] = WriteToken(h[m - 1], spec.esdt[m])
<1> DEFINE X == Storages(A, R)
           s0 == PlainStorage(spec.entries)
           data == spec.esdt
           N == Len(data)
<1>1. IsESDT(data, A, R) /\ s0 \in X /\ N \in Nat
  BY PlainStorageType, LenProperties DEF IsSpecOf, IsESDT
<1>2. convertAccount(spec).Storage = WriteScenariosESDTToStorage(data, s0)
  BY ConvertedStorage
<1>3. PICK h : IsTrace(h, N, X, s0, TokenSteps(data, X)) /\ WriteScenariosESDTToStorage(data, s0) = h[N]
  <2> HIDE DEF s0, data
  <2> QED BY <1>1, TokensTrace
<1>4. h[0] = s0 /\ h \in [0..N -> X] /\ \A m \in 1..N : h[m] = TokenSteps(data, X)[m][h[m - 1]]
  BY <1>3 DEF IsTrace
<1>5. \A m \in 1..N : \A x \in X : TokenSteps(data, X)[m][x] = WriteToken(x, data[m])
  BY DEF TokenSteps
<1> HIDE DEF X, N, data, s0
<1>6. \A m \in 1..N : m - 1 \in 0..N
  BY <1>1
<1>7. \A m \in 1..N : h[m - 1] \in X /\ h[m] = WriteToken(h[m - 1], data[m])
  BY <1>4, <1>5, <1>6
<1>8. h[N] = convertAccount(spec).Storage
  BY <1>2, <1>3
<1> QED BY <1>4, <1>7, <1>8 DEF X, N, data, s0

\* The instances an account has been given.
LEMMA ConvertedInstances ==
    ASSUME KeysComeApart, NEW A, NEW R, NEW spec, IsSpecOf(spec, A, R), NEW t \in Token, NEW n \in Nonce
    PROVE  LET s == convertAccount(spec).Storage
               k == makeTokenKey(t, n)
               I == Mentions(spec.esdt, t, n)
           IN  /\ I = {} => k \notin DOMAIN s
               /\ I # {} => k \in DOMAIN s /\ s[k] = Units(LastListed(spec.esdt[Max(I)], n))
<1> DEFINE X == Storages(A, R)
           s0 == PlainStorage(spec.entries)
           data == spec.esdt
           N == Len(data)
           k == makeTokenKey(t, n)
           I == Mentions(data, t, n)
           V == [m \in 1..N |-> Units(LastListed(data[m], n))]
<1>1. N \in Nat /\ \A m \in 1..N : IsMockESDTData(data[m], A, R)
  BY LenProperties DEF IsSpecOf, IsESDT
<1>2. PICK h : /\ h[0] = s0 /\ h[N] = convertAccount(spec).Storage
               /\ \A m \in 1..N : h[m - 1] \in X /\ h[m] = WriteToken(h[m - 1], data[m])
  BY ConvertedTrace
<1>3. I \in SUBSET (1..N) /\ \A m \in 1..N : m \in I <=> data[m].token = t /\ Listings(data[m], n) # {}
  BY DEF Mentions
<1>4. k \notin DOMAIN s0
  <2>1. DOMAIN s0 = {Plain(e) : e \in DOMAIN spec.entries} /\ k.prefix = "esdt"
    BY KeyTypes DEF PlainStorage
  <2>2. \A e : Plain(e).prefix = "plain"
    BY DEF Plain, Key
  <2> HIDE DEF k, s0
  <2> QED BY <2>1, <2>2
<1>5. \A m \in 1..N : V[m] = Units(LastListed(data[m], n))
  OBVIOUS
<1> HIDE DEF X, s0, data, N, I, V
<1>6. ASSUME NEW m \in 1..N
      PROVE  IF m \in I THEN k \in DOMAIN h[m] /\ h[m][k] = V[m] ELSE SameAt(k, h[m - 1], h[m])
  <2>1. IsMockESDTData(data[m], A, R) /\ h[m - 1] \in X /\ h[m] = WriteToken(h[m - 1], data[m])
    BY <1>1, <1>2
  <2> DEFINE d == data[m]
             q == h[m - 1]
  <2> HIDE DEF d, q
  <2>2. IF d.token = t /\ Listings(d, n) # {}
        THEN k \in DOMAIN WriteToken(q, d) /\ WriteToken(q, d)[k] = Units(LastListed(d, n))
        ELSE SameAt(k, q, WriteToken(q, d))
    BY <2>1, TokenAtKey DEF X, d, q
  <2> QED BY <1>3, <1>5, <2>1, <2>2 DEF d, q
<1> HIDE DEF k
<1>7. WritesTo(k, h, N, I, V)
  BY <1>3, <1>6 DEF WritesTo
<1>8. I = {} => SameAt(k, h[0], h[N])
  BY <1>1, <1>7, LastWrite
<1>9. ASSUME I # {} PROVE k \in DOMAIN h[N]
  BY <1>1, <1>7, <1>9, LastWrite
<1>10. ASSUME I # {} PROVE h[N][k] = V[Max(I)] /\ Max(I) \in 1..N
  <2>1. h[N][k] = V[Max(I)]
    BY <1>1, <1>7, <1>10, LastWrite
  <2> QED BY <1>1, <1>3, <1>10, <2>1, MaxIsIn
<1>11. I = {} => k \notin DOMAIN h[N]
  BY <1>2, <1>4, <1>8 DEF SameAt
<1>12. I # {} => h[N][k] = Units(LastListed(data[Max(I)], n))
  BY <1>5, <1>10
<1> QED BY <1>2, <1>9, <1>11, <1>12 DEF k, I, N, data

\* The last nonces and roles.
LEMMA ConvertedNames ==
    ASSUME NEW A, NEW R, NEW spec, IsSpecOf(spec, A, R), NEW t \in Token
    PROVE  LET s == convertAccount(spec).Storage
               l == makeLastNonceKey(t)
               k == makeTokenRolesKey(t)
               I == Namings(spec.esdt, t)
           IN  /\ I = {} => l \notin DOMAIN s /\ k \notin DOMAIN s
               /\ I # {} => /\ l \in DOMAIN s /\ s[l] = Bytes[spec.esdt[Max(I)].lastNonce]
                            /\ k \in DOMAIN s /\ s[k] = spec.esdt[Max(I)].roles
<1> DEFINE X == Storages(A, R)
           s0 == PlainStorage(spec.entries)
           data == spec.esdt
           N == Len(data)
           l == makeLastNonceKey(t)
           k == makeTokenRolesKey(t)
           I == Namings(data, t)
           V == [m \in 1..N |-> Bytes[data[m].lastNonce]]
           W == [m \in 1..N |-> data[m].roles]
<1>1. N \in Nat /\ \A m \in 1..N : IsMockESDTData(data[m], A, R)
  BY LenProperties DEF IsSpecOf, IsESDT
<1>2. PICK h : /\ h[0] = s0 /\ h[N] = convertAccount(spec).Storage
               /\ \A m \in 1..N : h[m - 1] \in X /\ h[m] = WriteToken(h[m - 1], data[m])
  BY ConvertedTrace
<1>3. I \in SUBSET (1..N) /\ \A m \in 1..N : m \in I <=> data[m].token = t
  BY DEF Namings
<1>4. l \notin DOMAIN s0 /\ k \notin DOMAIN s0
  <2>1. DOMAIN s0 = {Plain(e) : e \in DOMAIN spec.entries} /\ l.prefix = "nonce" /\ k.prefix = "role"
    BY NamedKeyTypes DEF PlainStorage
  <2>2. \A e : Plain(e).prefix = "plain"
    BY DEF Plain, Key
  <2> HIDE DEF l, k, s0
  <2> QED BY <2>1, <2>2
<1>5. \A m \in 1..N : V[m] = Bytes[data[m].lastNonce] /\ W[m] = data[m].roles
  OBVIOUS
<1> HIDE DEF X, s0, data, N, I, V, W
<1>6. ASSUME NEW m \in 1..N
      PROVE  IF m \in I THEN l \in DOMAIN h[m] /\ h[m][l] = V[m] /\ k \in DOMAIN h[m] /\ h[m][k] = W[m]
             ELSE SameAt(l, h[m - 1], h[m]) /\ SameAt(k, h[m - 1], h[m])
  <2>1. IsMockESDTData(data[m], A, R) /\ h[m - 1] \in X /\ h[m] = WriteToken(h[m - 1], data[m])
    BY <1>1, <1>2
  <2> DEFINE d == data[m]
             q == h[m - 1]
             r == WriteToken(q, d)
  <2> HIDE DEF d, q, r
  <2>2. IF d.token = t
        THEN l \in DOMAIN r /\ r[l] = Bytes[d.lastNonce] /\ k \in DOMAIN r /\ r[k] = d.roles
        ELSE SameAt(l, q, r) /\ SameAt(k, q, r)
    BY <2>1, TokenAtName DEF X, d, q, r
  <2> QED BY <1>3, <1>5, <2>1, <2>2 DEF d, q, r
<1> HIDE DEF l, k
<1>7. WritesTo(l, h, N, I, V) /\ WritesTo(k, h, N, I, W)
  BY <1>3, <1>6 DEF WritesTo
<1>8. I = {} => SameAt(l, h[0], h[N]) /\ SameAt(k, h[0], h[N])
  BY <1>1, <1>7, LastWrite
<1>9. ASSUME I # {} PROVE l \in DOMAIN h[N] /\ k \in DOMAIN h[N]
  BY <1>1, <1>7, <1>9, LastWrite
<1>10. ASSUME I # {} PROVE h[N][l] = V[Max(I)] /\ h[N][k] = W[Max(I)] /\ Max(I) \in 1..N
  <2>1. h[N][l] = V[Max(I)]
    BY <1>1, <1>7, <1>10, LastWrite
  <2>2. h[N][k] = W[Max(I)]
    BY <1>1, <1>7, <1>10, LastWrite
  <2> QED BY <1>1, <1>3, <1>10, <2>1, <2>2, MaxIsIn
<1>11. I = {} => l \notin DOMAIN h[N] /\ k \notin DOMAIN h[N]
  BY <1>2, <1>4, <1>8 DEF SameAt
<1>12. I # {} => h[N][l] = Bytes[data[Max(I)].lastNonce] /\ h[N][k] = data[Max(I)].roles
  BY <1>5, <1>10
<1> QED BY <1>2, <1>9, <1>11, <1>12 DEF l, k, I, N, data

\* The entries of contracts.
LEMMA ConvertedEntries ==
    ASSUME NEW A, NEW R, NEW spec, IsSpecOf(spec, A, R), NEW e
    PROVE  LET s == convertAccount(spec).Storage
           IN  /\ Plain(e) \in DOMAIN s <=> e \in DOMAIN spec.entries
               /\ e \in DOMAIN spec.entries => s[Plain(e)] = spec.entries[e]
<1> DEFINE X == Storages(A, R)
           s0 == PlainStorage(spec.entries)
           data == spec.esdt
           N == Len(data)
           k == Plain(e)
<1>1. N \in Nat /\ \A m \in 1..N : IsMockESDTData(data[m], A, R)
  BY LenProperties DEF IsSpecOf, IsESDT
<1>2. PICK h : /\ h[0] = s0 /\ h[N] = convertAccount(spec).Storage
               /\ \A m \in 1..N : h[m - 1] \in X /\ h[m] = WriteToken(h[m - 1], data[m])
  BY ConvertedTrace
<1>3. k.prefix = "plain" /\ k.rest = e /\ \A x : Plain(x) = k => x = e
  BY DEF Plain, Key
<1>4. /\ k \in DOMAIN s0 <=> e \in DOMAIN spec.entries
      /\ e \in DOMAIN spec.entries => s0[k] = spec.entries[e]
  BY <1>3 DEF PlainStorage
<1> HIDE DEF X, s0, data, N, k
<1>5. \A m \in 1..N : m > 0 => SameAt(k, h[m - 1], h[m])
  <2> SUFFICES ASSUME NEW m \in 1..N PROVE SameAt(k, h[m - 1], h[m])
    OBVIOUS
  <2> DEFINE d == data[m]
             q == h[m - 1]
  <2>1. IsMockESDTData(d, A, R) /\ q \in X /\ h[m] = WriteToken(q, d)
    BY <1>1, <1>2
  <2> HIDE DEF d, q
  <2>2. SameAt(k, q, WriteToken(q, d))
    BY <1>3, <2>1, TokenElsewhere DEF X
  <2> QED BY <2>1, <2>2 DEF q
<1>6. SameAt(k, h[0], h[N])
  BY <1>1, <1>5, LeftAlone
<1> QED BY <1>2, <1>4, <1>6 DEF SameAt, k

\* The greatest of a set of positions, by choice.
LEMMA ChosenIsMax ==
    ASSUME NEW n \in Nat, NEW I \in SUBSET (1..n), I # {}, NEW c \in I, \A j \in I : j <= c
    PROVE  c = Max(I)
<1> DEFINE m == Max(I)
<1>1. m \in I /\ \A j \in I : m >= j
  BY MaxIsIn
<1> HIDE DEF m
<1>2. m \in Nat /\ c \in Nat /\ m >= c /\ m <= c
  BY <1>1
<1>3. c = m
  BY <1>2
<1> QED BY <1>3 DEF m

\* The last mention of an instance, as the ledger puts it.
LEMMA AmountIs ==
    ASSUME NEW A, NEW R, NEW data, IsESDT(data, A, R), NEW t, NEW n
    PROVE  Ledger!AmountSet(data, t, n) =
             IF Mentions(data, t, n) = {} THEN 0
             ELSE LastListed(data[Max(Mentions(data, t, n))], n).balance
<1> DEFINE N == Len(data)
           I == Mentions(data, t, n)
           P(m) == data[m].token = t /\ \E i \in DOMAIN data[m].instances : data[m].instances[i].nonce = n
           c == CHOOSE m \in DOMAIN data : P(m) /\ \A j \in DOMAIN data : P(j) => j <= m
           d == data[c]
           J == Listings(d, n)
           b == CHOOSE i \in DOMAIN d.instances : d.instances[i].nonce = n
                    /\ \A j \in DOMAIN d.instances : d.instances[j].nonce = n => j <= i
<1>1. /\ N \in Nat /\ DOMAIN data = 1..N
      /\ \A m \in 1..N : Len(data[m].instances) \in Nat /\ DOMAIN data[m].instances = 1..Len(data[m].instances)
  BY LenProperties DEF IsESDT, IsMockESDTData
<1>2. Ledger!AmountSet(data, t, n) = IF ~\E m \in DOMAIN data : P(m) THEN 0 ELSE d.instances[b].balance
  BY DEF Ledger!AmountSet, Ledger!Mentions, Ledger!Names, Ledger!Says, Ledger!LastThat
<1>3. \A m \in 1..N : m \in I <=> P(m)
  BY <1>1 DEF Mentions, Listings
<1>4. I \in SUBSET (1..N)
  BY DEF Mentions
<1>5. CASE I = {}
  BY <1>1, <1>2, <1>3, <1>5
<1>6. CASE I # {}
  <2>1. Max(I) \in I /\ \A j \in I : Max(I) >= j
    BY <1>1, <1>4, <1>6, MaxIsIn
  <2> HIDE DEF I, P
  <2>2. c \in 1..N /\ P(c) /\ \A j \in 1..N : P(j) => j <= c
    <3>1. Max(I) \in 1..N /\ P(Max(I)) /\ \A j \in 1..N : P(j) => j <= Max(I)
      BY <1>1, <1>3, <1>4, <2>1
    <3> QED BY <1>1, <3>1
  <2> HIDE DEF c
  <2>3. c \in I /\ \A j \in I : j <= c
    BY <1>3, <1>4, <2>2
  <2>4. c = Max(I)
    BY <1>1, <1>4, <1>6, <2>3, ChosenIsMax
  <2> DEFINE K == Len(d.instances)
  <2>5. K \in Nat /\ DOMAIN d.instances = 1..K /\ J \in SUBSET (1..K) /\ J # {}
        /\ \A i \in 1..K : i \in J <=> d.instances[i].nonce = n
    <3>1. d.token = t /\ J # {}
      BY <2>3 DEF I, Mentions
    <3> QED BY <1>1, <2>2, <3>1 DEF Listings
  <2> HIDE DEF d, J, K
  <2>6. Max(J) \in J /\ \A j \in J : Max(J) >= j
    BY <2>5, MaxIsIn
  <2>7. b \in 1..K /\ d.instances[b].nonce = n /\ \A j \in 1..K : d.instances[j].nonce = n => j <= b
    <3>1. Max(J) \in 1..K /\ d.instances[Max(J)].nonce = n
          /\ \A j \in 1..K : d.instances[j].nonce = n => j <= Max(J)
      BY <2>5, <2>6
    <3> QED BY <2>5, <3>1
  <2> HIDE DEF b
  <2>8. b \in J /\ \A j \in J : j <= b
    BY <2>5, <2>7
  <2>9. b = Max(J)
    BY <2>5, <2>8, ChosenIsMax
  <2>10. d.instances[b] = LastListed(data[Max(I)], n)
    BY <2>4, <2>9 DEF LastListed, J, d
  <2>11. \E m \in DOMAIN data : P(m)
    BY <1>1, <2>2
  <2> QED BY <1>2, <1>6, <2>10, <2>11 DEF I
<1> QED BY <1>5, <1>6

\* The last word on a token.
LEMMA HoldingOf ==
    ASSUME NEW A, NEW R, NEW data, IsESDT(data, A, R), NEW t
    PROVE  Ledger!Holding(data, t) =
             IF Namings(data, t) = {} THEN Ledger!Nothing
             ELSE [amount |-> [n \in Nonce |-> Ledger!AmountSet(data, t, n)],
                   lastNonce |-> data[Max(Namings(data, t))].lastNonce,
                   roles |-> data[Max(Namings(data, t))].roles]
<1> DEFINE N == Len(data)
           I == Namings(data, t)
           c == CHOOSE m \in DOMAIN data : data[m].token = t /\ \A j \in DOMAIN data : data[j].token = t => j <= m
<1>1. N \in Nat /\ DOMAIN data = 1..N
  BY LenProperties DEF IsESDT
<1>2. Ledger!Holding(data, t) =
        IF ~\E m \in DOMAIN data : data[m].token = t THEN Ledger!Nothing
        ELSE [amount |-> [n \in Nonce |-> Ledger!AmountSet(data, t, n)],
              lastNonce |-> data[c].lastNonce, roles |-> data[c].roles]
  BY DEF Ledger!Holding, Ledger!Names, Ledger!Says, Ledger!LastThat
<1>3. I \in SUBSET (1..N) /\ \A m \in 1..N : m \in I <=> data[m].token = t
  BY DEF Namings
<1>4. CASE I = {}
  BY <1>1, <1>2, <1>3, <1>4
<1>5. CASE I # {}
  <2>1. Max(I) \in I /\ \A j \in I : Max(I) >= j
    BY <1>1, <1>3, <1>5, MaxIsIn
  <2> HIDE DEF I
  <2>2. c \in 1..N /\ data[c].token = t /\ \A j \in 1..N : data[j].token = t => j <= c
    <3>1. Max(I) \in 1..N /\ data[Max(I)].token = t /\ \A j \in 1..N : data[j].token = t => j <= Max(I)
      BY <1>1, <1>3, <2>1
    <3> QED BY <1>1, <3>1
  <2> HIDE DEF c
  <2>3. c \in I /\ \A j \in I : j <= c
    BY <1>3, <2>2
  <2>4. c = Max(I)
    BY <1>1, <1>3, <1>5, <2>3, ChosenIsMax
  <2>5. \E m \in DOMAIN data : data[m].token = t
    BY <1>1, <2>2
  <2> QED BY <1>2, <1>5, <2>4, <2>5 DEF I
<1> QED BY <1>4, <1>5

----------------------------------------------------------------------------
(* What an account holds *)

\* What an account is seen to hold of a token.
Amounts(t, s) == [n \in Nonce |-> GetTokenBalance(t, n, s)]
TokenView(t, s) == [amount |-> Amounts(t, s), lastNonce |-> LastNonceOf(t, s), roles |-> RolesOf(t, s)]

\* A token that is set is held as it was set.
LEMMA HoldingIs ==
    ASSUME KeysComeApart, NEW A, NEW R, NoAttrs \in A, NEW spec, IsSpecOf(spec, A, R), NEW t \in Token
    PROVE  TokenView(t, convertAccount(spec).Storage) = Ledger!Holding(spec.esdt, t)
<1> DEFINE s == convertAccount(spec).Storage
           data == spec.esdt
           I == Namings(data, t)
<1>1. s \in Storages(A, R) /\ IsESDT(data, A, R)
  BY ConvertedStorage DEF IsSpecOf
<1>2. ASSUME NEW n \in Nonce PROVE GetTokenBalance(t, n, s) = Ledger!AmountSet(data, t, n)
  <2> DEFINE J == Mentions(data, t, n)
             k == makeTokenKey(t, n)
             u == LastListed(data[Max(J)], n)
  <2>1. /\ J = {} => k \notin DOMAIN s
        /\ J # {} => k \in DOMAIN s /\ s[k] = Units(u)
    BY ConvertedInstances
  <2>2. /\ GetTokenBalance(t, n, s) \in Nat
        /\ GetTokenBalance(t, n, s) > 0 => k \in DOMAIN s
        /\ k \in DOMAIN s => GetTokenBalance(t, n, s) = s[k].value
    BY <1>1, BalanceType
  <2>3. Units(u).value = u.balance
    BY DEF Units, Instance
  <2>4. Ledger!AmountSet(data, t, n) = IF J = {} THEN 0 ELSE u.balance
    BY <1>1, AmountIs
  <2> HIDE DEF J, k, u, s, data
  <2> QED BY <2>1, <2>2, <2>3, <2>4
<1>3. Amounts(t, s) = [n \in Nonce |-> Ledger!AmountSet(data, t, n)]
  BY <1>2 DEF Amounts
<1>4. Ledger!Holding(data, t) =
        IF I = {} THEN Ledger!Nothing
        ELSE [amount |-> [n \in Nonce |-> Ledger!AmountSet(data, t, n)],
              lastNonce |-> data[Max(I)].lastNonce, roles |-> data[Max(I)].roles]
  BY <1>1, HoldingOf
<1>5. CASE I = {}
  <2>1. LastNonceOf(t, s) = 0 /\ RolesOf(t, s) = {}
    BY <1>5, ConvertedNames DEF LastNonceOf, RolesOf
  <2>2. ASSUME NEW n \in Nonce PROVE Ledger!AmountSet(data, t, n) = 0
    <3>1. Mentions(data, t, n) = {}
      BY <1>5 DEF Mentions, Namings
    <3> QED BY <1>1, <3>1, AmountIs
  <2>3. Amounts(t, s) = [n \in Nonce |-> 0]
    BY <1>3, <2>2
  <2> QED BY <1>4, <1>5, <2>1, <2>3 DEF TokenView, Ledger!Nothing
<1>6. CASE I # {}
  <2> DEFINE d == data[Max(I)]
  <2>1. LastNonceOf(t, s) = SetBytes(Bytes[d.lastNonce]) /\ RolesOf(t, s) = d.roles
    BY <1>6, ConvertedNames DEF LastNonceOf, RolesOf
  <2>2. d.lastNonce \in Nat
    <3>1. Len(data) \in Nat /\ I \in SUBSET (1..Len(data))
      BY <1>1, LenProperties DEF IsESDT, Namings
    <3>2. Max(I) \in 1..Len(data)
      BY <1>6, <3>1, MaxIsIn
    <3> QED BY <1>1, <3>2 DEF IsESDT, IsMockESDTData
  <2>3. SetBytes(Bytes[d.lastNonce]) = d.lastNonce
    BY <2>2, BytesAreReadBack
  <2> HIDE DEF s, I, d
  <2>4. TokenView(t, s) = [amount |-> Amounts(t, s), lastNonce |-> d.lastNonce, roles |-> d.roles]
    BY <2>1, <2>3 DEF TokenView
  <2> QED BY <1>3, <1>4, <1>6, <2>4 DEF d, s
<1> QED BY <1>5, <1>6

\* What an account is seen to be.
EntriesOf(s) == [k \in EntryKey |-> IF Plain(k) \in DOMAIN s THEN s[Plain(k)] ELSE Empty]
TokensOf(s) == [t \in Token |-> TokenView(t, s)]
AcctView(acct) ==
    [balance |-> acct.balance, owner |-> acct.owner,
     entries |-> EntriesOf(acct.Storage), tokens |-> TokensOf(acct.Storage)]
MapView(m) == [a \in DOMAIN m |-> AcctView(m[a])]

\* View, of any account map and what is found in it.
ViewIn(m, f, a) ==
    [balance |-> m[a].balance, owner |-> m[a].owner,
     entries |-> EntriesOf(m[a].Storage),
     tokens  |-> [t \in Token |->
        IF t \in DOMAIN f[a] THEN Held(f[a][t])
        ELSE Held([instances |-> {}, lastNonce |-> 0, roles |-> {}])]]

\* Of what the scan finds, the view keeps what can be read by the keys.
LEMMA FoundIs ==
    ASSUME KeysComeApart, NEW A, NEW R, NoAttrs \in A, NEW s \in Storages(A, R), NEW z \in Storages(A, R),
           NEW f, f = GetFullMockESDTData(s, z), NEW t \in Token
    PROVE  (IF t \in DOMAIN f THEN Held(f[t])
            ELSE Held([instances |-> {}, lastNonce |-> 0, roles |-> {}])) = TokenView(t, s)
<1>1. f = [u \in TokensIn(s) |-> Find(u, s, z)]
  BY ScanIsComplete
<1> DEFINE instances == {Unit(t, n, s, z) : n \in Holds(t, s)}
<1>2. ASSUME NEW n \in Nonce PROVE AmountIn(instances, n) = GetTokenBalance(t, n, s)
  <2>1. \A m : Unit(t, m, s, z).nonce = m /\ Unit(t, m, s, z).balance = GetTokenBalance(t, m, s)
    BY DEF Unit
  <2>2. GetTokenBalance(t, n, s) \in Nat
    BY BalanceType
  <2>3. n \in Holds(t, s) <=> GetTokenBalance(t, n, s) > 0
    BY DEF Holds
  <2>4. CASE n \in Holds(t, s)
    <3> DEFINE i == CHOOSE i \in instances : i.nonce = n
    <3>1. Unit(t, n, s, z) \in instances /\ Unit(t, n, s, z).nonce = n
      BY <2>1, <2>4
    <3>2. i \in instances /\ i.nonce = n
      BY <3>1
    <3> HIDE DEF i
    <3>3. i = Unit(t, n, s, z)
      BY <2>1, <3>2
    <3> HIDE DEF instances
    <3>4. AmountIn(instances, n) = i.balance
      BY <3>1 DEF AmountIn, i
    <3> QED BY <2>1, <3>3, <3>4
  <2>5. CASE n \notin Holds(t, s)
    <3>1. ~\E i \in instances : i.nonce = n
      BY <2>1, <2>5
    <3>2. AmountIn(instances, n) = 0
      BY <3>1 DEF AmountIn
    <3> HIDE DEF instances
    <3> QED BY <2>2, <2>3, <2>5, <3>2
  <2> QED BY <2>4, <2>5
<1>3. [n \in Nonce |-> AmountIn(instances, n)] = Amounts(t, s)
  BY <1>2 DEF Amounts
<1>4. CASE t \in TokensIn(s)
  <2>1. f[t] = [instances |-> instances, lastNonce |-> LastNonceOf(t, s), roles |-> RolesOf(t, s)]
    BY <1>1, <1>4 DEF Find
  <2> HIDE DEF instances
  <2>2. Held(f[t]) = [amount |-> [n \in Nonce |-> AmountIn(instances, n)],
                      lastNonce |-> LastNonceOf(t, s), roles |-> RolesOf(t, s)]
    BY <2>1 DEF Held
  <2> QED BY <1>1, <1>3, <1>4, <2>2 DEF TokenView
<1>5. CASE t \notin TokensIn(s)
  <2>1. instances = {} /\ LastNonceOf(t, s) = 0 /\ RolesOf(t, s) = {}
    BY <1>5 DEF TokensIn, LastNonceOf, RolesOf
  <2> HIDE DEF instances
  <2>2. Held([instances |-> {}, lastNonce |-> 0, roles |-> {}]) =
          [amount |-> [n \in Nonce |-> AmountIn(instances, n)], lastNonce |-> 0, roles |-> {}]
    BY <2>1 DEF Held
  <2> QED BY <1>1, <1>3, <1>5, <2>1, <2>2 DEF TokenView
<1> QED BY <1>4, <1>5

\* What the accounts are seen to be does not depend on the metadata.
LEMMA MapViewIs ==
    ASSUME KeysComeApart, NEW m \in AccountMaps, NEW z \in Storage0, NEW f,
           f = [a \in DOMAIN m |-> GetFullMockESDTData(m[a].Storage, z)]
    PROVE  [a \in DOMAIN m |-> ViewIn(m, f, a)] = MapView(m)
<1>1. ASSUME NEW a \in DOMAIN m PROVE ViewIn(m, f, a) = AcctView(m[a])
  <2> DEFINE s == m[a].Storage
             g == f[a]
  <2>1. s \in Storage0 /\ g = GetFullMockESDTData(s, z)
    BY AccountMapIs DEF Accounts
  <2> HIDE DEF s, g
  <2>2. ASSUME NEW t \in Token
        PROVE  (IF t \in DOMAIN g THEN Held(g[t])
                ELSE Held([instances |-> {}, lastNonce |-> 0, roles |-> {}])) = TokenView(t, s)
    BY <2>1, FoundIs, SpecsAreSound DEF Storage0
  <2>3. [t \in Token |->
            IF t \in DOMAIN g THEN Held(g[t])
            ELSE Held([instances |-> {}, lastNonce |-> 0, roles |-> {}])] = TokensOf(s)
    BY <2>2 DEF TokensOf
  <2> QED BY <2>3 DEF ViewIn, AcctView, s, g
<1> QED BY <1>1 DEF MapView

\* What is under the same key has the same balance.
LEMMA SameBalance ==
    ASSUME NEW t, NEW n, NEW s, NEW r, SameAt(makeTokenKey(t, n), s, r)
    PROVE  GetTokenBalance(t, n, r) = GetTokenBalance(t, n, s)
<1>1. DOMAIN NoStorage = {}
  BY DEF NoStorage
<1> QED BY <1>1 DEF SameAt, GetTokenBalance, GetTokenData, getTokenDataByKey

\* An account with v under the key k, and what has x of an instance.
WithEntry(acct, k, v) == [acct EXCEPT !.Storage = Put(@, k, v)]
WithAmount(view, t, n, x) == [view EXCEPT !.tokens[t].amount[n] = x]

\* Writing to the key of an instance changes its amount and nothing else.
LEMMA PutView ==
    ASSUME KeysComeApart, NEW acct \in Accounts, NEW t \in Token, NEW n \in Nonce,
           NEW v, InstanceEntry(SpecAttrs, makeTokenKey(t, n), v)
    PROVE  /\ WithEntry(acct, makeTokenKey(t, n), v) \in Accounts
           /\ AcctView(WithEntry(acct, makeTokenKey(t, n), v)) = WithAmount(AcctView(acct), t, n, v.value)
<1> DEFINE k == makeTokenKey(t, n)
           s == acct.Storage
           r == Put(s, k, v)
<1>1. s \in Storage0 /\ NoAttrs \in SpecAttrs
  BY SpecsAreSound DEF Accounts
<1>2. r \in Storage0
  <2> HIDE DEF s
  <2> QED BY <1>1, PutEntry DEF Storage0
<1>3. k \in DOMAIN r /\ r[k] = v
  BY DEF Put
<1>4. k.prefix = "esdt"
  BY KeyTypes
<1> HIDE DEF k
<1>5. \A x : x # k => SameAt(x, s, r)
  BY PutElsewhere
<1> HIDE DEF s, r
<1>6. GetTokenBalance(t, n, r) = v.value
  BY <1>1, <1>2, <1>3, BalanceType DEF k, Storage0
<1>7. ASSUME NEW u \in Token, NEW m \in Nonce, ~(u = t /\ m = n)
      PROVE  GetTokenBalance(u, m, r) = GetTokenBalance(u, m, s)
  <2>1. makeTokenKey(u, m) # k
    BY <1>7, KeysDiffer DEF k
  <2> QED BY <1>5, <2>1, SameBalance
<1>8. ASSUME NEW u \in Token PROVE LastNonceOf(u, r) = LastNonceOf(u, s) /\ RolesOf(u, r) = RolesOf(u, s)
  <2>1. makeLastNonceKey(u) # k /\ makeTokenRolesKey(u) # k
    BY <1>4, NamedKeyTypes
  <2>2. SameAt(makeLastNonceKey(u), s, r) /\ SameAt(makeTokenRolesKey(u), s, r)
    BY <1>5, <2>1
  <2> QED BY <2>2 DEF SameAt, LastNonceOf, RolesOf
<1>9. EntriesOf(r) = EntriesOf(s)
  <2>1. \A e : SameAt(Plain(e), s, r)
    <3>1. \A e : Plain(e).prefix = "plain"
      BY DEF Plain, Key
    <3> QED BY <1>4, <1>5, <3>1
  <2> QED BY <2>1 DEF SameAt, EntriesOf
<1>10. ASSUME NEW u \in Token, u # t PROVE TokenView(u, r) = TokenView(u, s)
  <2>1. Amounts(u, r) = Amounts(u, s)
    BY <1>7, <1>10 DEF Amounts
  <2> QED BY <1>8, <2>1 DEF TokenView
<1>11. TokenView(t, r) = [TokenView(t, s) EXCEPT !.amount[n] = v.value]
  <2>1. Amounts(t, r) = [Amounts(t, s) EXCEPT ![n] = v.value]
    BY <1>6, <1>7 DEF Amounts
  <2> QED BY <1>8, <2>1 DEF TokenView
<1>12. TokensOf(r) = [TokensOf(s) EXCEPT ![t].amount[n] = v.value]
  BY <1>10, <1>11 DEF TokensOf
<1>13. AcctView([acct EXCEPT !.Storage = r]) = [AcctView(acct) EXCEPT !.tokens[t].amount[n] = v.value]
  <2>1. AcctView([acct EXCEPT !.Storage = r]) =
          [balance |-> acct.balance, owner |-> acct.owner, entries |-> EntriesOf(r), tokens |-> TokensOf(r)]
    BY DEF AcctView, Accounts
  <2>2. AcctView(acct) =
          [balance |-> acct.balance, owner |-> acct.owner, entries |-> EntriesOf(s), tokens |-> TokensOf(s)]
    BY DEF AcctView, s
  <2> QED BY <1>9, <1>12, <2>1, <2>2
<1>14. WithEntry(acct, k, v) = [acct EXCEPT !.Storage = r]
  BY DEF WithEntry, r, s
<1>15. WithEntry(acct, k, v) \in Accounts
  BY <1>2, <1>14, AnotherStorage
<1> QED BY <1>13, <1>14, <1>15 DEF k, WithAmount

\* An account that is set is seen to be what was set.
LEMMA ConvertedView ==
    ASSUME KeysComeApart, NEW spec \in AccountSpec
    PROVE  AcctView(convertAccount(spec)) = Ledger!Holdings(spec)
<1> DEFINE s == convertAccount(spec).Storage
<1>1. IsSpecOf(spec, SpecAttrs, SpecRoles) /\ NoAttrs \in SpecAttrs
  BY SpecsAreSound
<1>2. TokensOf(s) = [t \in Token |-> Ledger!Holding(spec.esdt, t)]
  BY <1>1, HoldingIs DEF TokensOf
<1>3. EntriesOf(s) = [k \in EntryKey |-> IF k \in DOMAIN spec.entries THEN spec.entries[k] ELSE Empty]
  BY <1>1, ConvertedEntries DEF EntriesOf
<1>4. convertAccount(spec).balance = spec.balance /\ convertAccount(spec).owner = spec.owner
  BY DEF convertAccount
<1> QED BY <1>2, <1>3, <1>4 DEF AcctView, Ledger!Holdings

----------------------------------------------------------------------------
(* The invariant of the metadata *)

SysOf(m) == IF SystemAccount \in DOMAIN m THEN m[SystemAccount].Storage ELSE NoStorage

\* The system account has metadata and nothing else.
OnlyMetaData(s) == \A k \in DOMAIN s : k.prefix = "esdt" /\ s[k].value = 0

Unowned(acct) == acct.balance = 0 /\ acct.owner = NoOwner /\ OnlyMetaData(acct.Storage)

\* The metadata of an instance, in the system account and with a holder.
CentralSays(t, n, z) ==
    LET k == makeTokenKey(t, n) IN k \in DOMAIN z => z[k].meta.attrs = AttrsOf[t][n]

HolderSays(t, n, s, z) ==
    LET k == makeTokenKey(t, n)
    IN  GetTokenBalance(t, n, s) > 0 =>
            s[k].meta.attrs = AttrsOf[t][n] \/ (k \in DOMAIN z /\ z[k] # NoToken)

CentralInv(m) == SystemAccount \in DOMAIN m => Unowned(m[SystemAccount])

AttrsInv(m) ==
    \A t \in Token, n \in Nonce :
        /\ CentralSays(t, n, SysOf(m))
        /\ \A a \in DOMAIN m : HolderSays(t, n, m[a].Storage, SysOf(m))

LedgerInv == IInv /\ found = FoundData /\ CentralInv(AcctMap) /\ AttrsInv(AcctMap)

\* The storage of the system account.
LEMMA SysOfType ==
    ASSUME NEW m \in AccountMaps, CentralInv(m)
    PROVE  SysOf(m) \in Storage0 /\ OnlyMetaData(SysOf(m))
<1>1. CASE SystemAccount \in DOMAIN m
  <2>1. m[SystemAccount] \in Accounts
    BY <1>1, AccountMapIs
  <2> QED BY <1>1, <2>1 DEF SysOf, Accounts, CentralInv, Unowned
<1>2. CASE SystemAccount \notin DOMAIN m
  <2>1. SysOf(m) = NoStorage /\ DOMAIN NoStorage = {}
    BY <1>2, NoStorageType DEF SysOf
  <2> QED BY <2>1, NoStorageType DEF Storage0, OnlyMetaData
<1> QED BY <1>1, <1>2

\* What is read of an instance that is held.
LEMMA ReadIs ==
    ASSUME NEW s \in Storage0, NEW z \in Storage0, NEW t \in Token, NEW n \in Nonce, GetTokenBalance(t, n, s) > 0
    PROVE  LET k == makeTokenKey(t, n)
           IN  /\ k \in DOMAIN s /\ s[k] # NoToken /\ GetTokenData(t, n, s, z).value = GetTokenBalance(t, n, s)
               /\ GetTokenData(t, n, s, z).meta =
                    IF k \in DOMAIN z /\ z[k] # NoToken THEN z[k].meta ELSE s[k].meta
<1> DEFINE k == makeTokenKey(t, n)
<1>1. k \in DOMAIN s /\ s[k].value = GetTokenBalance(t, n, s)
  BY BalanceType, SpecsAreSound DEF Storage0
<1>2. s[k] # NoToken
  BY <1>1 DEF NoToken, Instance
<1>3. InstanceEntry(SpecAttrs, k, s[k])
  <2>1. k.prefix = "esdt"
    BY KeyTypes
  <2> HIDE DEF k
  <2> QED BY <1>1, <2>1, EntryOfKey DEF Storage0
<1> HIDE DEF k
<1>4. \A x : [s[k] EXCEPT !.meta = x].meta = x /\ [s[k] EXCEPT !.meta = x].value = s[k].value
  BY <1>3 DEF InstanceEntry, TokenData
<1>5. GetTokenData(t, n, s, z) = IF k \in DOMAIN z /\ z[k] # NoToken THEN [s[k] EXCEPT !.meta = z[k].meta] ELSE s[k]
  BY <1>1, <1>2 DEF GetTokenData, getTokenDataByKey, k
<1>6. CASE k \in DOMAIN z /\ z[k] # NoToken
  <2>1. GetTokenData(t, n, s, z).meta = z[k].meta /\ GetTokenData(t, n, s, z).value = s[k].value
    BY <1>4, <1>5, <1>6
  <2> QED BY <1>1, <1>2, <1>6, <2>1 DEF k
<1>7. CASE ~(k \in DOMAIN z /\ z[k] # NoToken)
  <2>1. GetTokenData(t, n, s, z) = s[k]
    BY <1>5, <1>7
  <2> QED BY <1>1, <1>2, <1>7, <2>1 DEF k
<1> QED BY <1>6, <1>7

\* The invariant gives the metadata that are read.
LEMMA AttrsAreRead ==
    ASSUME NEW s \in Storage0, NEW z \in Storage0, NEW t \in Token, NEW n \in Nonce,
           GetTokenBalance(t, n, s) > 0, CentralSays(t, n, z), HolderSays(t, n, s, z)
    PROVE  GetTokenData(t, n, s, z).meta.attrs = AttrsOf[t][n]
<1> DEFINE k == makeTokenKey(t, n)
<1>1. GetTokenData(t, n, s, z).meta = IF k \in DOMAIN z /\ z[k] # NoToken THEN z[k].meta ELSE s[k].meta
  BY ReadIs
<1>2. k \in DOMAIN z => z[k].meta.attrs = AttrsOf[t][n]
  BY DEF CentralSays
<1>3. s[k].meta.attrs = AttrsOf[t][n] \/ (k \in DOMAIN z /\ z[k] # NoToken)
  BY DEF HolderSays
<1> HIDE DEF k
<1> QED BY <1>1, <1>2, <1>3

\* Storages that are the same under a key say the same.
LEMMA SaysTheSame ==
    ASSUME NEW s \in Storage0, NEW t \in Token, NEW n \in Nonce, NEW r, NEW z, NEW y, SameAt(makeTokenKey(t, n), s, r),
           SameAt(makeTokenKey(t, n), z, y), HolderSays(t, n, s, z)
    PROVE  HolderSays(t, n, r, y)
<1> DEFINE k == makeTokenKey(t, n)
<1>1. GetTokenBalance(t, n, r) = GetTokenBalance(t, n, s)
  BY SameBalance
<1>2. SameAt(k, s, r) /\ SameAt(k, z, y)
  OBVIOUS
<1>4. GetTokenBalance(t, n, s) > 0 => k \in DOMAIN s
  BY BalanceType, SpecsAreSound DEF Storage0
<1>3. GetTokenBalance(t, n, s) > 0 => s[k].meta.attrs = AttrsOf[t][n] \/ (k \in DOMAIN z /\ z[k] # NoToken)
  BY DEF HolderSays
<1> SUFFICES GetTokenBalance(t, n, r) > 0 => r[k].meta.attrs = AttrsOf[t][n] \/ (k \in DOMAIN y /\ y[k] # NoToken)
  BY DEF HolderSays
<1> HIDE DEF k
<1> QED BY <1>1, <1>2, <1>3, <1>4 DEF SameAt

\* What a scenario sets says what it has to.
LEMMA SetSays ==
    ASSUME KeysComeApart, NEW spec \in AccountSpec, NEW t \in Token, NEW n \in Nonce, NEW z
    PROVE  HolderSays(t, n, convertAccount(spec).Storage, z)
<1> DEFINE k == makeTokenKey(t, n)
           s == convertAccount(spec).Storage
           data == spec.esdt
           I == Mentions(data, t, n)
           d == data[Max(I)]
           J == Listings(d, n)
           i == LastListed(d, n)
<1>1. KeysComeApart /\ IsSpecOf(spec, SpecAttrs, SpecRoles) /\ s \in Storage0
      /\ \A x \in Range(data) : \A y \in Range(x.instances) : y.attrs = AttrsOf[x.token][y.nonce]
  BY SpecsAreSound, ConvertedStorage, AttrsAssumption DEF Storage0
<1>2. /\ I = {} => k \notin DOMAIN s
      /\ I # {} => k \in DOMAIN s /\ s[k] = Units(i)
  BY <1>1, ConvertedInstances
<1>3. GetTokenBalance(t, n, s) > 0 => k \in DOMAIN s
  BY <1>1, SpecsAreSound, BalanceType DEF Storage0
<1>4. ASSUME I # {} PROVE i.attrs = AttrsOf[t][n]
  <2>1. Len(data) \in Nat /\ I \in SUBSET (1..Len(data)) /\ IsESDT(data, SpecAttrs, SpecRoles)
    BY <1>1, LenProperties DEF IsSpecOf, IsESDT, Mentions
  <2>2. Max(I) \in 1..Len(data) /\ Max(I) \in I
    BY <1>4, <2>1, MaxIsIn
  <2>3. d \in Range(data) /\ d.token = t /\ J # {} /\ IsMockESDTData(d, SpecAttrs, SpecRoles)
    BY <2>1, <2>2, ElementOfSeq DEF IsESDT, Mentions
  <2> HIDE DEF d, I
  <2>4. Len(d.instances) \in Nat /\ J \in SUBSET (1..Len(d.instances)) /\ d.instances \in Seq(Range(d.instances))
    BY <2>3, LenProperties DEF IsMockESDTData, Listings
  <2>5. Max(J) \in 1..Len(d.instances) /\ Max(J) \in J
    BY <2>3, <2>4, MaxIsIn
  <2>6. i \in Range(d.instances) /\ i.nonce = n
    BY <2>4, <2>5, ElementOfSeq DEF Listings, LastListed
  <2> HIDE DEF i, J
  <2> QED BY <1>1, <2>3, <2>6
<1>5. Units(i).meta.attrs = i.attrs
  BY DEF Units, Instance, MetaData
<1> HIDE DEF s, I, i, k
<1>6. GetTokenBalance(t, n, s) > 0 => s[k].meta.attrs = AttrsOf[t][n]
  BY <1>2, <1>3, <1>4, <1>5
<1> QED BY <1>6 DEF HolderSays, k, s

----------------------------------------------------------------------------
(* Setting accounts and amounts *)

\* Writing v under the key k of an account, and an amount in the ledger.
Stored(m, a, k, v) == [m EXCEPT ![a] = WithEntry(@, k, v)]
Rebalanced(m, a, t, n, v) == [m EXCEPT ![a].Storage = SetTokenBalance(t, n, v, @)]
Booked(accounts, a, t, n, x) == [accounts EXCEPT ![a] = WithAmount(@, t, n, x)]

\* What writing to a key of one account does.
LEMMA StoredIs ==
    ASSUME NEW m \in AccountMaps, NEW a \in DOMAIN m, NEW k, NEW v
    PROVE  /\ DOMAIN Stored(m, a, k, v) = DOMAIN m
           /\ \A x \in DOMAIN m : x # a => Stored(m, a, k, v)[x] = m[x]
           /\ Stored(m, a, k, v)[a] = WithEntry(m[a], k, v)
           /\ Stored(m, a, k, v)[a].Storage = Put(m[a].Storage, k, v)
<1>1. m[a] \in Accounts /\ m = [x \in DOMAIN m |-> m[x]]
  BY AccountMapIs
<1>2. Stored(m, a, k, v)[a] = WithEntry(m[a], k, v)
  BY <1>1 DEF Stored
<1>3. WithEntry(m[a], k, v).Storage = Put(m[a].Storage, k, v)
  BY <1>1 DEF WithEntry, Accounts
<1> QED BY <1>1, <1>2, <1>3 DEF Stored

\* Writing to an instance of one account leaves an account map.
LEMMA StoredType ==
    ASSUME KeysComeApart, NEW m \in AccountMaps, NEW a \in DOMAIN m, NEW t \in Token, NEW n \in Nonce,
           NEW v, InstanceEntry(SpecAttrs, makeTokenKey(t, n), v)
    PROVE  Stored(m, a, makeTokenKey(t, n), v) \in AccountMaps
<1> DEFINE c == m[a]
           k == makeTokenKey(t, n)
           y == Stored(m, a, k, v)
<1>1. c \in Accounts
  BY AccountMapIs
<1>2. WithEntry(c, k, v) \in Accounts
  <2> HIDE DEF c
  <2> QED BY <1>1, PutView
<1>3. y = [x \in DOMAIN y |-> y[x]]
  BY DEF Stored
<1>4. DOMAIN y = DOMAIN m /\ \A x \in DOMAIN m : y[x] = IF x = a THEN WithEntry(c, k, v) ELSE m[x]
  BY StoredIs
<1> HIDE DEF c, k, y
<1>5. DOMAIN y \in SUBSET Addresses /\ \A x \in DOMAIN y : y[x] \in Accounts
  BY <1>2, <1>4, AccountMapIs
<1>6. y \in AccountMaps
  BY <1>3, <1>5, AccountMapIs
<1> QED BY <1>6 DEF y, k

\* In the ledger it changes the amount.
LEMMA StoredView ==
    ASSUME KeysComeApart, NEW m \in AccountMaps, NEW a \in DOMAIN m, NEW t \in Token, NEW n \in Nonce,
           NEW v, InstanceEntry(SpecAttrs, makeTokenKey(t, n), v)
    PROVE  MapView(Stored(m, a, makeTokenKey(t, n), v)) = Booked(MapView(m), a, t, n, v.value)
<1> DEFINE c == m[a]
           k == makeTokenKey(t, n)
           y == Stored(m, a, k, v)
           w == WithAmount(AcctView(c), t, n, v.value)
<1>1. c \in Accounts
  BY AccountMapIs
<1>2. AcctView(WithEntry(c, k, v)) = w
  <2> HIDE DEF c
  <2> QED BY <1>1, PutView
<1>3. DOMAIN y = DOMAIN m /\ \A x \in DOMAIN m : y[x] = IF x = a THEN WithEntry(c, k, v) ELSE m[x]
  BY StoredIs
<1>4. Booked(MapView(m), a, t, n, v.value) = [x \in DOMAIN m |-> IF x = a THEN w ELSE AcctView(m[x])]
  BY DEF MapView, Booked
<1> HIDE DEF c, k, y, w
<1>5. MapView(y) = [x \in DOMAIN m |-> IF x = a THEN w ELSE AcctView(m[x])]
  BY <1>2, <1>3 DEF MapView
<1> QED BY <1>4, <1>5 DEF y, k

\* The account a is set.
WithAccount(m, a, acct) == [x \in DOMAIN m \union {a} |-> IF x = a THEN acct ELSE m[x]]

\* Setting an account.
LEMMA SetStateInLedger ==
    ASSUME KeysComeApart, NEW m \in AccountMaps, CentralInv(m), AttrsInv(m),
           NEW a \in Holder, NEW spec \in AccountSpec, NEW y,
           y = WithAccount(m, a, convertAccount(spec))
    PROVE  /\ CentralInv(y) /\ AttrsInv(y)
           /\ MapView(y) = WithAccount(MapView(m), a, Ledger!Holdings(spec))
<1>1. a # SystemAccount
  BY CheckAssumption
<1>2. /\ SystemAccount \in DOMAIN y <=> SystemAccount \in DOMAIN m
      /\ SystemAccount \in DOMAIN m => y[SystemAccount] = m[SystemAccount]
  BY <1>1 DEF WithAccount
<1>3. CentralInv(y) /\ SysOf(y) = SysOf(m)
  BY <1>2 DEF CentralInv, SysOf
<1>4. AttrsInv(y)
  <2> SUFFICES ASSUME NEW t \in Token, NEW n \in Nonce
               PROVE  /\ CentralSays(t, n, SysOf(y))
                      /\ \A x \in DOMAIN y : HolderSays(t, n, y[x].Storage, SysOf(y))
    BY DEF AttrsInv
  <2>1. CentralSays(t, n, SysOf(m)) /\ \A x \in DOMAIN m : HolderSays(t, n, m[x].Storage, SysOf(m))
    BY DEF AttrsInv
  <2>2. HolderSays(t, n, convertAccount(spec).Storage, SysOf(m))
    BY SetSays
  <2>3. DOMAIN y = DOMAIN m \union {a} /\ \A x \in DOMAIN y : y[x] = IF x = a THEN convertAccount(spec) ELSE m[x]
    BY DEF WithAccount
  <2> QED BY <1>3, <2>1, <2>2, <2>3
<1>5. AcctView(convertAccount(spec)) = Ledger!Holdings(spec)
  BY ConvertedView
<1>6. MapView(y) = [x \in DOMAIN m \union {a} |-> IF x = a THEN Ledger!Holdings(spec) ELSE AcctView(m[x])]
  BY <1>5 DEF MapView, WithAccount
<1>7. DOMAIN MapView(m) = DOMAIN m /\ \A x \in DOMAIN m : MapView(m)[x] = AcctView(m[x])
  BY DEF MapView
<1> QED BY <1>3, <1>4, <1>6, <1>7 DEF WithAccount

\* Changing the amount of an instance that is held.
LEMMA SetBalanceInLedger ==
    ASSUME KeysComeApart, NEW m \in AccountMaps, CentralInv(m), AttrsInv(m), NEW a \in DOMAIN m, a # SystemAccount,
           NEW t \in Token, NEW n \in Nonce, NEW v \in Amount, GetTokenBalance(t, n, m[a].Storage) > 0,
           NEW y, y = Rebalanced(m, a, t, n, v)
    PROVE  /\ CentralInv(y) /\ AttrsInv(y)
           /\ MapView(y) = Booked(MapView(m), a, t, n, v)
<1> DEFINE s == m[a].Storage
           k == makeTokenKey(t, n)
           old == getTokenDataByKey(k, s, NoStorage)
           w == [old EXCEPT !.value = v]
           r == Put(s, k, w)
<1>1. s \in Storage0 /\ NoAttrs \in SpecAttrs /\ v \in Nat /\ KeysComeApart
  BY AccountMapIs, SpecsAreSound, AmountAssumption DEF Accounts
<1>2. InstanceEntry(SpecAttrs, k, old) /\ k.prefix = "esdt"
  BY <1>1, NoStorageType, GetTokenDataType, KeyTypes DEF Storage0
<1>3. k \in DOMAIN s /\ old.meta = s[k].meta
  <2>1. k \in DOMAIN s /\ GetTokenData(t, n, s, NoStorage).meta = s[k].meta
    BY <1>1, ReadIs, NoStorageType DEF Storage0
  <2> QED BY <2>1 DEF GetTokenData
<1> HIDE DEF old
<1>4. w \in TokenData(SpecAttrs) /\ w.meta = old.meta /\ w.value = v
  BY <1>1, <1>2 DEF InstanceEntry, TokenData
<1> HIDE DEF w
<1>5. InstanceEntry(SpecAttrs, k, w)
  BY <1>2, <1>4 DEF InstanceEntry
<1>6. y = Stored(m, a, k, w)
  BY DEF Rebalanced, SetTokenBalance, old, w, Stored, WithEntry
<1>7. /\ y \in AccountMaps /\ DOMAIN y = DOMAIN m
      /\ MapView(y) = Booked(MapView(m), a, t, n, v)
      /\ y[a].Storage = r /\ \A x \in DOMAIN m : x # a => y[x] = m[x]
  <2>1. y = Stored(m, a, makeTokenKey(t, n), w) /\ InstanceEntry(SpecAttrs, makeTokenKey(t, n), w)
    BY <1>5, <1>6
  <2>2. Stored(m, a, makeTokenKey(t, n), w) \in AccountMaps
    BY <1>1, <2>1, StoredType
  <2>3. MapView(Stored(m, a, makeTokenKey(t, n), w)) = Booked(MapView(m), a, t, n, w.value)
    BY <1>1, <2>1, StoredView
  <2>4. DOMAIN y = DOMAIN m /\ (\A x \in DOMAIN m : x # a => y[x] = m[x]) /\ y[a].Storage = r
    BY <1>6, StoredIs
  <2> HIDE DEF w, k, r
  <2> QED BY <1>4, <2>1, <2>2, <2>3, <2>4
<1>8. \A x \in DOMAIN m : x # a => y[x] = m[x]
  BY <1>7
<1>9. y[a].Storage = r
  BY <1>7
<1>10. CentralInv(y) /\ SysOf(y) = SysOf(m)
  BY <1>7, <1>8 DEF CentralInv, SysOf
<1>11. AttrsInv(y)
  <2> SUFFICES ASSUME NEW u \in Token, NEW i \in Nonce
               PROVE  /\ CentralSays(u, i, SysOf(y))
                      /\ \A x \in DOMAIN y : HolderSays(u, i, y[x].Storage, SysOf(y))
    BY DEF AttrsInv
  <2> DEFINE z == SysOf(m)
  <2>1. CentralSays(u, i, z) /\ \A x \in DOMAIN m : HolderSays(u, i, m[x].Storage, z)
    BY DEF AttrsInv
  <2> HIDE DEF z
  <2>2. HolderSays(u, i, r, z)
    <3>1. CASE u = t /\ i = n
      <4>1. GetTokenBalance(t, n, s) > 0 => s[k].meta.attrs = AttrsOf[t][n] \/ (k \in DOMAIN z /\ z[k] # NoToken)
        BY <2>1, <3>1 DEF HolderSays
      <4>2. r[k].meta = s[k].meta
        BY <1>3, <1>4 DEF Put
      <4> HIDE DEF r, s, k
      <4> QED BY <3>1, <4>1, <4>2 DEF HolderSays, k, s
    <3>2. CASE ~(u = t /\ i = n)
      <4>1. makeTokenKey(u, i) # k
        BY <1>1, <3>2, KeysDiffer
      <4> HIDE DEF k
      <4>2. SameAt(makeTokenKey(u, i), s, r)
        BY <4>1, PutElsewhere
      <4>3. SameAt(makeTokenKey(u, i), z, z)
        BY DEF SameAt
      <4>4. HolderSays(u, i, s, z)
        BY <2>1
      <4> HIDE DEF r, s
      <4> QED BY <1>1, <4>2, <4>3, <4>4, SaysTheSame
    <3> QED BY <3>1, <3>2
  <2>3. \A x \in DOMAIN y : HolderSays(u, i, y[x].Storage, z)
    BY <1>7, <1>8, <1>9, <2>1, <2>2
  <2> QED BY <1>10, <2>1, <2>3 DEF z
<1> QED BY <1>7, <1>10, <1>11

----------------------------------------------------------------------------
(* Transfers *)

\* Transfer, of any account map m.
Sent(m, from, t, n) == GetTokenData(t, n, m[from].Storage, SysOf(m))
Got(m, to, t, n) == GetTokenBalance(t, n, m[to].Storage)
Remainder(m, from, t, n, v) ==
    IF Sent(m, from, t, n).value = v THEN NoToken ELSE Instance(Sent(m, from, t, n).value - v, NoMetaData)
Increased(m, to, t, n, v) == Instance(Got(m, to, t, n) + v, NoMetaData)
AfterMove(m, from, to, t, n, v) ==
    Stored(Stored(m, from, makeTokenKey(t, n), Remainder(m, from, t, n, v)),
           to, makeTokenKey(t, n), Increased(m, to, t, n, v))

MetaDataSent(m, from, t, n) == Instance(0, Sent(m, from, t, n).meta)
CentralStorage(m, from, t, n) == Put(SysOf(m), makeTokenKey(t, n), MetaDataSent(m, from, t, n))
Central(m, from, t, n) == [NewAccount EXCEPT !.Storage = CentralStorage(m, from, t, n)]

AfterTransfer(m, from, to, t, n, v) ==
    IF n = 0 THEN AfterMove(m, from, to, t, n, v)
    ELSE [a \in DOMAIN m \union {SystemAccount} |->
            IF a = SystemAccount THEN Central(m, from, t, n) ELSE AfterMove(m, from, to, t, n, v)[a]]

CanTransfer(m, from, to, t, n, v) ==
    /\ m \in AccountMaps /\ CentralInv(m) /\ AttrsInv(m)
    /\ from \in DOMAIN m \ {SystemAccount} /\ to \in DOMAIN m \ {SystemAccount} /\ from # to
    /\ t \in Token /\ n \in Nonce
    /\ v \in Nat /\ v > 0 /\ v <= Sent(m, from, t, n).value

\* What the sender has.
LEMMA SentIs ==
    ASSUME NEW m, NEW from, NEW to, NEW t, NEW n, NEW v, CanTransfer(m, from, to, t, n, v)
    PROVE  LET sent == Sent(m, from, t, n)
               s == m[from].Storage
               z == SysOf(m)
               k == makeTokenKey(t, n)
           IN  /\ s \in Storage0 /\ z \in Storage0 /\ OnlyMetaData(z)
               /\ InstanceEntry(SpecAttrs, k, sent)
               /\ sent.value \in Nat /\ sent.value > 0 /\ sent.value = GetTokenBalance(t, n, s)
               /\ sent.meta = IF k \in DOMAIN z /\ z[k] # NoToken THEN z[k].meta ELSE s[k].meta
               /\ sent.meta.attrs = AttrsOf[t][n]
<1> DEFINE sent == Sent(m, from, t, n)
           s == m[from].Storage
           z == SysOf(m)
           k == makeTokenKey(t, n)
<1>1. /\ m \in AccountMaps /\ CentralInv(m) /\ AttrsInv(m) /\ from \in DOMAIN m
      /\ t \in Token /\ n \in Nonce /\ v \in Nat /\ v > 0 /\ v <= sent.value
  BY DEF CanTransfer
<1>2. s \in Storage0 /\ z \in Storage0 /\ OnlyMetaData(z)
  BY <1>1, AccountMapIs, SysOfType DEF Accounts
<1>3. sent = getTokenDataByKey(k, s, z) /\ sent = GetTokenData(t, n, s, z)
  BY DEF Sent, GetTokenData
<1>4. CentralSays(t, n, z) /\ HolderSays(t, n, s, z)
  BY <1>1 DEF AttrsInv
<1> HIDE DEF sent, s, z
<1>5. InstanceEntry(SpecAttrs, k, sent)
  BY <1>1, <1>2, <1>3, GetTokenDataType, SpecsAreSound DEF Storage0
<1>6. sent.value = GetTokenBalance(t, n, s)
  BY <1>3, BalanceOfData DEF GetTokenBalance, GetTokenData
<1>7. sent.value \in Nat
  <2>1. GetTokenBalance(t, n, s) \in Nat
    BY <1>1, <1>2, BalanceType, SpecsAreSound DEF Storage0
  <2> QED BY <1>6, <2>1
<1>8. sent.value > 0
  BY <1>1, <1>7
<1>9. sent.meta = IF k \in DOMAIN z /\ z[k] # NoToken THEN z[k].meta ELSE s[k].meta
  BY <1>1, <1>2, <1>3, <1>6, <1>8, ReadIs
<1>10. sent.meta.attrs = AttrsOf[t][n]
  BY <1>1, <1>2, <1>3, <1>4, <1>6, <1>8, AttrsAreRead
<1> HIDE DEF k
<1> QED BY <1>2, <1>5, <1>6, <1>7, <1>8, <1>9, <1>10 DEF sent, s, z, k

\* What the two have afterwards, and the system account.
LEMMA MovedEntries ==
    ASSUME NEW m, NEW from, NEW to, NEW t, NEW n, NEW v, CanTransfer(m, from, to, t, n, v)
    PROVE  LET k == makeTokenKey(t, n)
               left == Remainder(m, from, t, n, v)
               more == Increased(m, to, t, n, v)
               central == MetaDataSent(m, from, t, n)
           IN  /\ InstanceEntry(SpecAttrs, k, left) /\ InstanceEntry(SpecAttrs, k, more)
               /\ InstanceEntry(SpecAttrs, k, central)
               /\ left.value = Sent(m, from, t, n).value - v /\ more.value = Got(m, to, t, n) + v
               /\ left.meta = NoMetaData /\ more.meta = NoMetaData
               /\ central.value = 0 /\ central.meta = Sent(m, from, t, n).meta
<1> DEFINE k == makeTokenKey(t, n)
           sent == Sent(m, from, t, n)
           got == Got(m, to, t, n)
           left == Remainder(m, from, t, n, v)
           more == Increased(m, to, t, n, v)
           central == MetaDataSent(m, from, t, n)
<1>1. m \in AccountMaps /\ to \in DOMAIN m /\ t \in Token /\ n \in Nonce /\ v \in Nat /\ v <= sent.value
  BY DEF CanTransfer
<1>2. InstanceEntry(SpecAttrs, k, sent) /\ sent.value \in Nat
  BY SentIs
<1>3. got \in Nat
  <2>1. m[to].Storage \in Storage0
    BY <1>1, AccountMapIs DEF Accounts
  <2> QED BY <1>1, <2>1, BalanceType, SpecsAreSound DEF Got, Storage0
<1>4. \A x : Instance(x, NoMetaData).value = x /\ Instance(x, NoMetaData).meta = NoMetaData
  BY DEF Instance
<1>5. \A x \in Nat : InstanceEntry(SpecAttrs, k, Instance(x, NoMetaData))
  BY <1>1, PlainEntry, SpecsAreSound
<1>6. NoToken = Instance(0, NoMetaData)
  BY DEF NoToken
<1>7. /\ left = IF sent.value = v THEN NoToken ELSE Instance(sent.value - v, NoMetaData)
      /\ more = Instance(got + v, NoMetaData)
      /\ central = Instance(0, sent.meta)
  BY DEF Remainder, Increased, MetaDataSent
<1> HIDE DEF k, sent, got, left, more, central
<1>8. left = Instance(sent.value - v, NoMetaData)
  <2>1. CASE sent.value = v
    <3>1. sent.value - v = 0
      BY <1>2, <2>1
    <3> QED BY <1>6, <1>7, <2>1, <3>1
  <2>2. CASE sent.value # v
    BY <1>7, <2>2
  <2> QED BY <2>1, <2>2
<1>9. sent.value - v \in Nat /\ got + v \in Nat
  BY <1>1, <1>2, <1>3
<1>10. InstanceEntry(SpecAttrs, k, left) /\ InstanceEntry(SpecAttrs, k, more)
  BY <1>5, <1>7, <1>8, <1>9
<1>11. central.value = 0 /\ central.meta = sent.meta
  BY <1>7 DEF Instance
<1>12. InstanceEntry(SpecAttrs, k, central)
  <2>1. central \in TokenData(SpecAttrs)
    BY <1>2, <1>7 DEF InstanceEntry, TokenData, Instance
  <2> QED BY <1>2, <1>11, <2>1 DEF InstanceEntry
<1> QED BY <1>4, <1>7, <1>8, <1>10, <1>11, <1>12 DEF k, sent, got, left, more, central

\* The two accounts afterwards.
LEMMA MoveIs ==
    ASSUME KeysComeApart, NEW m, NEW from, NEW to, NEW t, NEW n, NEW v, CanTransfer(m, from, to, t, n, v)
    PROVE  LET y == AfterMove(m, from, to, t, n, v)
               k == makeTokenKey(t, n)
           IN  /\ y \in AccountMaps /\ DOMAIN y = DOMAIN m
               /\ \A x \in DOMAIN m : x # from /\ x # to => y[x] = m[x]
               /\ y[from].Storage = Put(m[from].Storage, k, Remainder(m, from, t, n, v))
               /\ y[to].Storage = Put(m[to].Storage, k, Increased(m, to, t, n, v))
               /\ MapView(y) = Booked(Booked(MapView(m), from, t, n, Sent(m, from, t, n).value - v),
                                      to, t, n, Got(m, to, t, n) + v)
<1> DEFINE k == makeTokenKey(t, n)
           left == Remainder(m, from, t, n, v)
           more == Increased(m, to, t, n, v)
           m1 == Stored(m, from, k, left)
           y == Stored(m1, to, k, more)
<1>1. m \in AccountMaps /\ from \in DOMAIN m /\ to \in DOMAIN m /\ from # to /\ t \in Token /\ n \in Nonce
  BY DEF CanTransfer
<1>2. InstanceEntry(SpecAttrs, k, left) /\ InstanceEntry(SpecAttrs, k, more)
      /\ left.value = Sent(m, from, t, n).value - v /\ more.value = Got(m, to, t, n) + v
  BY MovedEntries
<1>3. AfterMove(m, from, to, t, n, v) = y
  BY DEF AfterMove
<1> HIDE DEF left, more
<1>4. m1 \in AccountMaps
  BY <1>1, <1>2, StoredType
<1>5. /\ DOMAIN m1 = DOMAIN m /\ \A x \in DOMAIN m : x # from => m1[x] = m[x]
      /\ m1[from].Storage = Put(m[from].Storage, k, left)
  BY <1>1, StoredIs
<1>6. MapView(m1) = Booked(MapView(m), from, t, n, left.value)
  BY <1>1, <1>2, StoredView
<1> HIDE DEF m1
<1>7. y \in AccountMaps
  BY <1>1, <1>2, <1>4, <1>5, StoredType
<1>8. /\ DOMAIN y = DOMAIN m1 /\ \A x \in DOMAIN m1 : x # to => y[x] = m1[x]
      /\ y[to].Storage = Put(m1[to].Storage, k, more)
  BY <1>1, <1>4, <1>5, StoredIs
<1>9. MapView(y) = Booked(MapView(m1), to, t, n, more.value)
  BY <1>1, <1>2, <1>4, <1>5, StoredView
<1> HIDE DEF y, k
<1>10. /\ y[from].Storage = Put(m[from].Storage, k, left)
       /\ y[to].Storage = Put(m[to].Storage, k, more)
  BY <1>1, <1>5, <1>8
<1>11. DOMAIN y = DOMAIN m /\ \A x \in DOMAIN m : x # from /\ x # to => y[x] = m[x]
  BY <1>5, <1>8
<1>12. MapView(y) = Booked(Booked(MapView(m), from, t, n, Sent(m, from, t, n).value - v),
                           to, t, n, Got(m, to, t, n) + v)
  BY <1>2, <1>6, <1>9
<1> QED BY <1>3, <1>7, <1>10, <1>11, <1>12 DEF left, more, k

----------------------------------------------------------------------------
(* The system account after a transfer *)

\* What an account is that nobody has set.
Bare == Ledger!Holdings([balance |-> 0, owner |-> NoOwner, entries |-> [k \in {} |-> Empty], esdt |-> <<>>])

\* In a storage of metadata nothing is held.
LEMMA NothingHeld ==
    ASSUME NEW s, OnlyMetaData(s), NEW t, NEW n
    PROVE  GetTokenBalance(t, n, s) = 0
<1>1. DOMAIN NoStorage = {} /\ NoToken.value = 0
  BY DEF NoStorage, NoToken, Instance
<1> DEFINE k == makeTokenKey(t, n)
<1>2. k \in DOMAIN s => s[k].value = 0
  BY DEF OnlyMetaData
<1>3. getTokenDataByKey(k, s, NoStorage) = IF k \notin DOMAIN s \/ s[k] = NoToken THEN NoToken ELSE s[k]
  BY <1>1 DEF getTokenDataByKey
<1>4. GetTokenBalance(t, n, s) = getTokenDataByKey(k, s, NoStorage).value
  BY DEF GetTokenBalance, GetTokenData
<1> HIDE DEF k
<1> QED BY <1>1, <1>2, <1>3, <1>4

\* To the ledger, an account that has only metadata is one that nobody has set.
LEMMA BareView ==
    ASSUME NEW acct, Unowned(acct)
    PROVE  AcctView(acct) = Bare
<1> DEFINE s == acct.Storage
           new == [balance |-> 0, owner |-> NoOwner, entries |-> [k \in {} |-> Empty], esdt |-> <<>>]
<1>1. acct.balance = 0 /\ acct.owner = NoOwner /\ OnlyMetaData(s)
  BY DEF Unowned
<1> HIDE DEF s
<1>2. EntriesOf(s) = [k \in EntryKey |-> Empty]
  <2>1. \A k : Plain(k).prefix = "plain"
    BY DEF Plain, Key
  <2>2. \A k : Plain(k) \notin DOMAIN s
    BY <1>1, <2>1 DEF OnlyMetaData
  <2> QED BY <2>2 DEF EntriesOf
<1>3. ASSUME NEW t \in Token PROVE TokenView(t, s) = Ledger!Nothing
  <2>1. Amounts(t, s) = [n \in Nonce |-> 0]
    BY <1>1, NothingHeld DEF Amounts
  <2>2. makeLastNonceKey(t).prefix = "nonce" /\ makeTokenRolesKey(t).prefix = "role"
    BY DEF makeLastNonceKey, makeTokenRolesKey, Key
  <2>3. makeLastNonceKey(t) \notin DOMAIN s /\ makeTokenRolesKey(t) \notin DOMAIN s
    BY <1>1, <2>2 DEF OnlyMetaData
  <2>4. LastNonceOf(t, s) = 0 /\ RolesOf(t, s) = {}
    BY <2>3 DEF LastNonceOf, RolesOf
  <2> QED BY <2>1, <2>4 DEF TokenView, Ledger!Nothing
<1>4. ASSUME NEW t \in Token PROVE Ledger!Holding(<<>>, t) = Ledger!Nothing
  BY DEF Ledger!Holding, Ledger!Says
<1>5. TokensOf(s) = [t \in Token |-> Ledger!Holding(<<>>, t)]
  BY <1>3, <1>4 DEF TokensOf
<1>6. /\ new.balance = 0 /\ new.owner = NoOwner /\ new.esdt = <<>>
      /\ [k \in EntryKey |-> IF k \in DOMAIN new.entries THEN new.entries[k] ELSE Empty] = [k \in EntryKey |-> Empty]
  OBVIOUS
<1> HIDE DEF new
<1>7. Ledger!Holdings(new) = [balance |-> 0, owner |-> NoOwner, entries |-> [k \in EntryKey |-> Empty],
                              tokens |-> [t \in Token |-> Ledger!Holding(<<>>, t)]]
  BY <1>6 DEF Ledger!Holdings
<1>8. AcctView(acct) = [balance |-> 0, owner |-> NoOwner, entries |-> [k \in EntryKey |-> Empty],
                        tokens |-> [t \in Token |-> Ledger!Holding(<<>>, t)]]
  BY <1>1, <1>2, <1>5 DEF AcctView, s
<1> QED BY <1>7, <1>8 DEF Bare, new

\* y are the accounts of mid, but for the system account, in which the storage is central
\* if the instance has a nonce.
IsTransferred(y, m, mid, central, n) ==
    /\ DOMAIN y = DOMAIN m \union (IF n = 0 THEN {} ELSE {SystemAccount})
    /\ \A x \in DOMAIN m : x # SystemAccount => y[x] = mid[x]
    /\ CentralInv(y)
    /\ SysOf(y) = IF n = 0 THEN SysOf(m) ELSE central
    /\ OnlyMetaData(SysOf(y))

\* The accounts after a transfer.
LEMMA AfterTransferIs ==
    ASSUME KeysComeApart, NEW m, NEW from, NEW to, NEW t, NEW n, NEW v, CanTransfer(m, from, to, t, n, v)
    PROVE  IsTransferred(AfterTransfer(m, from, to, t, n, v), m, AfterMove(m, from, to, t, n, v),
                         CentralStorage(m, from, t, n), n)
<1> DEFINE y == AfterTransfer(m, from, to, t, n, v)
           mid == AfterMove(m, from, to, t, n, v)
           z == SysOf(m)
           central == Central(m, from, t, n)
<1>1. CentralInv(m) /\ from # SystemAccount /\ to # SystemAccount /\ m \in AccountMaps
  BY DEF CanTransfer
<1>2. DOMAIN mid = DOMAIN m /\ \A x \in DOMAIN m : x # from /\ x # to => mid[x] = m[x]
  BY MoveIs
<1>3. OnlyMetaData(z)
  BY SentIs
<1>4. y = IF n = 0 THEN mid
          ELSE [a \in DOMAIN m \union {SystemAccount} |-> IF a = SystemAccount THEN central ELSE mid[a]]
  BY DEF AfterTransfer
<1>5. Unowned(central) /\ central.Storage = CentralStorage(m, from, t, n)
      /\ OnlyMetaData(CentralStorage(m, from, t, n))
  <2> DEFINE k == makeTokenKey(t, n)
             e == MetaDataSent(m, from, t, n)
  <2>1. e.value = 0
    BY MovedEntries
  <2>2. k.prefix = "esdt"
    BY DEF makeTokenKey, Key
  <2> HIDE DEF k, e, z
  <2>3. OnlyMetaData(Put(z, k, e))
    BY <1>3, <2>1, <2>2 DEF OnlyMetaData, Put
  <2>4. CentralStorage(m, from, t, n) = Put(z, k, e)
    BY DEF CentralStorage, z, k, e
  <2>5. /\ central.balance = 0 /\ central.owner = NoOwner
        /\ central.Storage = CentralStorage(m, from, t, n)
    BY DEF Central, NewAccount
  <2> QED BY <2>3, <2>4, <2>5 DEF Unowned
<1> SUFFICES IsTransferred(y, m, mid, CentralStorage(m, from, t, n), n)
  OBVIOUS
<1> HIDE DEF y, mid, central
<1>6. CASE n = 0
  <2>1. y = mid /\ DOMAIN y = DOMAIN m
    BY <1>2, <1>4, <1>6
  <2>2. SystemAccount \in DOMAIN m => y[SystemAccount] = m[SystemAccount]
    BY <1>1, <1>2, <2>1
  <2>3. CentralInv(y) /\ SysOf(y) = SysOf(m)
    BY <1>1, <2>1, <2>2 DEF CentralInv, SysOf
  <2> QED BY <1>3, <1>6, <2>1, <2>3 DEF IsTransferred
<1>7. CASE n # 0
  <2>1. y = [a \in DOMAIN m \union {SystemAccount} |-> IF a = SystemAccount THEN central ELSE mid[a]]
    BY <1>4, <1>7
  <2>2. /\ DOMAIN y = DOMAIN m \union {SystemAccount} /\ y[SystemAccount] = central
        /\ \A x \in DOMAIN m : x # SystemAccount => y[x] = mid[x]
    BY <2>1
  <2>3. CentralInv(y) /\ SysOf(y) = CentralStorage(m, from, t, n)
    BY <1>5, <2>2 DEF CentralInv, SysOf
  <2> QED BY <1>5, <1>7, <2>2, <2>3 DEF IsTransferred
<1> QED BY <1>6, <1>7

\* After a transfer the metadata are still where they are looked for.
LEMMA TransferSays ==
    ASSUME KeysComeApart, NEW m, NEW from, NEW to, NEW t, NEW n, NEW v, CanTransfer(m, from, to, t, n, v)
    PROVE  AttrsInv(AfterTransfer(m, from, to, t, n, v))
<1> DEFINE y == AfterTransfer(m, from, to, t, n, v)
           mid == AfterMove(m, from, to, t, n, v)
           z == SysOf(m)
           q == SysOf(y)
           k == makeTokenKey(t, n)
           sent == Sent(m, from, t, n)
           left == Remainder(m, from, t, n, v)
           more == Increased(m, to, t, n, v)
           central == MetaDataSent(m, from, t, n)
<1>1. KeysComeApart /\ m \in AccountMaps /\ AttrsInv(m) /\ t \in Token /\ n \in Nonce
      /\ from \in DOMAIN m /\ to \in DOMAIN m /\ from # SystemAccount /\ to # SystemAccount /\ from # to
  BY DEF CanTransfer
<1>2. /\ DOMAIN y = DOMAIN m \union (IF n = 0 THEN {} ELSE {SystemAccount})
      /\ \A x \in DOMAIN m : x # SystemAccount => y[x] = mid[x]
      /\ q = IF n = 0 THEN z ELSE Put(z, k, central)
      /\ OnlyMetaData(q)
  <2>1. CentralStorage(m, from, t, n) = Put(z, k, central)
    BY DEF CentralStorage
  <2>2. IsTransferred(y, m, mid, CentralStorage(m, from, t, n), n)
    BY <1>1, AfterTransferIs
  <2> HIDE DEF y, mid, z, q, k, central
  <2> QED BY <2>1, <2>2 DEF IsTransferred, q, z
<1>3. /\ \A x \in DOMAIN m : x # from /\ x # to => mid[x] = m[x]
      /\ mid[from].Storage = Put(m[from].Storage, k, left)
      /\ mid[to].Storage = Put(m[to].Storage, k, more)
  BY <1>1, MoveIs
<1>4. /\ left.meta = NoMetaData /\ more.meta = NoMetaData
      /\ central = Instance(0, sent.meta)
  BY MovedEntries DEF MetaDataSent
<1>5. /\ z \in Storage0 /\ OnlyMetaData(z) /\ sent.meta.attrs = AttrsOf[t][n]
      /\ k \in DOMAIN z /\ z[k] # NoToken => sent.meta = z[k].meta
  BY SentIs
<1>6. \A x \in DOMAIN m : m[x].Storage \in Storage0
  BY <1>1, AccountMapIs DEF Accounts
<1>7. \A u, i : SystemAccount \in DOMAIN y => GetTokenBalance(u, i, y[SystemAccount].Storage) = 0
  <2>1. SystemAccount \in DOMAIN y => y[SystemAccount].Storage = q
    BY DEF SysOf
  <2> QED BY <1>2, <2>1, NothingHeld
<1>8. NoMetaData.attrs = NoAttrs /\ (n = 0 => AttrsOf[t][n] = NoAttrs)
  BY <1>1, AttrsAssumption DEF NoMetaData
<1>9. k \in DOMAIN z => z[k] = Instance(0, z[k].meta)
  <2>1. k.prefix = "esdt"
    BY <1>1, KeyTypes
  <2> HIDE DEF k, z
  <2>2. ASSUME k \in DOMAIN z PROVE z[k] = Instance(0, z[k].meta)
    <3>1. InstanceEntry(SpecAttrs, k, z[k]) /\ z[k].value = 0
      BY <1>5, <2>1, <2>2, EntryOfKey DEF Storage0, OnlyMetaData
    <3> QED BY <3>1 DEF InstanceEntry, TokenData, Instance
  <2> QED BY <2>2
<1>10. \A x : Instance(0, x) = NoToken => x = NoMetaData
  BY DEF Instance, NoToken
<1> HIDE DEF y, mid, z, q, k, sent, left, more, central
\* The instance that was sent.
<1>11. CentralSays(t, n, q)
  <2>1. k \in DOMAIN q => q[k].meta.attrs = AttrsOf[t][n]
    <3>1. CASE n = 0
      <4>1. CentralSays(t, n, z)
        BY <1>1 DEF AttrsInv, z
      <4>2. q = z
        BY <1>2, <3>1
      <4> QED BY <4>1, <4>2 DEF CentralSays, k
    <3>2. CASE n # 0
      <4>1. q[k] = central
        BY <1>2, <3>2 DEF Put
      <4>2. central.meta = sent.meta
        BY <1>4 DEF Instance
      <4> QED BY <1>5, <4>1, <4>2
    <3> QED BY <3>1, <3>2
  <2> QED BY <2>1 DEF CentralSays, k
<1>12. AttrsOf[t][n] = NoAttrs \/ (k \in DOMAIN q /\ q[k] # NoToken)
  <2>1. CASE n = 0
    BY <1>8, <2>1
  <2>2. CASE n # 0
    <3>1. k \in DOMAIN q /\ q[k] = central
      BY <1>2, <2>2 DEF Put
    <3>2. central = NoToken => sent.meta.attrs = NoAttrs
      BY <1>4, <1>8, <1>10
    <3> QED BY <1>5, <3>1, <3>2
  <2> QED BY <2>1, <2>2
<1>13. ASSUME NEW s, NEW w, w.meta = NoMetaData PROVE HolderSays(t, n, Put(s, k, w), q)
  <2> DEFINE r == Put(s, k, w)
  <2>1. r[k] = w
    BY DEF Put
  <2> HIDE DEF r
  <2>2. r[k].meta.attrs = AttrsOf[t][n] \/ (k \in DOMAIN q /\ q[k] # NoToken)
    BY <1>8, <1>12, <1>13, <2>1
  <2>3. HolderSays(t, n, r, q)
    BY <2>2 DEF HolderSays, k
  <2> QED BY <2>3 DEF r
<1>14. ASSUME NEW s, HolderSays(t, n, s, z) PROVE HolderSays(t, n, s, q)
  <2>1. ASSUME k \in DOMAIN z, z[k] # NoToken PROVE k \in DOMAIN q /\ q[k] # NoToken
    <3>1. CASE n = 0
      BY <1>2, <2>1, <3>1
    <3>2. CASE n # 0
      <4>1. k \in DOMAIN q /\ q[k] = central
        BY <1>2, <3>2 DEF Put
      <4>2. central = z[k]
        BY <1>4, <1>5, <1>9, <2>1
      <4> QED BY <2>1, <4>1, <4>2
    <3> QED BY <3>1, <3>2
  <2>2. GetTokenBalance(t, n, s) > 0 => s[k].meta.attrs = AttrsOf[t][n] \/ (k \in DOMAIN z /\ z[k] # NoToken)
    BY <1>14 DEF HolderSays, k
  <2>3. GetTokenBalance(t, n, s) > 0 => s[k].meta.attrs = AttrsOf[t][n] \/ (k \in DOMAIN q /\ q[k] # NoToken)
    BY <2>1, <2>2
  <2> QED BY <2>3 DEF HolderSays, k
\* The others.
<1>15. ASSUME NEW u \in Token, NEW i \in Nonce, ~(u = t /\ i = n)
       PROVE  /\ SameAt(makeTokenKey(u, i), z, q)
              /\ \A s, w : SameAt(makeTokenKey(u, i), s, Put(s, k, w))
  <2>1. makeTokenKey(u, i) # k
    BY <1>1, <1>15, KeysDiffer DEF k
  <2>2. SameAt(makeTokenKey(u, i), z, z)
    BY DEF SameAt
  <2>3. \A s, w : SameAt(makeTokenKey(u, i), s, Put(s, k, w))
    BY <2>1, PutElsewhere
  <2> QED BY <1>2, <2>2, <2>3
<1>16. ASSUME NEW u \in Token, NEW i \in Nonce, NEW x \in DOMAIN y, x # SystemAccount
       PROVE  HolderSays(u, i, y[x].Storage, q)
  <2> DEFINE s == m[x].Storage
             r == y[x].Storage
  <2>1. x \in DOMAIN m /\ y[x] = mid[x]
    BY <1>2, <1>16
  <2>2. HolderSays(u, i, s, z) /\ s \in Storage0
    BY <1>1, <1>6, <2>1 DEF AttrsInv, z
  <2>3. CASE x = from
    <3>1. r = Put(s, k, left)
      BY <1>3, <2>1, <2>3
    <3> HIDE DEF r, s
    <3>2. CASE u = t /\ i = n
      <4>1. HolderSays(t, n, Put(s, k, left), q)
        BY <1>4, <1>13
      <4> QED BY <3>1, <3>2, <4>1 DEF r
    <3>3. CASE ~(u = t /\ i = n)
      <4>1. SameAt(makeTokenKey(u, i), s, r) /\ SameAt(makeTokenKey(u, i), z, q)
        BY <1>15, <3>1, <3>3
      <4>2. HolderSays(u, i, r, q)
        BY <2>2, <4>1, SaysTheSame
      <4> QED BY <4>2 DEF r
    <3> QED BY <3>2, <3>3
  <2>4. CASE x = to
    <3>1. r = Put(s, k, more)
      BY <1>3, <2>1, <2>4
    <3> HIDE DEF r, s
    <3>2. CASE u = t /\ i = n
      <4>1. HolderSays(t, n, Put(s, k, more), q)
        BY <1>4, <1>13
      <4> QED BY <3>1, <3>2, <4>1 DEF r
    <3>3. CASE ~(u = t /\ i = n)
      <4>1. SameAt(makeTokenKey(u, i), s, r) /\ SameAt(makeTokenKey(u, i), z, q)
        BY <1>15, <3>1, <3>3
      <4>2. HolderSays(u, i, r, q)
        BY <2>2, <4>1, SaysTheSame
      <4> QED BY <4>2 DEF r
    <3> QED BY <3>2, <3>3
  <2>5. CASE x # from /\ x # to
    <3>1. r = s
      BY <1>3, <2>1, <2>5
    <3> HIDE DEF r, s
    <3>2. CASE u = t /\ i = n
      <4>1. HolderSays(t, n, s, q)
        BY <1>14, <2>2, <3>2
      <4> QED BY <3>1, <3>2, <4>1 DEF r
    <3>3. CASE ~(u = t /\ i = n)
      <4>1. SameAt(makeTokenKey(u, i), s, s)
        BY DEF SameAt
      <4>2. SameAt(makeTokenKey(u, i), z, q)
        BY <1>15, <3>3
      <4>3. HolderSays(u, i, s, q)
        BY <2>2, <4>1, <4>2, SaysTheSame
      <4> QED BY <3>1, <4>3 DEF r
    <3> QED BY <3>2, <3>3
  <2> QED BY <2>3, <2>4, <2>5
<1>17. ASSUME NEW u \in Token, NEW i \in Nonce
       PROVE  CentralSays(u, i, q) /\ \A x \in DOMAIN y : HolderSays(u, i, y[x].Storage, q)
  <2>1. CentralSays(u, i, q)
    <3>1. CASE u = t /\ i = n
      BY <1>11, <3>1
    <3>2. CASE ~(u = t /\ i = n)
      <4>1. CentralSays(u, i, z) /\ SameAt(makeTokenKey(u, i), z, q)
        BY <1>1, <1>15, <3>2 DEF AttrsInv, z
      <4> QED BY <4>1 DEF CentralSays, SameAt
    <3> QED BY <3>1, <3>2
  <2>2. SystemAccount \in DOMAIN y => HolderSays(u, i, y[SystemAccount].Storage, q)
    <3>1. SystemAccount \in DOMAIN y => ~(GetTokenBalance(u, i, y[SystemAccount].Storage) > 0)
      BY <1>7
    <3> QED BY <3>1 DEF HolderSays
  <2> QED BY <1>16, <2>1, <2>2
<1> QED BY <1>17 DEF AttrsInv, q, y

\* The accounts there are for a transfer, and what they hold after it.
Present(accounts, appears) ==
    [a \in DOMAIN accounts \union appears |-> IF a \in DOMAIN accounts THEN accounts[a] ELSE Bare]
Paid(present, from, to, t, n, v) ==
    [present EXCEPT ![from].tokens[t].amount[n] = @ - v, ![to].tokens[t].amount[n] = @ + v]

BookedBoth(p, a, b, t, n, x, w) ==
    [c \in DOMAIN p |-> IF c = b THEN WithAmount(p[c], t, n, w)
                        ELSE IF c = a THEN WithAmount(p[c], t, n, x) ELSE p[c]]

\* Two amounts that are booked.
LEMMA BookedTwice ==
    ASSUME NEW p, NEW a, NEW b, a # b, b \in DOMAIN p, NEW t, NEW n, NEW x, NEW w
    PROVE  Booked(Booked(p, a, t, n, x), b, t, n, w) = BookedBoth(p, a, b, t, n, x, w)
<1> DEFINE q == Booked(p, a, t, n, x)
<1>1. DOMAIN q = DOMAIN p /\ \A c \in DOMAIN p : q[c] = IF c = a THEN WithAmount(p[c], t, n, x) ELSE p[c]
  BY DEF Booked
<1> HIDE DEF q
<1>2. Booked(q, b, t, n, w) = [c \in DOMAIN q |-> IF c = b THEN WithAmount(q[c], t, n, w) ELSE q[c]]
  BY DEF Booked
<1>3. q[b] = p[b]
  BY <1>1
<1>4. \A c \in DOMAIN p : c = b => WithAmount(q[c], t, n, w) = WithAmount(p[c], t, n, w)
  BY <1>3
<1>5. \A c \in DOMAIN p :
        (IF c = b THEN WithAmount(q[c], t, n, w) ELSE q[c]) =
        (IF c = b THEN WithAmount(p[c], t, n, w) ELSE IF c = a THEN WithAmount(p[c], t, n, x) ELSE p[c])
  BY <1>1, <1>4
<1>6. Booked(q, b, t, n, w) =
        [c \in DOMAIN p |-> IF c = b THEN WithAmount(p[c], t, n, w)
                            ELSE IF c = a THEN WithAmount(p[c], t, n, x) ELSE p[c]]
  BY <1>1, <1>2, <1>5
<1> QED BY <1>6 DEF q, BookedBoth

\* What is paid is booked.
LEMMA PaidIs ==
    ASSUME NEW p, NEW from, NEW to, from # to, from \in DOMAIN p, to \in DOMAIN p, NEW t, NEW n, NEW v
    PROVE  Paid(p, from, to, t, n, v) =
             Booked(Booked(p, from, t, n, p[from].tokens[t].amount[n] - v),
                    to, t, n, p[to].tokens[t].amount[n] + v)
<1> DEFINE q == [p EXCEPT ![from].tokens[t].amount[n] = @ - v]
<1>1. q[to] = p[to]
  OBVIOUS
<1>2. q = Booked(p, from, t, n, p[from].tokens[t].amount[n] - v)
  BY DEF Booked, WithAmount
<1>3. Paid(p, from, to, t, n, v) = [q EXCEPT ![to].tokens[t].amount[n] = @ + v]
  BY DEF Paid
<1> HIDE DEF q
<1>4. [q EXCEPT ![to].tokens[t].amount[n] = @ + v] = Booked(q, to, t, n, q[to].tokens[t].amount[n] + v)
  BY DEF Booked, WithAmount
<1> QED BY <1>1, <1>2, <1>3, <1>4

\* A transfer.
LEMMA TransferInLedger ==
    ASSUME KeysComeApart, NEW m, NEW from, NEW to, NEW t, NEW n, NEW v, CanTransfer(m, from, to, t, n, v),
           NEW y, y = AfterTransfer(m, from, to, t, n, v), NEW appears, appears = IF n = 0 THEN {} ELSE {SystemAccount}
    PROVE  /\ CentralInv(y) /\ AttrsInv(y)
           /\ v <= MapView(m)[from].tokens[t].amount[n]
           /\ MapView(y) = Paid(Present(MapView(m), appears), from, to, t, n, v)
<1> DEFINE mid == AfterMove(m, from, to, t, n, v)
           sent == Sent(m, from, t, n).value
           got == Got(m, to, t, n)
           M == MapView(m)
           P == Present(M, appears)
<1>1. /\ KeysComeApart /\ m \in AccountMaps /\ CentralInv(m) /\ t \in Token /\ n \in Nonce
      /\ from \in DOMAIN m /\ to \in DOMAIN m /\ from # SystemAccount /\ to # SystemAccount /\ from # to
      /\ v <= sent
  BY DEF CanTransfer
<1>2. AttrsInv(y)
  BY TransferSays
<1>3. IsTransferred(y, m, mid, CentralStorage(m, from, t, n), n)
  BY <1>1, AfterTransferIs
<1>4. MapView(mid) = Booked(Booked(M, from, t, n, sent - v), to, t, n, got + v)
  BY <1>1, MoveIs
<1>5. DOMAIN mid = DOMAIN m
  BY <1>1, MoveIs
<1>6. /\ DOMAIN M = DOMAIN m /\ \A x \in DOMAIN m : M[x] = AcctView(m[x])
      /\ M[from].tokens[t].amount[n] = sent /\ M[to].tokens[t].amount[n] = got
  <2>1. DOMAIN M = DOMAIN m /\ \A x \in DOMAIN m : M[x] = AcctView(m[x])
    BY DEF MapView
  <2>2. \A x : AcctView(m[x]).tokens[t].amount[n] = GetTokenBalance(t, n, m[x].Storage)
    BY <1>1 DEF AcctView, TokensOf, TokenView, Amounts
  <2>3. sent = GetTokenBalance(t, n, m[from].Storage)
    BY SentIs
  <2>4. got = GetTokenBalance(t, n, m[to].Storage)
    BY DEF Got
  <2> HIDE DEF M, sent, got
  <2> QED BY <1>1, <2>1, <2>2, <2>3, <2>4
<1>7. /\ DOMAIN P = DOMAIN M \union appears
      /\ \A x \in DOMAIN M : P[x] = M[x]
      /\ \A x \in DOMAIN P : x \notin DOMAIN M => P[x] = Bare
  BY DEF Present
<1> HIDE DEF mid, sent, got, M, P
<1>8. Paid(P, from, to, t, n, v) = Booked(Booked(P, from, t, n, sent - v), to, t, n, got + v)
  <2>1. from \in DOMAIN P /\ to \in DOMAIN P /\ P[from] = M[from] /\ P[to] = M[to]
    BY <1>1, <1>6, <1>7
  <2> QED BY <1>1, <1>6, <2>1, PaidIs
<1>9. Booked(Booked(P, from, t, n, sent - v), to, t, n, got + v) =
        BookedBoth(P, from, to, t, n, sent - v, got + v)
  BY <1>1, <1>6, <1>7, BookedTwice
<1>10. MapView(mid) = BookedBoth(M, from, to, t, n, sent - v, got + v)
  BY <1>1, <1>4, <1>6, BookedTwice
<1>11. DOMAIN y = DOMAIN P
  BY <1>3, <1>6, <1>7 DEF IsTransferred
<1>12. ASSUME NEW c \in DOMAIN P
       PROVE  AcctView(y[c]) = IF c = to THEN WithAmount(P[c], t, n, got + v)
                               ELSE IF c = from THEN WithAmount(P[c], t, n, sent - v) ELSE P[c]
  <2>1. CASE c # SystemAccount
    <3>1. c \in DOMAIN m /\ y[c] = mid[c] /\ P[c] = M[c]
      BY <1>3, <1>6, <1>7, <1>11, <2>1 DEF IsTransferred
    <3>2. MapView(mid)[c] = AcctView(mid[c])
      BY <1>5, <3>1 DEF MapView
    <3>3. MapView(mid)[c] = IF c = to THEN WithAmount(M[c], t, n, got + v)
                            ELSE IF c = from THEN WithAmount(M[c], t, n, sent - v) ELSE M[c]
      BY <1>6, <1>10, <3>1 DEF BookedBoth
    <3> QED BY <3>1, <3>2, <3>3
  <2>2. CASE c = SystemAccount
    <3>1. Unowned(y[c])
      BY <1>3, <1>11, <2>2 DEF IsTransferred, CentralInv
    <3>2. AcctView(y[c]) = Bare
      BY <3>1, BareView
    <3>3. P[c] = Bare
      <4>1. CASE c \in DOMAIN M
        <5>1. Unowned(m[c])
          BY <1>1, <1>6, <2>2, <4>1 DEF CentralInv
        <5> QED BY <1>6, <1>7, <4>1, <5>1, BareView
      <4>2. CASE c \notin DOMAIN M
        BY <1>7, <4>2
      <4> QED BY <4>1, <4>2
    <3> QED BY <1>1, <2>2, <3>2, <3>3
  <2> QED BY <2>1, <2>2
<1>13. MapView(y) = Paid(P, from, to, t, n, v)
  <2>1. MapView(y) = [c \in DOMAIN P |-> AcctView(y[c])]
    BY <1>11 DEF MapView
  <2> QED BY <1>8, <1>9, <1>12, <2>1 DEF BookedBoth
<1>14. CentralInv(y)
  BY <1>3 DEF IsTransferred
<1> QED BY <1>1, <1>2, <1>6, <1>13, <1>14 DEF P, M, sent

----------------------------------------------------------------------------
(* Checks *)

\* Where x is in a field of a list.
At(list, field, x) == {i \in 1..Len(list) : list[i][field] = x}

\* The list as a map.
LEMMA ListedIs ==
    ASSUME NEW list, list \in Seq(Range(list)), NEW field
    PROVE  /\ \A x : x \in DOMAIN Listed(list, field) <=> At(list, field, x) # {}
           /\ \A x \in DOMAIN Listed(list, field) : Listed(list, field)[x] = list[Max(At(list, field, x))]
           /\ \A x \in DOMAIN Listed(list, field) : \E e \in Range(list) : x = e[field]
<1>1. Len(list) \in Nat /\ DOMAIN list = 1..Len(list) /\ Range(list) = {list[i] : i \in 1..Len(list)}
  BY LenProperties DEF Range
<1>2. ASSUME NEW x \in {list[i][field] : i \in 1..Len(list)}
      PROVE  SelectLastInSeq(list, LAMBDA e : e[field] = x) = Max(At(list, field, x))
  <2>1. At(list, field, x) # {}
    BY DEF At
  <2> QED BY <2>1 DEF SelectLastInSeq, At
<1>3. Listed(list, field) = [x \in {list[i][field] : i \in 1..Len(list)} |-> list[Max(At(list, field, x))]]
  BY <1>1, <1>2 DEF Listed
<1> QED BY <1>1, <1>3 DEF At

\* Of the mentions of a key, the ledger takes the one that the map keeps.
LEMMA LastKeyIs ==
    ASSUME NEW list, list \in Seq(Range(list)), NEW x
    PROVE  /\ Ledger!Says(list, LAMBDA e : e.key = x) <=> At(list, "key", x) # {}
           /\ At(list, "key", x) # {} =>
                Ledger!LastThat(list, LAMBDA e : e.key = x) = list[Max(At(list, "key", x))]
<1> DEFINE I == At(list, "key", x)
           c == CHOOSE i \in DOMAIN list : list[i].key = x /\ \A j \in DOMAIN list : list[j].key = x => j <= i
<1>1. Len(list) \in Nat /\ DOMAIN list = 1..Len(list)
  BY LenProperties
<1>2. I = {i \in 1..Len(list) : list[i].key = x}
  BY DEF At
<1>3. Ledger!LastThat(list, LAMBDA e : e.key = x) = list[c]
  BY DEF Ledger!LastThat
<1>4. Ledger!Says(list, LAMBDA e : e.key = x) <=> \E i \in DOMAIN list : list[i].key = x
  BY DEF Ledger!Says
<1> HIDE DEF I
<1>5. ASSUME I # {} PROVE c = Max(I)
  <2>1. Max(I) \in I /\ \A j \in I : Max(I) >= j
    BY <1>1, <1>2, <1>5, MaxIsIn
  <2>2. \E i \in DOMAIN list : list[i].key = x /\ \A j \in DOMAIN list : list[j].key = x => j <= i
    BY <1>1, <1>2, <2>1
  <2>3. c \in DOMAIN list /\ list[c].key = x /\ \A j \in DOMAIN list : list[j].key = x => j <= c
    BY <2>2
  <2> HIDE DEF c
  <2> QED BY <1>1, <1>2, <1>5, <2>3, ChosenIsMax
<1> HIDE DEF c
<1> QED BY <1>1, <1>2, <1>3, <1>4, <1>5 DEF I

\* Likewise of a nonce, among the instances of a token.
LEMMA LastNonceIs ==
    ASSUME NEW list, list \in Seq(Range(list)), NEW x
    PROVE  /\ Ledger!Says(list, LAMBDA e : e.nonce = x) <=> At(list, "nonce", x) # {}
           /\ At(list, "nonce", x) # {} =>
                Ledger!LastThat(list, LAMBDA e : e.nonce = x) = list[Max(At(list, "nonce", x))]
<1> DEFINE I == At(list, "nonce", x)
           c == CHOOSE i \in DOMAIN list : list[i].nonce = x /\ \A j \in DOMAIN list : list[j].nonce = x => j <= i
<1>1. Len(list) \in Nat /\ DOMAIN list = 1..Len(list)
  BY LenProperties
<1>2. I = {i \in 1..Len(list) : list[i].nonce = x}
  BY DEF At
<1>3. Ledger!LastThat(list, LAMBDA e : e.nonce = x) = list[c]
  BY DEF Ledger!LastThat
<1>4. Ledger!Says(list, LAMBDA e : e.nonce = x) <=> \E i \in DOMAIN list : list[i].nonce = x
  BY DEF Ledger!Says
<1> HIDE DEF I
<1>5. ASSUME I # {} PROVE c = Max(I)
  <2>1. Max(I) \in I /\ \A j \in I : Max(I) >= j
    BY <1>1, <1>2, <1>5, MaxIsIn
  <2>2. \E i \in DOMAIN list : list[i].nonce = x /\ \A j \in DOMAIN list : list[j].nonce = x => j <= i
    BY <1>1, <1>2, <2>1
  <2>3. c \in DOMAIN list /\ list[c].nonce = x /\ \A j \in DOMAIN list : list[j].nonce = x => j <= c
    BY <2>2
  <2> HIDE DEF c
  <2> QED BY <1>1, <1>2, <1>5, <2>3, ChosenIsMax
<1> HIDE DEF c
<1> QED BY <1>1, <1>2, <1>3, <1>4, <1>5 DEF I

\* And of a token.
LEMMA LastTokenIs ==
    ASSUME NEW list, list \in Seq(Range(list)), NEW x
    PROVE  /\ Ledger!Says(list, LAMBDA e : e.token = x) <=> At(list, "token", x) # {}
           /\ At(list, "token", x) # {} =>
                Ledger!LastThat(list, LAMBDA e : e.token = x) = list[Max(At(list, "token", x))]
<1> DEFINE I == At(list, "token", x)
           c == CHOOSE i \in DOMAIN list : list[i].token = x /\ \A j \in DOMAIN list : list[j].token = x => j <= i
<1>1. Len(list) \in Nat /\ DOMAIN list = 1..Len(list)
  BY LenProperties
<1>2. I = {i \in 1..Len(list) : list[i].token = x}
  BY DEF At
<1>3. Ledger!LastThat(list, LAMBDA e : e.token = x) = list[c]
  BY DEF Ledger!LastThat
<1>4. Ledger!Says(list, LAMBDA e : e.token = x) <=> \E i \in DOMAIN list : list[i].token = x
  BY DEF Ledger!Says
<1> HIDE DEF I
<1>5. ASSUME I # {} PROVE c = Max(I)
  <2>1. Max(I) \in I /\ \A j \in I : Max(I) >= j
    BY <1>1, <1>2, <1>5, MaxIsIn
  <2>2. \E i \in DOMAIN list : list[i].token = x /\ \A j \in DOMAIN list : list[j].token = x => j <= i
    BY <1>1, <1>2, <2>1
  <2>3. c \in DOMAIN list /\ list[c].token = x /\ \A j \in DOMAIN list : list[j].token = x => j <= c
    BY <2>2
  <2> HIDE DEF c
  <2> QED BY <1>1, <1>2, <1>5, <2>3, ChosenIsMax
<1> HIDE DEF c
<1> QED BY <1>1, <1>2, <1>3, <1>4, <1>5 DEF I

\* The storage of an account.
LEMMA StorageMeets ==
    ASSUME NEW want, want.list \in Seq(Range(want.list)), \A e \in Range(want.list) : e.key \in EntryKey,
           NEW acct \in Accounts
    PROVE  checkAccountStorage(want, acct) <=>
             want.ignore \/ Ledger!MeetsEntries(want, EntriesOf(acct.Storage))
<1> DEFINE list == want.list
           s == acct.Storage
           listed == Listed(list, "key")
           there == {k.rest : k \in KeysWith("plain", s)}
           E == EntriesOf(s)
           Want(k) == IF k \in DOMAIN listed THEN listed[k].value
                      ELSE IF want.more THEN Star(Empty) ELSE Unspecified(Empty)
           Have(k) == IF k \in there THEN s[Plain(k)] ELSE Empty
<1>1. s \in Storage0
  BY DEF Accounts
<1>2. ASSUME NEW k \in EntryKey PROVE k \in there <=> Plain(k) \in DOMAIN s
  <2>1. Plain(k).prefix = "plain" /\ Plain(k).rest = k
    BY DEF Plain, Key
  <2>2. ASSUME NEW x \in DOMAIN s, x.prefix = "plain", x.rest = k PROVE x = Plain(k)
    <3>1. x \in KeySpace
      BY <1>1, StorageIs DEF Storage0
    <3> QED BY <2>2, <3>1 DEF KeySpace, Plain, Key
  <2> HIDE DEF s
  <2> QED BY <2>1, <2>2 DEF KeysWith
<1>3. there \subseteq EntryKey
  <2> SUFFICES ASSUME NEW x \in DOMAIN s, x.prefix = "plain" PROVE x.rest \in EntryKey
    BY DEF KeysWith
  <2>1. SoundEntry(SpecAttrs, SpecRoles, x, s[x])
    BY <1>1, StorageIs DEF Storage0
  <2> QED BY <2>1 DEF SoundEntry
<1>4. DOMAIN E = EntryKey /\ \A k \in EntryKey : E[k] = IF Plain(k) \in DOMAIN s THEN s[Plain(k)] ELSE Empty
  BY DEF EntriesOf
<1>5. /\ \A k : k \in DOMAIN listed <=> At(list, "key", k) # {}
      /\ \A k \in DOMAIN listed : listed[k] = list[Max(At(list, "key", k))]
      /\ DOMAIN listed \subseteq EntryKey
  <2>1. \A x \in DOMAIN listed : \E e \in Range(list) : x = e["key"]
    BY ListedIs
  <2>2. \A e : e["key"] = e.key
    OBVIOUS
  <2> QED BY <2>1, <2>2, ListedIs
<1>6. checkAccountStorage(want, acct) <=>
        want.ignore \/ \A k \in DOMAIN listed \union there : Passes(Want(k), Have(k))
  BY DEF checkAccountStorage
<1>7. Ledger!MeetsEntries(want, E) <=>
        \A k \in DOMAIN E :
            IF Ledger!Says(list, LAMBDA e : e.key = k)
            THEN Ledger!Agrees(Ledger!LastThat(list, LAMBDA e : e.key = k).value, E[k])
            ELSE want.more \/ E[k] = Empty
  BY DEF Ledger!MeetsEntries
<1> HIDE DEF s, listed, there, E
<1>8. \A k \in EntryKey : Have(k) = E[k]
  BY <1>2, <1>4
<1>9. ASSUME NEW k \in EntryKey
      PROVE  (IF Ledger!Says(list, LAMBDA e : e.key = k)
              THEN Ledger!Agrees(Ledger!LastThat(list, LAMBDA e : e.key = k).value, E[k])
              ELSE want.more \/ E[k] = Empty) <=> Passes(Want(k), E[k])
  <2>1. CASE k \in DOMAIN listed
    <3>1. Ledger!Says(list, LAMBDA e : e.key = k) /\ Ledger!LastThat(list, LAMBDA e : e.key = k) = listed[k]
      <4>1. At(list, "key", k) # {} /\ listed[k] = list[Max(At(list, "key", k))]
        BY <1>5, <2>1
      <4>2. Ledger!Says(list, LAMBDA e : e.key = k)
        <5>1. DOMAIN list = 1..Len(list)
          BY LenProperties
        <5> QED BY <4>1, <5>1 DEF Ledger!Says, At
      <4>3. Ledger!LastThat(list, LAMBDA e : e.key = k) = list[Max(At(list, "key", k))]
        BY <4>1, LastKeyIs
      <4> QED BY <4>1, <4>2, <4>3
    <3>2. Want(k) = listed[k].value
      BY <2>1
    <3> HIDE DEF Want
    <3> QED BY <3>1, <3>2 DEF Ledger!Agrees, Passes
  <2>2. CASE k \notin DOMAIN listed
    <3>1. ~Ledger!Says(list, LAMBDA e : e.key = k)
      BY <1>5, <2>2, LastKeyIs
    <3>2. Want(k) = IF want.more THEN Star(Empty) ELSE Unspecified(Empty)
      BY <2>2
    <3> HIDE DEF Want
    <3>3. Passes(Want(k), E[k]) <=> want.more \/ E[k] = Empty
      BY <3>2 DEF Passes, Star, Unspecified
    <3> QED BY <3>1, <3>3
  <2> QED BY <2>1, <2>2
<1>10. ASSUME NEW k \in EntryKey, k \notin DOMAIN listed, k \notin there PROVE Passes(Want(k), E[k])
  <2>1. E[k] = Empty
    BY <1>2, <1>4, <1>10
  <2>2. Want(k) = Star(Empty) \/ Want(k) = Unspecified(Empty)
    BY <1>10
  <2> HIDE DEF Want
  <2> QED BY <2>1, <2>2 DEF Passes, Star, Unspecified
<1>11. Ledger!MeetsEntries(want, E) <=> \A k \in EntryKey : Passes(Want(k), E[k])
  BY <1>4, <1>7, <1>9
<1>12. checkAccountStorage(want, acct) <=>
         want.ignore \/ \A k \in DOMAIN listed \union there : Passes(Want(k), E[k])
  BY <1>3, <1>5, <1>6, <1>8
<1> HIDE DEF Want
<1>13. (\A k \in EntryKey : Passes(Want(k), E[k])) <=> \A k \in DOMAIN listed \union there : Passes(Want(k), E[k])
  BY <1>3, <1>5, <1>10
<1> QED BY <1>11, <1>12, <1>13 DEF E, s

\* What a check and the ledger want of the instances of a token.
InstancesMeet(list, t, amounts) ==
    \A n \in Nonce :
        IF Ledger!Says(list, LAMBDA i : i.nonce = n)
        THEN Ledger!MeetsInstance(Ledger!LastThat(list, LAMBDA i : i.nonce = n), t, n, amounts[n])
        ELSE amounts[n] = 0

\* The metadata of the instances of a token, with one holder.
AttrsAre(t, s, z) == \A n \in Nonce : CentralSays(t, n, z) /\ HolderSays(t, n, s, z)

\* The instances of a token.
LEMMA InstancesAreMet ==
    ASSUME NEW e, e.instances \in Seq(Range(e.instances)), \A i \in Range(e.instances) : i.nonce \in Nonce,
           NEW t \in Token, NEW s \in Storage0, NEW z \in Storage0, AttrsAre(t, s, z),
           NEW actual, actual.instances = {Unit(t, n, s, z) : n \in Holds(t, s)}
    PROVE  checkTokenInstances(e, actual) <=> InstancesMeet(e.instances, t, Amounts(t, s))
<1> DEFINE list == e.instances
           units == actual.instances
           listed == Listed(list, "nonce")
           there == {i.nonce : i \in units}
           amount == Amounts(t, s)
           attrs == [n \in Nonce |-> IF amount[n] > 0 THEN AttrsOf[t][n] ELSE NoAttrs]
           Want(n) == IF n \in DOMAIN listed THEN listed[n]
                      ELSE [nonce |-> n, balance |-> Is(0), attrs |-> Is(NoAttrs)]
           Have(n) == IF n \in there THEN CHOOSE i \in units : i.nonce = n
                      ELSE [nonce |-> n, balance |-> 0, attrs |-> NoAttrs]
           Good(n) == /\ Passes(Want(n).balance, amount[n])
                      /\ Want(n).attrs.unspecified \/ Passes(Want(n).attrs, attrs[n])
<1>1. \A n \in Nonce : amount[n] = GetTokenBalance(t, n, s) /\ amount[n] \in Nat
  <2>1. \A n \in Nonce : GetTokenBalance(t, n, s) \in Nat
    BY BalanceType, SpecsAreSound DEF Storage0
  <2> QED BY <2>1 DEF Amounts
<1>2. ASSUME NEW n \in Nonce, GetTokenBalance(t, n, s) > 0
      PROVE  GetTokenData(t, n, s, z).meta.attrs = AttrsOf[t][n]
  <2>1. CentralSays(t, n, z) /\ HolderSays(t, n, s, z)
    BY DEF AttrsAre
  <2> QED BY <1>2, <2>1, AttrsAreRead
<1>3. \A n : Unit(t, n, s, z).nonce = n /\ Unit(t, n, s, z).balance = GetTokenBalance(t, n, s)
             /\ Unit(t, n, s, z).attrs = GetTokenData(t, n, s, z).meta.attrs
  BY DEF Unit
<1>4. there = {n \in Nonce : amount[n] > 0}
  <2>1. Holds(t, s) = {n \in Nonce : amount[n] > 0}
    BY <1>1 DEF Holds
  <2> HIDE DEF amount
  <2>2. ASSUME NEW n PROVE n \in there <=> n \in Holds(t, s)
    BY <1>3
  <2> QED BY <2>1, <2>2
<1>5. ASSUME NEW n \in Nonce PROVE Have(n).balance = amount[n] /\ Have(n).attrs = attrs[n]
  <2>1. CASE n \in there
    <3> DEFINE i == CHOOSE i \in units : i.nonce = n
    <3>1. amount[n] > 0
      BY <1>4, <2>1
    <3>2. i \in units /\ i.nonce = n
      BY <2>1
    <3>3. Have(n) = i
      BY <2>1
    <3> HIDE DEF i, Have
    <3>4. i = Unit(t, n, s, z)
      BY <1>3, <3>2
    <3> HIDE DEF amount
    <3>5. attrs[n] = AttrsOf[t][n]
      BY <3>1
    <3> HIDE DEF attrs
    <3> QED BY <1>1, <1>2, <1>3, <3>1, <3>3, <3>4, <3>5
  <2>2. CASE n \notin there
    <3>1. ~(amount[n] > 0)
      BY <1>4, <2>2
    <3>2. Have(n) = [nonce |-> n, balance |-> 0, attrs |-> NoAttrs]
      BY <2>2
    <3> HIDE DEF Have, amount
    <3>3. attrs[n] = NoAttrs
      BY <3>1
    <3> HIDE DEF attrs
    <3>4. amount[n] = 0
      BY <1>1, <3>1
    <3> QED BY <3>2, <3>3, <3>4
  <2> QED BY <2>1, <2>2
<1>6. /\ \A n : n \in DOMAIN listed <=> At(list, "nonce", n) # {}
      /\ \A n \in DOMAIN listed : listed[n] = list[Max(At(list, "nonce", n))]
      /\ DOMAIN listed \subseteq Nonce
  <2>0. list \in Seq(Range(list))
    OBVIOUS
  <2> HIDE DEF list, units, there, amount, attrs
  <2>1. \A x \in DOMAIN listed : \E i \in Range(list) : x = i["nonce"]
    BY <2>0, ListedIs
  <2>2. \A i : i["nonce"] = i.nonce
    OBVIOUS
  <2> QED BY <2>0, <2>1, <2>2, ListedIs DEF list
<1>7. checkTokenInstances(e, actual) <=>
        \A n \in DOMAIN listed \union there :
            /\ Passes(Want(n).balance, Have(n).balance)
            /\ Want(n).attrs.unspecified \/ Passes(Want(n).attrs, Have(n).attrs)
  BY DEF checkTokenInstances
<1>8. \A n \in Nonce : attrs[n] = IF amount[n] > 0 THEN AttrsOf[t][n] ELSE NoAttrs
  OBVIOUS
<1>9. InstancesMeet(list, t, amount) <=>
        \A n \in Nonce :
            IF Ledger!Says(list, LAMBDA i : i.nonce = n)
            THEN Ledger!MeetsInstance(Ledger!LastThat(list, LAMBDA i : i.nonce = n), t, n, amount[n])
            ELSE amount[n] = 0
  BY DEF InstancesMeet
<1> HIDE DEF listed, there, amount, attrs, Have
<1>10. ASSUME NEW n \in Nonce
       PROVE  (IF Ledger!Says(list, LAMBDA i : i.nonce = n)
               THEN Ledger!MeetsInstance(Ledger!LastThat(list, LAMBDA i : i.nonce = n), t, n, amount[n])
               ELSE amount[n] = 0) <=> Good(n)
  <2>1. CASE n \in DOMAIN listed
    <3>1. At(list, "nonce", n) # {} /\ listed[n] = list[Max(At(list, "nonce", n))]
      BY <1>6, <2>1
    <3>2. Ledger!Says(list, LAMBDA i : i.nonce = n)
      <4>1. DOMAIN list = 1..Len(list)
        BY LenProperties
      <4> QED BY <3>1, <4>1 DEF Ledger!Says, At
    <3>3. Ledger!LastThat(list, LAMBDA i : i.nonce = n) = list[Max(At(list, "nonce", n))]
      BY <3>1, LastNonceIs
    <3>4. Want(n) = listed[n]
      BY <2>1
    <3>5. Ledger!MeetsInstance(listed[n], t, n, amount[n]) <=> Good(n)
      <4> DEFINE w == listed[n]
      <4>1. Ledger!MeetsInstance(w, t, n, amount[n]) <=>
              /\ Ledger!Agrees(w.balance, amount[n])
              /\ w.attrs.unspecified \/ Ledger!Agrees(w.attrs, attrs[n])
        BY <1>8 DEF Ledger!MeetsInstance
      <4>2. \A x, y : Ledger!Agrees(x, y) <=> Passes(x, y)
        BY DEF Ledger!Agrees, Passes
      <4>3. Good(n) <=> /\ Passes(w.balance, amount[n])
                        /\ w.attrs.unspecified \/ Passes(w.attrs, attrs[n])
        BY <3>4
      <4> HIDE DEF Good, w
      <4> QED BY <4>1, <4>2, <4>3 DEF w
    <3> HIDE DEF Good, Want
    <3> QED BY <3>1, <3>2, <3>3, <3>5
  <2>2. CASE n \notin DOMAIN listed
    <3>1. ~Ledger!Says(list, LAMBDA i : i.nonce = n)
      BY <1>6, <2>2, LastNonceIs
    <3>2. Want(n) = [nonce |-> n, balance |-> Is(0), attrs |-> Is(NoAttrs)]
      BY <2>2
    <3> HIDE DEF Want
    <3>3. Want(n).balance = Is(0) /\ Want(n).attrs = Is(NoAttrs)
      BY <3>2
    <3>4. \A x, y : Passes(Is(x), y) <=> x = y
      BY DEF Passes, Is
    <3>5. \A x : Is(x).unspecified = FALSE
      BY DEF Is
    <3>6. Good(n) <=> 0 = amount[n] /\ NoAttrs = attrs[n]
      BY <3>3, <3>4, <3>5
    <3> HIDE DEF Good
    <3>7. Good(n) <=> amount[n] = 0
      BY <1>1, <1>8, <3>6
    <3> QED BY <3>1, <3>7
  <2> QED BY <2>1, <2>2
<1>11. ASSUME NEW n \in Nonce, n \notin DOMAIN listed, n \notin there PROVE Good(n)
  <2>1. amount[n] = 0
    BY <1>1, <1>4, <1>11
  <2>2. ~Ledger!Says(list, LAMBDA i : i.nonce = n)
    BY <1>6, <1>11, LastNonceIs
  <2> HIDE DEF Good
  <2> QED BY <1>10, <2>1, <2>2
<1>12. there \subseteq Nonce
  BY <1>4
<1>13. checkTokenInstances(e, actual) <=> \A n \in DOMAIN listed \union there : Good(n)
  BY <1>5, <1>6, <1>7, <1>12
<1> HIDE DEF Good, Want
<1>14. InstancesMeet(list, t, amount) <=> \A n \in Nonce : Good(n)
  BY <1>9, <1>10
<1>15. (\A n \in Nonce : Good(n)) <=> \A n \in DOMAIN listed \union there : Good(n)
  BY <1>6, <1>11, <1>12
<1> QED BY <1>13, <1>14, <1>15 DEF amount

\* What a list expects of a token.
ExpectedOf(list, t) ==
    IF t \in DOMAIN Listed(list, "token") THEN Listed(list, "token")[t]
    ELSE [token |-> t, instances |-> <<>>, lastNonce |-> Is(0), roles |-> {}]

IsTokenCheck(e) ==
    /\ e.token \in Token /\ e.instances \in Seq(Range(e.instances))
    /\ \A i \in Range(e.instances) : i.nonce \in Nonce

\* One token.
LEMMA TokenIsMet ==
    ASSUME NEW list, list \in Seq(Range(list)), \A e \in Range(list) : IsTokenCheck(e),
           NEW t \in Token, NEW s \in Storage0, NEW z \in Storage0, AttrsAre(t, s, z)
    PROVE  Ledger!MeetsToken(list, t, TokenView(t, s)) <=> checkTokenState(ExpectedOf(list, t), Find(t, s, z))
<1> DEFINE have == TokenView(t, s)
           actual == Find(t, s, z)
           listed == Listed(list, "token")
           e == ExpectedOf(list, t)
<1>1. /\ have.amount = Amounts(t, s) /\ have.lastNonce = LastNonceOf(t, s) /\ have.roles = RolesOf(t, s)
      /\ have = [amount |-> Amounts(t, s), lastNonce |-> LastNonceOf(t, s), roles |-> RolesOf(t, s)]
  BY DEF TokenView
<1>2. /\ actual.instances = {Unit(t, n, s, z) : n \in Holds(t, s)}
      /\ actual.lastNonce = LastNonceOf(t, s) /\ actual.roles = RolesOf(t, s)
  BY DEF Find
<1>3. /\ t \in DOMAIN listed <=> At(list, "token", t) # {}
      /\ t \in DOMAIN listed => listed[t] = list[Max(At(list, "token", t))]
  BY ListedIs
<1>4. Ledger!MeetsToken(list, t, have) <=>
        IF ~Ledger!Says(list, LAMBDA x : x.token = t) THEN have = Ledger!Nothing
        ELSE LET d == Ledger!LastThat(list, LAMBDA x : x.token = t)
             IN  /\ InstancesMeet(d.instances, t, have.amount)
                 /\ Ledger!Agrees(d.lastNonce, have.lastNonce)
                 /\ d.roles = have.roles
  BY DEF Ledger!MeetsToken, InstancesMeet
<1>5. checkTokenState(e, actual) <=>
        /\ checkTokenInstances(e, actual)
        /\ Passes(e.lastNonce, actual.lastNonce)
        /\ e.roles = actual.roles
  BY DEF checkTokenState
<1>6. e = IF t \in DOMAIN listed THEN listed[t]
          ELSE [token |-> t, instances |-> <<>>, lastNonce |-> Is(0), roles |-> {}]
  BY DEF ExpectedOf
<1> HIDE DEF have, actual, listed, e
<1>7. ASSUME e.instances \in Seq(Range(e.instances)), \A i \in Range(e.instances) : i.nonce \in Nonce
      PROVE  checkTokenInstances(e, actual) <=> InstancesMeet(e.instances, t, have.amount)
  BY <1>1, <1>2, <1>7, InstancesAreMet
<1>8. CASE t \in DOMAIN listed
  <2>1. At(list, "token", t) # {} /\ e = list[Max(At(list, "token", t))]
    BY <1>3, <1>6, <1>8
  <2>2. Ledger!Says(list, LAMBDA x : x.token = t)
    <3>1. DOMAIN list = 1..Len(list)
      BY LenProperties
    <3> QED BY <2>1, <3>1 DEF Ledger!Says, At
  <2>3. Ledger!LastThat(list, LAMBDA x : x.token = t) = e
    BY <2>1, LastTokenIs
  <2>4. e \in Range(list)
    <3>1. Len(list) \in Nat /\ DOMAIN list = 1..Len(list) /\ At(list, "token", t) \in SUBSET (1..Len(list))
      BY LenProperties DEF At
    <3>2. Max(At(list, "token", t)) \in 1..Len(list)
      BY <2>1, <3>1, MaxIsIn
    <3> QED BY <2>1, <3>1, <3>2 DEF Range
  <2>5. checkTokenInstances(e, actual) <=> InstancesMeet(e.instances, t, have.amount)
    BY <1>7, <2>4 DEF IsTokenCheck
  <2>6. Ledger!Agrees(e.lastNonce, have.lastNonce) <=> Passes(e.lastNonce, actual.lastNonce)
    BY <1>1, <1>2 DEF Ledger!Agrees, Passes
  <2>7. Ledger!MeetsToken(list, t, have) <=>
          /\ InstancesMeet(e.instances, t, have.amount)
          /\ Ledger!Agrees(e.lastNonce, have.lastNonce)
          /\ e.roles = have.roles
    BY <1>4, <2>2, <2>3
  <2> QED BY <1>1, <1>2, <1>5, <2>5, <2>6, <2>7 DEF have, actual, e
<1>9. CASE t \notin DOMAIN listed
  <2>1. ~Ledger!Says(list, LAMBDA x : x.token = t)
    BY <1>3, <1>9, LastTokenIs
  <2>2. e.instances = <<>> /\ e.lastNonce = Is(0) /\ e.roles = {}
    BY <1>6, <1>9
  <2>3. checkTokenInstances(e, actual) <=> InstancesMeet(e.instances, t, have.amount)
    <3>1. e.instances \in Seq(Range(e.instances)) /\ Range(e.instances) = {}
      BY <2>2 DEF Range
    <3> QED BY <1>7, <3>1
  <2>4. InstancesMeet(e.instances, t, have.amount) <=> have.amount = [n \in Nonce |-> 0]
    <3>1. ASSUME NEW n \in Nonce
          PROVE  (IF Ledger!Says(<<>>, LAMBDA i : i.nonce = n)
                  THEN Ledger!MeetsInstance(Ledger!LastThat(<<>>, LAMBDA i : i.nonce = n), t, n, have.amount[n])
                  ELSE have.amount[n] = 0) <=> have.amount[n] = 0
      <4>1. ~Ledger!Says(<<>>, LAMBDA i : i.nonce = n)
        BY DEF Ledger!Says
      <4> QED BY <4>1
    <3>2. InstancesMeet(<<>>, t, have.amount) <=> \A n \in Nonce : have.amount[n] = 0
      <4>1. InstancesMeet(<<>>, t, have.amount) <=>
              \A n \in Nonce :
                IF Ledger!Says(<<>>, LAMBDA i : i.nonce = n)
                THEN Ledger!MeetsInstance(Ledger!LastThat(<<>>, LAMBDA i : i.nonce = n), t, n, have.amount[n])
                ELSE have.amount[n] = 0
        BY DEF InstancesMeet
      <4> QED BY <3>1, <4>1
    <3>3. have.amount = [n \in Nonce |-> have.amount[n]]
      BY <1>1 DEF Amounts
    <3> QED BY <2>2, <3>2, <3>3
  <2>5. Passes(e.lastNonce, actual.lastNonce) <=> have.lastNonce = 0
    BY <1>1, <1>2, <2>2 DEF Passes, Is
  <2>6. have = Ledger!Nothing <=> have.amount = [n \in Nonce |-> 0] /\ have.lastNonce = 0 /\ have.roles = {}
    BY <1>1 DEF Ledger!Nothing
  <2>7. Ledger!MeetsToken(list, t, have) <=> have = Ledger!Nothing
    BY <1>4, <2>1
  <2>8. e.roles = actual.roles <=> have.roles = {}
    BY <1>1, <1>2, <2>2
  <2> QED BY <1>5, <2>3, <2>4, <2>5, <2>6, <2>7, <2>8 DEF have, actual, e
<1> QED BY <1>8, <1>9

\* The tokens of an account.
LEMMA TokensAreMet ==
    ASSUME KeysComeApart, NEW want, want.list \in Seq(Range(want.list)), \A e \in Range(want.list) : IsTokenCheck(e),
           NEW acct \in Accounts, SystemStorage \in Storage0, \A t \in Token : AttrsAre(t, acct.Storage, SystemStorage)
    PROVE  checkAccountESDT(want, acct) <=>
             want.ignore \/ \A t \in Token : Ledger!MeetsToken(want.list, t, TokensOf(acct.Storage)[t])
<1> DEFINE list == want.list
           s == acct.Storage
           z == SystemStorage
           listed == Listed(list, "token")
           full == GetFullMockESDTData(s, z)
           Want(t) == IF t \in DOMAIN listed THEN listed[t]
                      ELSE [token |-> t, instances |-> <<>>, lastNonce |-> Is(0), roles |-> {}]
           Have(t) == IF t \in DOMAIN full THEN full[t]
                      ELSE [instances |-> {}, lastNonce |-> 0, roles |-> {}]
<1>1. s \in Storage0 /\ z \in Storage0 /\ list \in Seq(Range(list)) /\ \A e \in Range(list) : IsTokenCheck(e)
  BY DEF Accounts
<1>2. \A t \in Token : AttrsAre(t, s, z)
  OBVIOUS
<1>3. checkAccountESDT(want, acct) <=>
        want.ignore \/ \A t \in DOMAIN listed \union DOMAIN full : checkTokenState(Want(t), Have(t))
  BY DEF checkAccountESDT
<1>4. DOMAIN listed \subseteq Token
  <2>1. \A t \in DOMAIN listed : \E e \in Range(list) : t = e["token"]
    BY ListedIs
  <2>2. \A e : e["token"] = e.token
    OBVIOUS
  <2> HIDE DEF list, listed
  <2> QED BY <1>1, <2>1, <2>2 DEF IsTokenCheck
<1>5. \A t : Want(t) = ExpectedOf(list, t)
  BY DEF ExpectedOf
<1>6. \A t \in Token : TokensOf(s)[t] = TokenView(t, s)
  BY DEF TokensOf
<1> HIDE DEF list, s, z, listed, Want
<1>7. full = [t \in TokensIn(s) |-> Find(t, s, z)]
  BY <1>1, ScanIsComplete, SpecsAreSound DEF Storage0
<1> HIDE DEF full
<1>8. DOMAIN full \subseteq Token
  BY <1>7 DEF TokensIn
<1>9. ASSUME NEW t \in Token PROVE Have(t) = Find(t, s, z)
  <2>1. CASE t \in TokensIn(s)
    BY <1>7, <2>1
  <2>2. CASE t \notin TokensIn(s)
    <3>1. {Unit(t, n, s, z) : n \in Holds(t, s)} = {} /\ LastNonceOf(t, s) = 0 /\ RolesOf(t, s) = {}
      BY <2>2 DEF TokensIn, LastNonceOf, RolesOf
    <3>2. Find(t, s, z) = [instances |-> {}, lastNonce |-> 0, roles |-> {}]
      BY <3>1 DEF Find
    <3> QED BY <1>7, <2>2, <3>2
  <2> QED BY <2>1, <2>2
<1>10. ASSUME NEW t \in Token
       PROVE  Ledger!MeetsToken(list, t, TokensOf(s)[t]) <=> checkTokenState(Want(t), Have(t))
  <2>1. Ledger!MeetsToken(list, t, TokenView(t, s)) <=> checkTokenState(ExpectedOf(list, t), Find(t, s, z))
    BY <1>1, <1>2, TokenIsMet
  <2> HIDE DEF Have
  <2> QED BY <1>5, <1>6, <1>9, <2>1
<1>11. ASSUME NEW t \in Token, t \notin DOMAIN listed, t \notin DOMAIN full
       PROVE  Ledger!MeetsToken(list, t, TokensOf(s)[t])
  <2>1. ~Ledger!Says(list, LAMBDA x : x.token = t)
    <3>1. At(list, "token", t) = {}
      BY <1>1, <1>11, ListedIs DEF listed
    <3> QED BY <1>1, <3>1, LastTokenIs
  <2>2. Amounts(t, s) = [n \in Nonce |-> 0]
    <3>1. Holds(t, s) = {}
      BY <1>7, <1>11 DEF TokensIn
    <3>2. \A n \in Nonce : GetTokenBalance(t, n, s) \in Nat
      BY <1>1, BalanceType, SpecsAreSound DEF Storage0
    <3>3. \A n \in Nonce : GetTokenBalance(t, n, s) = 0
      BY <3>1, <3>2 DEF Holds
    <3> QED BY <3>3 DEF Amounts
  <2>3. LastNonceOf(t, s) = 0 /\ RolesOf(t, s) = {}
    BY <1>7, <1>11 DEF TokensIn, LastNonceOf, RolesOf
  <2>4. TokenView(t, s) = Ledger!Nothing
    BY <2>2, <2>3 DEF TokenView, Ledger!Nothing
  <2>5. Ledger!MeetsToken(list, t, TokenView(t, s)) <=> TokenView(t, s) = Ledger!Nothing
    BY <2>1 DEF Ledger!MeetsToken
  <2> QED BY <1>6, <2>4, <2>5
<1> HIDE DEF Have
<1>12. (\A t \in Token : Ledger!MeetsToken(list, t, TokensOf(s)[t])) <=>
         \A t \in DOMAIN listed \union DOMAIN full : checkTokenState(Want(t), Have(t))
  BY <1>4, <1>8, <1>10, <1>11
<1> QED BY <1>3, <1>12 DEF list, s

\* No check says of an owner that any will do.
NoOwnerStar == \A check \in Check : \A i \in DOMAIN check.accounts : ~check.accounts[i].owner.star

\* One account.
LEMMA AccountIsMet ==
    ASSUME KeysComeApart, NEW want, IsAccountCheck(want), ~want.owner.star, AcctMap \in AccountMaps,
           CentralInv(AcctMap), AttrsInv(AcctMap), want.address \in DOMAIN AcctMap
    PROVE  checkAccount(want) <=> Ledger!MeetsAccount(want, AcctView(AcctMap[want.address]))
<1> DEFINE acct == AcctMap[want.address]
           s == acct.Storage
           view == AcctView(acct)
<1>1. acct \in Accounts /\ KeysComeApart
  BY AccountMapIs
<1>2. SystemStorage = SysOf(AcctMap) /\ SysOf(AcctMap) \in Storage0
  BY SysOfType DEF SystemStorage, SysOf
<1>3. \A t \in Token : AttrsAre(t, s, SystemStorage)
  BY <1>2 DEF AttrsAre, AttrsInv
<1>4. /\ view.balance = acct.balance /\ view.owner = acct.owner
      /\ view.entries = EntriesOf(s) /\ view.tokens = TokensOf(s)
  BY DEF AcctView
<1>5. checkAccount(want) <=>
        /\ Passes(want.balance, acct.balance)
        /\ want.owner.unspecified \/ want.owner.value = acct.owner
        /\ checkAccountStorage(want.storage, acct)
        /\ checkAccountESDT(want.esdt, acct)
  BY DEF checkAccount
<1> HIDE DEF acct
<1>6. checkAccountStorage(want.storage, acct) <=>
        want.storage.ignore \/ Ledger!MeetsEntries(want.storage, EntriesOf(s))
  BY <1>1, StorageMeets DEF IsAccountCheck
<1>7. checkAccountESDT(want.esdt, acct) <=>
        want.esdt.ignore \/ \A t \in Token : Ledger!MeetsToken(want.esdt.list, t, TokensOf(s)[t])
  <2>1. /\ want.esdt.list \in Seq(Range(want.esdt.list))
        /\ \A e \in Range(want.esdt.list) : IsTokenCheck(e)
    BY DEF IsAccountCheck, IsTokenCheck
  <2> QED BY <1>1, <1>2, <1>3, <2>1, TokensAreMet
<1> HIDE DEF view, s
<1>8. Passes(want.balance, acct.balance) <=> Ledger!Agrees(want.balance, view.balance)
  BY <1>4 DEF Passes, Ledger!Agrees
<1>9. Ledger!MeetsAccount(want, view) <=>
        /\ Ledger!Agrees(want.balance, view.balance)
        /\ want.owner.unspecified \/ want.owner.value = view.owner
        /\ want.storage.ignore \/ Ledger!MeetsEntries(want.storage, view.entries)
        /\ want.esdt.ignore \/ \A t \in Token : Ledger!MeetsToken(want.esdt.list, t, view.tokens[t])
  <2>1. Ledger!Agrees(want.owner, view.owner) <=> want.owner.value = view.owner
    BY DEF Ledger!Agrees
  <2> QED BY <2>1 DEF Ledger!MeetsAccount
<1> QED BY <1>4, <1>5, <1>6, <1>7, <1>8, <1>9 DEF view, acct

\* A check passes if what it says is so.
LEMMA ChecksAreMet ==
    ASSUME KeysComeApart, NoOwnerStar, NEW check \in Check, AcctMap \in AccountMaps,
           CentralInv(AcctMap), AttrsInv(AcctMap), Viewed = MapView(AcctMap)
    PROVE  checkAccounts(check) <=> Ledger!Meets(check)
<1> DEFINE wants == check.accounts
<1>1. \A i \in DOMAIN wants : IsAccountCheck(wants[i])
  BY AccountCheckAssumption
<1>2. DOMAIN Viewed = DOMAIN AcctMap /\ \A a \in DOMAIN AcctMap : Viewed[a] = AcctView(AcctMap[a])
  BY DEF MapView
<1>3. ASSUME NEW i \in DOMAIN wants
      PROVE  checkAccount(wants[i]) <=>
               wants[i].address \in DOMAIN Viewed /\ Ledger!MeetsAccount(wants[i], Viewed[wants[i].address])
  <2> DEFINE want == wants[i]
  <2>1. IsAccountCheck(want) /\ ~want.owner.star
    BY <1>1 DEF NoOwnerStar
  <2> HIDE DEF want
  <2>2. CASE want.address \in DOMAIN AcctMap
    <3>1. checkAccount(want) <=> Ledger!MeetsAccount(want, AcctView(AcctMap[want.address]))
      BY <2>1, <2>2, AccountIsMet
    <3> QED BY <1>2, <2>2, <3>1 DEF want
  <2>3. CASE want.address \notin DOMAIN AcctMap
    <3>1. ~checkAccount(want)
      BY <2>3 DEF checkAccount
    <3> QED BY <1>2, <2>3, <3>1 DEF want
  <2> QED BY <2>2, <2>3
<1>4. checkAccounts(check) <=>
        /\ check.more \/ \A a \in DOMAIN AcctMap \ {SystemAccount} : \E i \in DOMAIN wants : wants[i].address = a
        /\ \A i \in DOMAIN wants : checkAccount(wants[i])
  BY DEF checkAccounts
<1>5. Ledger!Meets(check) <=>
        /\ \A want \in {wants[i] : i \in DOMAIN wants} :
            want.address \in DOMAIN Viewed /\ Ledger!MeetsAccount(want, Viewed[want.address])
        /\ check.more \/ \A a \in DOMAIN Viewed : a = SystemAccount \/ \E i \in DOMAIN wants : wants[i].address = a
  BY DEF Ledger!Meets
<1> HIDE DEF wants
<1>6. (\A want \in {wants[i] : i \in DOMAIN wants} :
          want.address \in DOMAIN Viewed /\ Ledger!MeetsAccount(want, Viewed[want.address]))
      <=> \A i \in DOMAIN wants : checkAccount(wants[i])
  BY <1>3
<1> QED BY <1>2, <1>4, <1>5, <1>6

----------------------------------------------------------------------------
(* The ledger is implemented *)

\* What the ledger sees of a state.
LEMMA ViewedIs ==
    ASSUME KeysComeApart, LedgerInv
    PROVE  Viewed = MapView(AcctMap)
<1> DEFINE z == SysOf(AcctMap)
<1>1. KeysComeApart /\ AcctMap \in AccountMaps /\ CentralInv(AcctMap) /\ found = FoundData
  BY DEF LedgerInv, IInv
<1>2. z \in Storage0
  BY <1>1, SysOfType
<1>3. found = [a \in DOMAIN AcctMap |-> GetFullMockESDTData(AcctMap[a].Storage, z)]
  BY <1>1 DEF FoundData, FullData, SystemStorage, SysOf
<1>4. Viewed = [a \in DOMAIN AcctMap |-> ViewIn(AcctMap, found, a)]
  BY DEF Viewed, View, ViewIn, EntriesOf
<1> HIDE DEF z
<1> QED BY <1>1, <1>2, <1>3, <1>4, MapViewIs

\* And of the next one.
LEMMA NextViewedIs ==
    ASSUME KeysComeApart, LedgerInv'
    PROVE  Viewed' = MapView(AcctMap')
<1> DEFINE m == AcctMap'
           f == found'
           z == SysOf(m)
<1>1. KeysComeApart /\ m \in AccountMaps /\ CentralInv(m) /\ f = FoundData'
  BY DEF LedgerInv, IInv
<1>2. z \in Storage0
  BY <1>1, SysOfType
<1>3. f = [a \in DOMAIN m |-> GetFullMockESDTData(m[a].Storage, z)]
  BY <1>1 DEF FoundData, FullData, SystemStorage, SysOf
<1>4. Viewed' = [a \in DOMAIN m |-> ViewIn(m, f, a)]
  BY DEF Viewed, View, ViewIn, EntriesOf
<1> HIDE DEF z, m, f
<1>5. Viewed' = MapView(m)
  BY <1>1, <1>2, <1>3, <1>4, MapViewIs
<1> QED BY <1>5 DEF m

\* Initially there is nothing to see.
LEMMA LedgerStarts == LedgerInit => LedgerInv /\ Ledger!Init
<1> SUFFICES ASSUME LedgerInit PROVE LedgerInv /\ Ledger!Init
  OBVIOUS
<1>1. IInv /\ AcctMap = [a \in {} |-> NewAccount] /\ found = FoundData /\ checked = <<>> /\ verdict = "none"
  BY InitInvariant DEF LedgerInit, Init
<1>2. DOMAIN AcctMap = {} /\ SysOf(AcctMap) = NoStorage /\ DOMAIN NoStorage = {}
  BY <1>1 DEF SysOf, NoStorage
<1>3. CentralInv(AcctMap) /\ AttrsInv(AcctMap)
  BY <1>2 DEF CentralInv, AttrsInv, CentralSays
<1>4. Viewed = [a \in {} |-> 0]
  BY <1>2 DEF Viewed
<1> QED BY <1>1, <1>3, <1>4 DEF LedgerInv, Ledger!Init

\* Every step keeps the invariant, and is a step of the ledger or none.
LEMMA LedgerSteps ==
    ASSUME KeysComeApart, NoOwnerStar, LedgerInv, [Next /\ found' = FoundData']_<<vars, found>>
    PROVE  LedgerInv' /\ [Ledger!Next]_(Ledger!vars)
<1> DEFINE m == AcctMap
           y == AcctMap'
<1>1. m \in AccountMaps /\ CentralInv(m) /\ AttrsInv(m) /\ IInv /\ found = FoundData
  BY DEF LedgerInv, IInv
<1>2. Viewed = MapView(m)
  BY ViewedIs
<1>3. IInv'
  BY <1>1, NextInvariant DEF vars
<1>4. found' = FoundData'
  <2>1. CASE UNCHANGED <<vars, found>>
    BY <1>1, <2>1 DEF vars, FoundData, FullData, SystemStorage
  <2> QED BY <2>1
<1>5. ASSUME CentralInv(y), AttrsInv(y) PROVE LedgerInv' /\ Viewed' = MapView(y)
  <2>1. LedgerInv'
    BY <1>3, <1>4, <1>5 DEF LedgerInv
  <2> QED BY <2>1, NextViewedIs
<1> HIDE DEF m, y
<1>6. ASSUME y = m PROVE LedgerInv' /\ Viewed' = Viewed
  <2>1. CentralInv(y) /\ AttrsInv(y)
    BY <1>1, <1>6
  <2> QED BY <1>2, <1>5, <1>6, <2>1
<1>7. CASE UNCHANGED <<vars, found>>
  <2>1. y = m /\ checked' = checked /\ verdict' = verdict
    BY <1>7 DEF vars, y, m
  <2> QED BY <1>6, <2>1 DEF Ledger!vars
<1>8. ASSUME NEW a \in Holder, NEW spec \in AccountSpec, SetState(a, spec)
      PROVE  LedgerInv' /\ Ledger!SetState(a, spec)
  <2>1. y = WithAccount(m, a, convertAccount(spec))
    BY <1>8 DEF SetState, PutAccount, WithAccount, y, m
  <2>2. /\ CentralInv(y) /\ AttrsInv(y)
        /\ MapView(y) = WithAccount(MapView(m), a, Ledger!Holdings(spec))
    BY <1>1, <2>1, SetStateInLedger
  <2>3. LedgerInv' /\ Viewed' = MapView(y)
    BY <1>5, <2>2
  <2>4. Ledger!NotACheck
    BY <1>8 DEF SetState, NotACheck, Ledger!NotACheck
  <2> QED BY <1>2, <2>2, <2>3, <2>4 DEF Ledger!SetState, WithAccount
<1>9. ASSUME NEW a \in DOMAIN AcctMap \ {SystemAccount}, NEW t \in Token, NEW n \in Nonce, NEW v \in Amount,
             SetBalance(a, t, n, v)
      PROVE  LedgerInv' /\ Ledger!SetAmount(a, t, n, v)
  <2>1. /\ a \in DOMAIN m /\ a # SystemAccount /\ GetTokenBalance(t, n, m[a].Storage) > 0
        /\ y = Rebalanced(m, a, t, n, v)
    BY <1>9 DEF SetBalance, Rebalanced, y, m
  <2>2. CentralInv(y) /\ AttrsInv(y) /\ MapView(y) = Booked(MapView(m), a, t, n, v)
    BY <1>1, <2>1, SetBalanceInLedger
  <2>3. LedgerInv' /\ Viewed' = MapView(y)
    BY <1>5, <2>2
  <2>4. Ledger!NotACheck
    BY <1>9 DEF SetBalance, NotACheck, Ledger!NotACheck
  <2>5. Booked(Viewed, a, t, n, v) = [Viewed EXCEPT ![a].tokens[t].amount[n] = v]
    BY DEF Booked, WithAmount
  <2> QED BY <1>2, <2>2, <2>3, <2>4, <2>5 DEF Ledger!SetAmount
<1>10. ASSUME NEW from \in DOMAIN AcctMap \ {SystemAccount}, NEW to \in DOMAIN AcctMap \ {SystemAccount},
              NEW t \in Token, NEW n \in Nonce, NEW v \in Amount, Transfer(from, to, t, n, v)
       PROVE  LedgerInv' /\ \E appears \in SUBSET {SystemAccount} : Ledger!Transfer(from, to, t, n, v, appears)
  <2> DEFINE appears == IF n = 0 THEN {} ELSE {SystemAccount}
  <2>1. CanTransfer(m, from, to, t, n, v)
    <3>1. from # to /\ v > 0 /\ v <= Sent(m, from, t, n).value
      BY <1>10 DEF Transfer, Sent, SystemStorage, SysOf, m
    <3>2. v \in Nat
      BY AmountAssumption
    <3> QED BY <1>1, <1>10, <3>1, <3>2 DEF CanTransfer, m
  <2>2. y = AfterTransfer(m, from, to, t, n, v)
    BY <1>10 DEF Transfer, AfterTransfer, AfterMove, Stored, WithEntry, Remainder, Increased, Sent, Got,
                 Central, CentralStorage, MetaDataSent, SystemStorage, SysOf, y, m
  <2>3. /\ CentralInv(y) /\ AttrsInv(y) /\ v <= MapView(m)[from].tokens[t].amount[n]
        /\ MapView(y) = Paid(Present(MapView(m), appears), from, to, t, n, v)
    BY <2>1, <2>2, TransferInLedger
  <2> HIDE DEF appears
  <2>4. LedgerInv' /\ Viewed' = MapView(y)
    BY <1>5, <2>3
  <2>5. Ledger!NotACheck
    BY <1>10 DEF Transfer, NotACheck, Ledger!NotACheck
  <2>6. /\ v <= Viewed[from].tokens[t].amount[n]
        /\ Viewed' = Paid(Present(Viewed, appears), from, to, t, n, v)
    BY <1>2, <2>3, <2>4
  <2>7. Ledger!Transfer(from, to, t, n, v, appears)
    BY <2>5, <2>6 DEF Ledger!Transfer, Paid, Present, Bare
  <2>8. appears \in SUBSET {SystemAccount}
    BY DEF appears
  <2> QED BY <2>4, <2>7, <2>8
<1>11. ASSUME NEW check \in Check, ExecuteCheckStateStep(check)
       PROVE  LedgerInv' /\ Ledger!CheckState(check)
  <2>1. y = m /\ verdict = "none" /\ checked' = check /\ verdict' = IF checkAccounts(check) THEN "ok" ELSE "error"
    BY <1>11 DEF ExecuteCheckStateStep, y, m
  <2>2. LedgerInv' /\ Viewed' = Viewed
    BY <1>6, <2>1
  <2>3. checkAccounts(check) <=> Ledger!Meets(check)
    BY <1>1, <1>2, ChecksAreMet DEF m
  <2> QED BY <2>1, <2>2, <2>3 DEF Ledger!CheckState
<1>12. ASSUME Continue PROVE LedgerInv' /\ Ledger!Continue
  <2>1. y = m /\ verdict = "ok" /\ checked' = <<>> /\ verdict' = "none"
    BY <1>12 DEF Continue, y, m
  <2>2. LedgerInv' /\ Viewed' = Viewed
    BY <1>6, <2>1
  <2> QED BY <2>1, <2>2 DEF Ledger!Continue
<1>13. DOMAIN Viewed = DOMAIN AcctMap
  BY DEF Viewed
<1>14. CASE Next
  <2>1. CASE \E a \in Holder, spec \in AccountSpec : SetState(a, spec)
    BY <1>8, <2>1 DEF Ledger!Next
  <2>2. CASE \E a \in DOMAIN AcctMap \ {SystemAccount}, t \in Token, n \in Nonce, v \in Amount :
                SetBalance(a, t, n, v)
    BY <1>9, <1>13, <2>2 DEF Ledger!Next
  <2>3. CASE \E from, to \in DOMAIN AcctMap \ {SystemAccount}, t \in Token, n \in Nonce,
                v \in Amount : Transfer(from, to, t, n, v)
    BY <1>10, <1>13, <2>3 DEF Ledger!Next
  <2>4. CASE \E check \in Check : ExecuteCheckStateStep(check)
    BY <1>11, <2>4 DEF Ledger!Next
  <2>5. CASE Continue
    BY <1>12, <2>5 DEF Ledger!Next
  <2> QED BY <1>14, <2>1, <2>2, <2>3, <2>4, <2>5 DEF Next
<1> QED BY <1>7, <1>14

\* On the storage of accounts, the scenario steps do what the token ledger promises: setting,
\* changing and transferring tokens changes what an account is found to hold as it says and
\* nothing else, and a check passes if and only if what it says is so, "*" standing for any
\* value, if no check says "*" of an owner: with one, it would not be so.
THEOREM LedgerIsImplemented == KeysComeApart /\ NoOwnerStar /\ LedgerSpec => ImplementsTokenLedger
<1> SUFFICES ASSUME KeysComeApart, NoOwnerStar PROVE LedgerSpec => ImplementsTokenLedger
  OBVIOUS
<1>1. LedgerInit => LedgerInv /\ Ledger!Init
  BY LedgerStarts
<1>2. LedgerInv /\ [Next /\ found' = FoundData']_<<vars, found>> => LedgerInv' /\ [Ledger!Next]_(Ledger!vars)
  BY LedgerSteps
<1> QED BY <1>1, <1>2, PTL DEF LedgerSpec, ImplementsTokenLedger, Ledger!Spec
=============================================================================
