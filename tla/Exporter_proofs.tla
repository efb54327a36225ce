--------------------------- MODULE Exporter_proofs ---------------------------
(***************************************************************************)
(* Machine-checked proofs about Exporter, for any files that do not        *)
(* include each other deeper than MaxDepth: what an export collects is the *)
(* flattening of the files, and it ends as the files allow.                *)
(***************************************************************************)
EXTENDS Exporter, Sums_proofs

----------------------------------------------------------------------------
(* Sequences that are gathered step by step *)

\* What each of some steps has.
Parts(S, V) == [S -> Seq(V)]

\* The partial concatenations of what steps have.
Partial(g, V, steps, part) ==
    g \in [0..Len(steps) -> Seq(V)] /\ g[0] = <<>> /\ \A n \in 1..Len(steps) : g[n] = g[n - 1] \o part[steps[n]]

\* What steps have of something is again the last of partial concatenations.
LEMMA GatherPrefixes ==
    ASSUME NEW S, NEW V, NEW steps \in Seq(S), NEW part \in Parts(S, V)
    PROVE  \E g : Partial(g, V, steps, part)
<1> DEFINE L == Len(steps)
           X == Seq(V)
           step == [n \in Nat |-> [x \in X |-> IF n \in 1..L THEN x \o part[steps[n]] ELSE x]]
<1>1. L \in Nat /\ \A n \in 1..L : steps[n] \in S
  BY LenProperties, ElementOfSeq
<1> HIDE DEF L
<1>2. step \in [Nat -> [X -> X]]
  <2>1. ASSUME NEW n \in 1..L, NEW x \in X PROVE x \o part[steps[n]] \in X
    <3>1. part[steps[n]] \in Seq(V)
      BY <1>1 DEF Parts
    <3> QED BY <3>1, ConcatProperties
  <2> QED BY <2>1
<1>3. <<>> \in X
  BY EmptySeq
<1>4. \A n \in 1..L : \A x \in X : step[n][x] = x \o part[steps[n]]
  OBVIOUS
<1> HIDE DEF step, X
<1>5. PICK g : Iterates(g, X, <<>>, step, L)
  BY <1>1, <1>2, <1>3, RecursiveFunction
<1>6. g \in [0..L -> X] /\ g[0] = <<>> /\ \A n \in 1..L : g[n] = step[n][g[n - 1]]
  BY <1>5 DEF Iterates
<1>7. \A n \in 1..L : g[n - 1] \in X
  BY <1>1, <1>6
<1>8. \A n \in 1..L : g[n] = g[n - 1] \o part[steps[n]]
  BY <1>4, <1>6, <1>7
<1> QED BY <1>6, <1>8 DEF L, X, Partial

\* What is gathered is the last of its prefixes.
LEMMA GatherIsLast ==
    ASSUME NEW S, NEW V, NEW steps \in Seq(S), NEW part \in Parts(S, V), NEW g,
           Partial(g, V, steps, part)
    PROVE  Gather(steps, part) = g[Len(steps)]
<1> DEFINE seqs == [i \in DOMAIN steps |-> part[steps[i]]]
<1>1. DOMAIN steps = 1..Len(steps) /\ Len(steps) \in Nat
  BY LenProperties
<1>2. \A i \in 1..Len(steps) : part[steps[i]] \in Seq(V)
  BY ElementOfSeq DEF Parts
<1>3. seqs \in Seq(Seq(V)) /\ Len(seqs) = Len(steps)
  BY <1>1, <1>2
<1>4. /\ g \in [0..Len(seqs) -> Seq(V)] /\ g[0] = <<>>
      /\ \A n \in 1..Len(seqs) : g[n] = g[n - 1] \o seqs[n]
  BY <1>1, <1>3 DEF Partial
<1> HIDE DEF seqs
<1>5. FlattenSeq(seqs) = g[Len(seqs)]
  BY <1>3, <1>4, FlattenIsLast
<1> QED BY <1>3, <1>5 DEF Gather, seqs

\* What is gathered is a sequence.
LEMMA GatherType ==
    ASSUME NEW S, NEW V, NEW steps \in Seq(S), NEW part \in Parts(S, V)
    PROVE  Gather(steps, part) \in Seq(V)
<1>1. PICK g : Partial(g, V, steps, part)
  BY GatherPrefixes
<1>2. Gather(steps, part) = g[Len(steps)]
  BY <1>1, GatherIsLast
<1>3. Len(steps) \in Nat
  BY LenProperties
<1> QED BY <1>1, <1>2, <1>3 DEF Partial

\* Nothing is gathered from nothing.
LEMMA GatherEmpty ==
    ASSUME NEW part
    PROVE  Gather(<<>>, part) = <<>>
<1>1. [i \in DOMAIN <<>> |-> part[<<>>[i]]] = <<>>
  OBVIOUS
<1> QED BY <1>1 DEF Gather, FlattenSeq

\* One more step adds what it has.
LEMMA GatherAppend ==
    ASSUME NEW S, NEW V, NEW steps \in Seq(S), NEW s \in S, NEW part \in Parts(S, V)
    PROVE  Gather(Append(steps, s), part) = Gather(steps, part) \o part[s]
<1> DEFINE more == Append(steps, s)
           L == Len(steps)
<1>1. /\ more \in Seq(S) /\ Len(more) = L + 1 /\ L \in Nat
      /\ more[L + 1] = s /\ \A i \in 1..L : more[i] = steps[i]
  BY AppendProperties, LenProperties
<1> HIDE DEF more, L
<1>m. more \in Seq(S)
  BY <1>1
<1>2. PICK g : Partial(g, V, more, part)
  BY <1>m, GatherPrefixes
<1>3. Gather(more, part) = g[L + 1]
  <2>1. Gather(more, part) = g[Len(more)]
    BY <1>m, <1>2, GatherIsLast
  <2> QED BY <1>1, <2>1
<1>4. g[L + 1] = g[L] \o part[s]
  <2>1. L + 1 \in 1..Len(more) /\ (L + 1) - 1 = L
    BY <1>1
  <2> QED BY <1>1, <1>2, <2>1 DEF Partial
<1> DEFINE h == [n \in 0..L |-> g[n]]
<1>5. h \in [0..L -> Seq(V)] /\ h[0] = <<>> /\ h[L] = g[L]
  BY <1>1, <1>2 DEF Partial
<1>6. ASSUME NEW n \in 1..L PROVE h[n] = h[n - 1] \o part[steps[n]]
  <2>1. n \in 1..Len(more) /\ n - 1 \in 0..L /\ n \in 0..L
    BY <1>1
  <2>2. g[n] = g[n - 1] \o part[more[n]] /\ more[n] = steps[n]
    BY <1>1, <1>2, <2>1 DEF Partial
  <2> QED BY <2>1, <2>2
<1> HIDE DEF h
<1>7. Gather(steps, part) = h[L]
  <2>1. Partial(h, V, steps, part)
    BY <1>5, <1>6 DEF Partial, L
  <2> QED BY <2>1, GatherIsLast DEF L
<1> QED BY <1>3, <1>4, <1>5, <1>7 DEF more

\* What two sequences have together is what they have one after the other.
LEMMA GatherConcat ==
    ASSUME NEW S, NEW V, NEW a \in Seq(S), NEW part \in Parts(S, V), NEW b \in Seq(S)
    PROVE  Gather(a \o b, part) = Gather(a, part) \o Gather(b, part)
<1> DEFINE Adds(t) == Gather(a \o t, part) = Gather(a, part) \o Gather(t, part)
           T == {n \in Nat : \A t \in Seq(S) : Len(t) = n => Adds(t)}
<1>1. Gather(a, part) \in Seq(V)
  BY GatherType
<1>2. 0 \in T
  <2> SUFFICES ASSUME NEW t \in Seq(S), Len(t) = 0 PROVE Adds(t)
    OBVIOUS
  <2>1. t = <<>>
    BY EmptySeq
  <2>2. a \o <<>> = a
    BY ConcatEmptySeq
  <2>3. Gather(a, part) \o <<>> = Gather(a, part)
    BY <1>1, ConcatEmptySeq
  <2> QED BY <2>1, <2>2, <2>3, GatherEmpty
<1>3. ASSUME NEW n \in Nat, n \in T PROVE n + 1 \in T
  <2> SUFFICES ASSUME NEW t \in Seq(S), Len(t) = n + 1 PROVE Adds(t)
    OBVIOUS
  <2>1. t # <<>>
    BY EmptySeq
  <2>2. PICK c \in Seq(S), e \in S : t = Append(c, e)
    BY <2>1, SequenceEmptyOrAppend
  <2>3. Len(c) = n
    BY <2>2, AppendProperties, LenProperties
  <2>4. Adds(c)
    BY <1>3, <2>3
  <2>5. a \o t = Append(a \o c, e) /\ a \o c \in Seq(S)
    <3>1. t = c \o <<e>> /\ <<e>> \in Seq(S) /\ a \o c \in Seq(S)
      BY <2>2, AppendIsConcat, ConcatProperties
    <3>2. a \o (c \o <<e>>) = (a \o c) \o <<e>>
      BY <3>1, ConcatAssociative
    <3>3. (a \o c) \o <<e>> = Append(a \o c, e)
      BY <3>1, AppendIsConcat
    <3> QED BY <3>1, <3>2, <3>3
  <2>6. Gather(a \o t, part) = Gather(a \o c, part) \o part[e]
    <3>1. Gather(Append(a \o c, e), part) = Gather(a \o c, part) \o part[e]
      <4>1. \A x \in Seq(S) : Gather(Append(x, e), part) = Gather(x, part) \o part[e]
        BY GatherAppend
      <4> QED BY <2>5, <4>1
    <3> QED BY <2>5, <3>1
  <2>7. Gather(t, part) = Gather(c, part) \o part[e]
    BY <2>2, GatherAppend
  <2>8. Gather(c, part) \in Seq(V) /\ part[e] \in Seq(V)
    BY GatherType DEF Parts
  <2>9. (Gather(a, part) \o Gather(c, part)) \o part[e] = Gather(a, part) \o (Gather(c, part) \o part[e])
    <3>1. \A x, y, z \in Seq(V) : (x \o y) \o z = x \o (y \o z)
      BY ConcatAssociative
    <3> QED BY <1>1, <2>8, <3>1
  <2> QED BY <2>4, <2>6, <2>7, <2>9
<1> HIDE DEF T
<1>4. Nat \subseteq T
  BY <1>2, <1>3, NumbersBelow
<1>5. Len(b) \in Nat
  BY LenProperties
<1> QED BY <1>4, <1>5 DEF T

----------------------------------------------------------------------------
(* Files within files *)

\* What the files are made of.
LEMMA FileTypes ==
    ASSUME NEW files \in Library
    PROVE  /\ \A f \in File : files[f] \in Seq(StepsOf(files))
           /\ \A s \in StepsOf(files) : IsStep(s)
           /\ \A s \in StepsOf(files) : GoesInto(s) => s.path \in File
<1>1. files \in [File -> Seq(StepsOf(files))] /\ \A s \in StepsOf(files) : IsStep(s)
  BY LibraryAssumption
<1>2. \A s : IsStep(s) /\ GoesInto(s) => s.path \in File
  BY DEF IsStep, GoesInto
<1> QED BY <1>1, <1>2

\* A step of a file is one of all files.
LEMMA StepOfFile ==
    ASSUME NEW files \in Library, NEW f \in File, NEW s \in Range(files[f])
    PROVE  s \in StepsOf(files)
  BY DEF StepsOf

\* One level of Reaches: the file, and what is reached from the files it goes into.
FromHere(files, f, r) == {f} \union UNION {r[s.path] : s \in {x \in Range(files[f]) : GoesInto(x)}}

\* Nothing is reached in no depth; more depth adds what the files go into.
LEMMA ReachesDef ==
    ASSUME NEW files \in Library, NEW f \in File
    PROVE  /\ Reaches(files)[0][f] = {}
           /\ \A d \in 1..MaxDepth : Reaches(files)[d][f] = FromHere(files, f, Reaches(files)[d - 1])
<1> DEFINE R(r, d) == [x \in File |-> IF d = 0 THEN {} ELSE FromHere(files, x, r[d - 1])]
           Def(r) == r = [d \in 0..MaxDepth |-> R(r, d)]
           X == [File -> SUBSET File]
           none == [x \in File |-> {}]
           step == [n \in Nat |-> [r \in X |-> [x \in File |-> FromHere(files, x, r)]]]
<1>1. Reaches(files) = CHOOSE r : Def(r)
  BY DEF Reaches, FromHere
<1>2. MaxDepth \in Nat
  BY DepthAssumption
<1>3. step \in [Nat -> [X -> X]]
  <2>1. ASSUME NEW r \in X, NEW x \in File PROVE FromHere(files, x, r) \in SUBSET File
    <3>1. \A s \in Range(files[x]) : GoesInto(s) => s.path \in File
      BY FileTypes, StepOfFile
    <3> QED BY <3>1 DEF FromHere
  <2> QED BY <2>1
<1>4. none \in X
  OBVIOUS
<1>5. \A n \in Nat : \A r \in X : step[n][r] = [x \in File |-> FromHere(files, x, r)]
  OBVIOUS
<1>6. none = [x \in File |-> {}]
  OBVIOUS
<1> HIDE DEF step, X, none
<1>7. PICK g : Iterates(g, X, none, step, MaxDepth)
  BY <1>2, <1>3, <1>4, RecursiveFunction
<1>8. Def(g)
  <2>1. ASSUME NEW d \in 0..MaxDepth PROVE g[d] = R(g, d)
    <3>1. CASE d = 0
      BY <1>6, <1>7, <3>1 DEF Iterates
    <3>2. CASE d # 0
      <4>1. d \in 1..MaxDepth /\ d - 1 \in 0..MaxDepth /\ d \in Nat
        BY <1>2, <3>2
      <4>2. g[d] = step[d][g[d - 1]] /\ g[d - 1] \in X
        BY <1>7, <4>1 DEF Iterates
      <4>3. g[d] = [x \in File |-> FromHere(files, x, g[d - 1])]
        BY <1>5, <4>1, <4>2
      <4> QED BY <3>2, <4>3
    <3> QED BY <3>1, <3>2
  <2> HIDE DEF R
  <2>2. g \in [0..MaxDepth -> X]
    BY <1>7 DEF Iterates
  <2> QED BY <2>1, <2>2
<1>9. Def(Reaches(files))
  BY <1>1, <1>8
<1>10. ASSUME NEW d \in 0..MaxDepth PROVE Reaches(files)[d] = R(Reaches(files), d)
  <2> HIDE DEF R
  <2> QED BY <1>9
<1>11. Reaches(files)[0][f] = {}
  <2>1. 0 \in 0..MaxDepth
    BY <1>2
  <2>2. Reaches(files)[0] = R(Reaches(files), 0)
    BY <1>10, <2>1
  <2> QED BY <2>2
<1>12. ASSUME NEW d \in 1..MaxDepth
       PROVE  Reaches(files)[d][f] = FromHere(files, f, Reaches(files)[d - 1])
  <2>1. d \in 0..MaxDepth /\ d # 0
    BY <1>2
  <2> QED BY <1>10, <2>1
<1> QED BY <1>11, <1>12

\* What a step is replaced by in files that are unfolded d deep.
Unfolding(files, d) ==
    [s \in StepsOf(files) |-> IF GoesInto(s) THEN Unfolded(files)[d - 1][s.path] ELSE <<s>>]

\* A file is unfolded by gathering what its steps are replaced by.
LEMMA UnfoldedDef ==
    ASSUME NEW files \in Library
    PROVE  /\ \A d \in 0..MaxDepth : \A f \in File : Unfolded(files)[d][f] \in Seq(StepsOf(files))
           /\ \A d \in 1..MaxDepth : /\ Unfolding(files, d) \in Parts(StepsOf(files), StepsOf(files))
                                     /\ \A f \in File : Unfolded(files)[d][f] = Gather(files[f], Unfolding(files, d))
<1> DEFINE S == StepsOf(files)
           P(r) == [s \in S |-> IF GoesInto(s) THEN r[s.path] ELSE <<s>>]
           R(r, d) == [f \in File |-> IF d = 0 THEN <<>> ELSE Gather(files[f], P(r[d - 1]))]
           Def(r) == r = [d \in 0..MaxDepth |-> R(r, d)]
           X == [File -> Seq(S)]
           none == [f \in File |-> <<>>]
           step == [n \in Nat |-> [r \in X |-> [f \in File |-> Gather(files[f], P(r))]]]
           U == Unfolded(files)
<1>1. U = CHOOSE r : Def(r)
  BY DEF Unfolded
<1>2. MaxDepth \in Nat
  BY DepthAssumption
<1>3. ASSUME NEW r \in X PROVE P(r) \in Parts(S, S)
  <2>1. ASSUME NEW s \in S PROVE P(r)[s] \in Seq(S)
    <3>1. GoesInto(s) => s.path \in File
      BY FileTypes
    <3>2. <<s>> \in Seq(S)
      OBVIOUS
    <3> QED BY <3>1, <3>2
  <2> QED BY <2>1 DEF Parts
<1>4. step \in [Nat -> [X -> X]]
  <2>1. ASSUME NEW r \in X, NEW f \in File PROVE Gather(files[f], P(r)) \in Seq(S)
    <3>1. P(r) \in Parts(S, S) /\ files[f] \in Seq(S)
      BY <1>3, FileTypes
    <3> HIDE DEF P
    <3> QED BY <3>1, GatherType
  <2> HIDE DEF P
  <2> QED BY <2>1
<1>5. none \in X /\ none = [f \in File |-> <<>>]
  BY EmptySeq
<1>6. \A n \in Nat : \A r \in X : step[n][r] = [f \in File |-> Gather(files[f], P(r))]
  OBVIOUS
<1> HIDE DEF step, none
<1>7. PICK g : Iterates(g, X, none, step, MaxDepth)
  <2> HIDE DEF X
  <2> QED BY <1>2, <1>4, <1>5, RecursiveFunction
<1>8. Def(g)
  <2>1. ASSUME NEW d \in 0..MaxDepth PROVE g[d] = R(g, d)
    <3> HIDE DEF P, X
    <3>1. CASE d = 0
      BY <1>5, <1>7, <3>1 DEF Iterates
    <3>2. CASE d # 0
      <4>1. d \in 1..MaxDepth /\ d - 1 \in 0..MaxDepth /\ d \in Nat
        BY <1>2, <3>2
      <4>2. g[d] = step[d][g[d - 1]] /\ g[d - 1] \in X
        BY <1>7, <4>1 DEF Iterates
      <4>3. g[d] = [f \in File |-> Gather(files[f], P(g[d - 1]))]
        BY <1>6, <4>1, <4>2
      <4> QED BY <3>2, <4>3
    <3> QED BY <3>1, <3>2
  <2> HIDE DEF R
  <2>2. g \in [0..MaxDepth -> X]
    BY <1>7 DEF Iterates
  <2> QED BY <2>1, <2>2
<1>9. Def(U)
  <2> HIDE DEF U
  <2> QED BY <1>1, <1>8
<1> HIDE DEF U
<1>10. ASSUME NEW d \in 0..MaxDepth PROVE U[d] = R(U, d)
  <2> HIDE DEF R
  <2> QED BY <1>9
<1> DEFINE T == {n \in Nat : n \in 0..MaxDepth => U[n] \in X}
<1>11. 0 \in T
  <2>1. U[0] = none
    BY <1>2, <1>5, <1>10
  <2> QED BY <1>5, <2>1
<1>12. ASSUME NEW n \in Nat, n \in T PROVE n + 1 \in T
  <2> SUFFICES ASSUME n + 1 \in 0..MaxDepth PROVE U[n + 1] \in X
    OBVIOUS
  <2>1. n \in 0..MaxDepth /\ n + 1 # 0 /\ (n + 1) - 1 = n
    BY <1>2
  <2>2. U[n] \in X
    BY <1>12, <2>1
  <2> HIDE DEF P, X
  <2>3. U[n + 1] = [f \in File |-> Gather(files[f], P(U[n]))]
    BY <1>10, <2>1
  <2>4. U[n + 1] = step[n][U[n]]
    BY <1>6, <2>2, <2>3
  <2> QED BY <1>4, <2>2, <2>4
<1> HIDE DEF T
<1>13. Nat \subseteq T
  BY <1>11, <1>12, NumbersBelow
<1>14. \A d \in 0..MaxDepth : U[d] \in X
  BY <1>2, <1>13 DEF T
<1>15. ASSUME NEW d \in 1..MaxDepth
       PROVE  /\ Unfolding(files, d) = P(U[d - 1]) /\ U[d - 1] \in X
              /\ \A f \in File : U[d][f] = Gather(files[f], P(U[d - 1]))
  <2>1. d - 1 \in 0..MaxDepth /\ d \in 0..MaxDepth /\ d # 0
    BY <1>2
  <2>2. U[d] = R(U, d)
    BY <1>10, <2>1
  <2>3. Unfolding(files, d) = P(U[d - 1])
    BY DEF Unfolding, U
  <2> HIDE DEF P, X
  <2> QED BY <1>14, <2>1, <2>2, <2>3
<1> QED BY <1>3, <1>14, <1>15 DEF U

----------------------------------------------------------------------------
(* The inductive invariant *)

\* The first n steps of a file, unfolded.
Before(files, f, n, d) == Gather(SubSeq(files[f], 1, n), Unfolding(files, d))

\* What is to be exported of steps.
Calls(files, steps) == Gather(steps, Successful(files, {"scCall", "scUpgrade"}))
Deployments(files, steps) == Gather(steps, Successful(files, {"scDeploy"}))
AccountsOf(files) == UNION {Range(AccountsSet(files)[s]) : s \in StepsOf(files)}
MocksOf(files) == UNION {Range(MocksSet(files)[s]) : s \in StepsOf(files)}

\* What is exported of a step, an account and a mock.
CallMade(files) ==
    [s \in {x \in StepsOf(files) : x.kind = "tx" /\ x.to # Unnamed} |->
        IF s.type = "scCall" THEN CreateTransaction(s) ELSE CreateUpgradeTransaction(s)]
DeploymentMade(files) == [s \in {x \in StepsOf(files) : x.kind = "tx"} |-> CreateDeployTransaction(s)]
AccountMade(files) == [a \in AccountsOf(files) |-> TestAccount(a)]
MockMade(files) == [m \in {x \in MocksOf(files) : x.address # Unnamed} |-> DeployedAccount(m)]

\* out is what made gives for each element of in.
Made(out, in, made) ==
    Len(out) = Len(in) /\ \A i \in 1..Len(in) : in[i] \in DOMAIN made /\ out[i] = made[in[i]]

\* The results that can be collected, and the calls with them.
Infos(files) ==
    [Accs : Seq(Range(AccountMade(files))), DeployedAccs : Seq(Range(MockMade(files))),
     Txs : Seq(Range(CallMade(files))), DeployTxs : Seq(Range(DeploymentMade(files))),
     BenchmarkTxPos : Nat \union {InvalidBenchmarkTxPos}]

Frames(files) == [steps : Seq(StepsOf(files)), i : Nat \ {0}, info : Infos(files)]

\* Everything that was to be exported of some steps, and nothing else.
Collected(files, info, steps) ==
    /\ Made(info.Txs, Calls(files, steps), CallMade(files))
    /\ Made(info.DeployTxs, Deployments(files, steps), DeploymentMade(files))
    /\ Made(info.Accs, Gather(steps, AccountsSet(files)), AccountMade(files))
    /\ Made(info.DeployedAccs, Gather(steps, MocksSet(files)), MockMade(files))

\* The transactions to measure.
MarkedIn(txs) == {i \in 1..Len(txs) : txs[i].ident = "benchmark"}

FirstMarked(pos, txs) ==
    pos # InvalidBenchmarkTxPos => pos + 1 \in MarkedIn(txs) /\ \A i \in MarkedIn(txs) : pos + 1 <= i

\* The position is set if there is something to measure, and right if no step
\* is shifted.
Positioned(files, info, steps) ==
    LET txs == Calls(files, steps)
    IN  /\ info.BenchmarkTxPos = InvalidBenchmarkTxPos <=> MarkedIn(txs) = {}
        /\ TxsFollowExternals(files) => FirstMarked(info.BenchmarkTxPos, txs)

\* The step ends no export.
Passes(s) ==
    /\ s.kind = "setState" =>
          /\ \A a \in Range(s.accounts) : a.code => a.owner
          /\ \A m \in Range(s.mocks) : m.address # Unnamed
    /\ s.kind = "externalSteps" => s.path # Missing
    /\ s.kind = "tx" =>
          /\ s.status \notin {"star", "none"}
          /\ s.status = "ok" /\ s.type # "scQuery" =>
                (s.type # "scDeploy" => s.to # Unnamed) /\ (s.type # "scCall" => s.codeFile)

Exportable(steps) == ~Unexportable(steps) /\ ~Lacks(steps)

\* The first n steps of a file, and all files they go into, can be exported.
PassesSoFar(files, f, n, d) ==
    \A j \in 1..n :
        /\ Passes(files[f][j])
        /\ GoesInto(files[f][j]) =>
              \A g \in Reaches(files)[d - 1][files[f][j].path] : Exportable(files[g])

BeginsWell(steps) == Len(steps) > 0 /\ steps[1].kind \in {"setState", "externalSteps"}

\* How many steps were cut out, and how many were passed, those included.
Cut(files, frame, f) == Len(files[f]) - Len(frame.steps)
Passed(files, frame, f) == Cut(files, frame, f) + frame.i - 1

\* What is left of the steps of a frame is what is left of its file.
InPlace(files, frame, f) ==
    /\ Len(frame.steps) <= Len(files[f])
    /\ frame.i <= Len(frame.steps) + 1
    /\ \A j \in frame.i..Len(frame.steps) : frame.steps[j] = files[f][j + Cut(files, frame, f)]
    /\ frame.i = 1 => Cut(files, frame, f) = 0
    /\ frame.i > 1 => BeginsWell(files[f])

\* No transaction was collected before the first step that has any.
NoTxYet(files, info, f, n) ==
    (\A j \in 1..n : files[f][j].kind \notin {"tx", "externalSteps"}) => info.Txs = <<>>

\* A call for file f, d deep, and what it has passed.
FrameInv(files, frame, f, d) ==
    LET n == Passed(files, frame, f)
    IN  /\ InPlace(files, frame, f)
        /\ PassesSoFar(files, f, n, d)
        /\ Collected(files, frame.info, Before(files, f, n, d))
        /\ Positioned(files, frame.info, Before(files, f, n, d))
        /\ NoTxYet(files, frame.info, f, n)
        /\ f \in File
        /\ Reaches(files)[d][f] \subseteq Reaches(files)[MaxDepth][Root]

\* The frame is at a step that goes into another file.
Waits(frame) == frame.i <= Len(frame.steps) /\ GoesInto(frame.steps[frame.i])

\* The file the k-th call is for.
FileOf(frames, k) == IF k = 1 THEN Root ELSE frames[k - 1].steps[frames[k - 1].i].path

\* Each call is for the file its caller waits for.
StackInv(files, frames) ==
    /\ frames \in Seq(Frames(files)) /\ Len(frames) \in 1..MaxDepth
    /\ \A k \in 1..Len(frames) : FrameInv(files, frames[k], FileOf(frames, k), MaxDepth - k + 1)
    /\ \A k \in 1..(Len(frames) - 1) : Waits(frames[k])

\* How an export may end, given the files it went into.
EndsRightly(files, p) ==
    LET reached == Reaches(files)[MaxDepth][Root]
    IN  /\ p = "done" => \A f \in reached : Exportable(files[f])
        /\ p = "crashed" => \E f \in reached : Lacks(files[f])
        /\ p = "invalid" => \E f \in reached : Unexportable(files[f])

\* All steps of all files were exported.
Complete(files, info) ==
    LET all == Unfolded(files)[MaxDepth][Root]
    IN  info \in Infos(files) /\ Collected(files, info, all) /\ Positioned(files, info, all)

\* The inductive invariant.
IInv ==
    /\ lib \in Library
    /\ pc = "running" => StackInv(lib, stack)
    /\ pc = "done" => Complete(lib, result)
    /\ EndsRightly(lib, pc)

\* What is gathered of every step are sequences.
LEMMA PartTypes ==
    ASSUME NEW files \in Library
    PROVE  /\ \A types : Successful(files, types) \in Parts(StepsOf(files), StepsOf(files))
           /\ AccountsSet(files) \in Parts(StepsOf(files), AccountsOf(files))
           /\ MocksSet(files) \in Parts(StepsOf(files), MocksOf(files))
<1> DEFINE S == StepsOf(files)
<1>1. ASSUME NEW s \in S, s.kind = "setState"
      PROVE  s.accounts \in Seq(Range(s.accounts)) /\ s.mocks \in Seq(Range(s.mocks))
  BY <1>1, FileTypes DEF IsStep
<1>2. ASSUME NEW s \in S
      PROVE  AccountsSet(files)[s] \in Seq(AccountsOf(files)) /\ MocksSet(files)[s] \in Seq(MocksOf(files))
  <2>1. CASE s.kind = "setState"
    <3>1. AccountsSet(files)[s] = s.accounts /\ MocksSet(files)[s] = s.mocks
      BY <2>1 DEF AccountsSet, MocksSet
    <3>2. Range(s.accounts) \subseteq AccountsOf(files) /\ Range(s.mocks) \subseteq MocksOf(files)
      BY <3>1 DEF AccountsOf, MocksOf
    <3> QED BY <1>1, <2>1, <3>1, <3>2, SeqMonotonic
  <2>2. CASE s.kind # "setState"
    BY <2>2, EmptySeq DEF AccountsSet, MocksSet
  <2> QED BY <2>1, <2>2
<1>3. ASSUME NEW types, NEW s \in S PROVE Successful(files, types)[s] \in Seq(S)
  <2>1. <<s>> \in Seq(S) /\ <<>> \in Seq(S)
    OBVIOUS
  <2>2. Successful(files, types)[s] \in {<<s>>, <<>>}
    BY DEF Successful
  <2> QED BY <2>1, <2>2
<1>4. \A types : Successful(files, types) = [s \in S |-> Successful(files, types)[s]]
  BY DEF Successful
<1>5. /\ AccountsSet(files) = [s \in S |-> AccountsSet(files)[s]]
      /\ MocksSet(files) = [s \in S |-> MocksSet(files)[s]]
  BY DEF AccountsSet, MocksSet
<1> QED BY <1>2, <1>3, <1>4, <1>5 DEF Parts

\* What is gathered of one step is what it has.
LEMMA GatherOne ==
    ASSUME NEW S, NEW V, NEW s \in S, NEW part \in Parts(S, V)
    PROVE  Gather(<<s>>, part) = part[s]
<1>1. <<>> \in Seq(S) /\ Append(<<>>, s) = <<s>> /\ part[s] \in Seq(V)
  BY EmptySeq DEF Parts
<1>2. Gather(Append(<<>>, s), part) = Gather(<<>>, part) \o part[s]
  <2>1. \A x \in Seq(S) : Gather(Append(x, s), part) = Gather(x, part) \o part[s]
    BY GatherAppend
  <2> QED BY <1>1, <2>1
<1>3. <<>> \o part[s] = part[s]
  BY <1>1, ConcatEmptySeq
<1> QED BY <1>1, <1>2, <1>3, GatherEmpty

\* What is made of two sequences is what is made of each.
LEMMA MadeConcat ==
    ASSUME NEW A, NEW B, NEW in \in Seq(A), NEW in2 \in Seq(A), NEW out \in Seq(B), NEW out2 \in Seq(B),
           NEW made, Made(out, in, made), Made(out2, in2, made)
    PROVE  Made(out \o out2, in \o in2, made)
<1>1. /\ Len(in \o in2) = Len(in) + Len(in2) /\ Len(out \o out2) = Len(out) + Len(out2)
      /\ Len(in) \in Nat /\ Len(in2) \in Nat /\ Len(out) = Len(in) /\ Len(out2) = Len(in2)
  BY ConcatProperties, LenProperties DEF Made
<1>2. ASSUME NEW i \in 1..(Len(in) + Len(in2))
      PROVE  (in \o in2)[i] \in DOMAIN made /\ (out \o out2)[i] = made[(in \o in2)[i]]
  <2>1. /\ (in \o in2)[i] = IF i <= Len(in) THEN in[i] ELSE in2[i - Len(in)]
        /\ (out \o out2)[i] = IF i <= Len(in) THEN out[i] ELSE out2[i - Len(in)]
    BY <1>1, ConcatProperties
  <2>2. CASE i <= Len(in)
    BY <1>1, <2>1, <2>2 DEF Made
  <2>3. CASE ~(i <= Len(in))
    <3>1. i - Len(in) \in 1..Len(in2)
      BY <1>1, <2>3
    <3> QED BY <1>1, <2>1, <2>3, <3>1 DEF Made
  <2> QED BY <2>2, <2>3
<1> QED BY <1>1, <1>2 DEF Made

\* Lists are put together as they are merged, whatever becomes of the position.
Joins(info, ext, all) ==
    /\ all.Txs = info.Txs \o ext.Txs /\ all.DeployTxs = info.DeployTxs \o ext.DeployTxs
    /\ all.Accs = info.Accs \o ext.Accs /\ all.DeployedAccs = info.DeployedAccs \o ext.DeployedAccs

\* What is collected of two sequences of steps is what is collected of each.
LEMMA CollectedConcat ==
    ASSUME NEW files \in Library, NEW a \in Seq(StepsOf(files)), NEW b \in Seq(StepsOf(files)),
           NEW info \in Infos(files), NEW ext \in Infos(files), NEW all,
           Collected(files, info, a), Collected(files, ext, b), Joins(info, ext, all)
    PROVE  Collected(files, all, a \o b)
<1> DEFINE S == StepsOf(files)
<1>1. ASSUME NEW V, NEW part \in Parts(S, V), NEW W, NEW out \in Seq(W), NEW out2 \in Seq(W), NEW made,
             Made(out, Gather(a, part), made), Made(out2, Gather(b, part), made)
      PROVE  Made(out \o out2, Gather(a \o b, part), made)
  <2>1. Gather(a, part) \in Seq(V) /\ Gather(b, part) \in Seq(V)
    BY GatherType
  <2>2. Gather(a \o b, part) = Gather(a, part) \o Gather(b, part)
    BY GatherConcat
  <2>3. Made(out \o out2, Gather(a, part) \o Gather(b, part), made)
    BY <1>1, <2>1, MadeConcat
  <2> QED BY <2>2, <2>3
<1>2. /\ \A x \in {info, ext} : /\ x.Accs \in Seq(Range(AccountMade(files)))
                                /\ x.DeployedAccs \in Seq(Range(MockMade(files)))
                                /\ x.Txs \in Seq(Range(CallMade(files)))
                                /\ x.DeployTxs \in Seq(Range(DeploymentMade(files)))
  BY DEF Infos
<1>3. Made(all.Txs, Calls(files, a \o b), CallMade(files))
  BY <1>1, <1>2, PartTypes DEF Collected, Calls, Joins
<1>4. Made(all.DeployTxs, Deployments(files, a \o b), DeploymentMade(files))
  BY <1>1, <1>2, PartTypes DEF Collected, Deployments, Joins
<1>5. Made(all.Accs, Gather(a \o b, AccountsSet(files)), AccountMade(files))
  BY <1>1, <1>2, PartTypes DEF Collected, Joins
<1>6. Made(all.DeployedAccs, Gather(a \o b, MocksSet(files)), MockMade(files))
  BY <1>1, <1>2, PartTypes DEF Collected, Joins
<1> QED BY <1>3, <1>4, <1>5, <1>6 DEF Collected

\* The marked transactions of two sequences.
LEMMA MarkedConcat ==
    ASSUME NEW S, NEW A \in Seq(S), NEW B \in Seq(S)
    PROVE  /\ \A i \in MarkedIn(A) : i \in MarkedIn(A \o B)
           /\ \A i \in MarkedIn(B) : i + Len(A) \in MarkedIn(A \o B)
           /\ \A i \in MarkedIn(A \o B) : i \in MarkedIn(A) \/ (i > Len(A) /\ i - Len(A) \in MarkedIn(B))
<1>1. /\ Len(A) \in Nat /\ Len(B) \in Nat /\ Len(A \o B) = Len(A) + Len(B)
      /\ \A i \in 1..(Len(A) + Len(B)) : (A \o B)[i] = IF i <= Len(A) THEN A[i] ELSE B[i - Len(A)]
  BY ConcatProperties, LenProperties
<1>2. ASSUME NEW i \in MarkedIn(A) PROVE i \in MarkedIn(A \o B)
  BY <1>1 DEF MarkedIn
<1>3. ASSUME NEW i \in MarkedIn(B) PROVE i + Len(A) \in MarkedIn(A \o B)
  <2>1. i \in 1..Len(B) /\ B[i].ident = "benchmark"
    BY DEF MarkedIn
  <2>2. i + Len(A) \in 1..(Len(A) + Len(B)) /\ ~(i + Len(A) <= Len(A)) /\ (i + Len(A)) - Len(A) = i
    BY <1>1, <2>1
  <2>3. (A \o B)[i + Len(A)] = B[i]
    BY <1>1, <2>2
  <2> QED BY <1>1, <2>1, <2>2, <2>3 DEF MarkedIn
<1>4. ASSUME NEW i \in MarkedIn(A \o B)
      PROVE  i \in MarkedIn(A) \/ (i > Len(A) /\ i - Len(A) \in MarkedIn(B))
  <2>1. i \in 1..(Len(A) + Len(B)) /\ (A \o B)[i].ident = "benchmark"
    BY <1>1 DEF MarkedIn
  <2>2. CASE i <= Len(A)
    BY <1>1, <2>1, <2>2 DEF MarkedIn
  <2>3. CASE ~(i <= Len(A))
    <3>1. i > Len(A) /\ i - Len(A) \in 1..Len(B) /\ (A \o B)[i] = B[i - Len(A)]
      BY <1>1, <2>1, <2>3
    <3> QED BY <2>1, <3>1 DEF MarkedIn
  <2> QED BY <2>2, <2>3
<1> QED BY <1>2, <1>3, <1>4

\* The first mark of two sequences is that of the first which has one.
FirstOf(p, q, shift) ==
    IF p # InvalidBenchmarkTxPos THEN p
    ELSE IF q = InvalidBenchmarkTxPos THEN InvalidBenchmarkTxPos ELSE shift + q

\* It is set if one of them has a mark, and right if it is shifted by the first.
LEMMA FirstOfConcat ==
    ASSUME NEW S, NEW A \in Seq(S), NEW B \in Seq(S), NEW shift \in Nat,
           NEW p \in Nat \union {InvalidBenchmarkTxPos}, NEW q \in Nat \union {InvalidBenchmarkTxPos},
           p = InvalidBenchmarkTxPos <=> MarkedIn(A) = {},
           q = InvalidBenchmarkTxPos <=> MarkedIn(B) = {}
    PROVE  /\ FirstOf(p, q, shift) = InvalidBenchmarkTxPos <=> MarkedIn(A \o B) = {}
           /\ FirstMarked(p, A) /\ FirstMarked(q, B)
                /\ (p = InvalidBenchmarkTxPos /\ q # InvalidBenchmarkTxPos => shift = Len(A))
              => FirstMarked(FirstOf(p, q, shift), A \o B)
<1> DEFINE r == FirstOf(p, q, shift)
<1>1. Len(A) \in Nat
  BY LenProperties
<1>2. /\ \A i \in MarkedIn(A) : i \in MarkedIn(A \o B)
      /\ \A i \in MarkedIn(B) : i + Len(A) \in MarkedIn(A \o B)
      /\ \A i \in MarkedIn(A \o B) : i \in MarkedIn(A) \/ (i > Len(A) /\ i - Len(A) \in MarkedIn(B))
  BY MarkedConcat
<1>3. /\ \A i \in MarkedIn(A) : i \in Nat /\ i <= Len(A)
      /\ \A i \in MarkedIn(B) : i \in Nat
      /\ \A i \in MarkedIn(A \o B) : i \in Nat
  BY <1>1 DEF MarkedIn
<1>4. r = InvalidBenchmarkTxPos <=> MarkedIn(A \o B) = {}
  <2>1. r = InvalidBenchmarkTxPos <=> p = InvalidBenchmarkTxPos /\ q = InvalidBenchmarkTxPos
    BY DEF FirstOf, InvalidBenchmarkTxPos
  <2>2. MarkedIn(A \o B) = {} <=> MarkedIn(A) = {} /\ MarkedIn(B) = {}
    BY <1>2
  <2> QED BY <2>1, <2>2
<1>5. ASSUME FirstMarked(p, A), FirstMarked(q, B),
             p = InvalidBenchmarkTxPos /\ q # InvalidBenchmarkTxPos => shift = Len(A)
      PROVE  FirstMarked(r, A \o B)
  <2>1. CASE p # InvalidBenchmarkTxPos
    <3>1. r = p /\ p + 1 \in MarkedIn(A) /\ \A i \in MarkedIn(A) : p + 1 <= i
      BY <1>5, <2>1 DEF FirstMarked, FirstOf
    <3>2. ASSUME NEW i \in MarkedIn(A \o B) PROVE p + 1 <= i
      <4>1. CASE i \in MarkedIn(A)
        BY <3>1, <4>1
      <4>2. CASE i > Len(A)
        BY <1>1, <1>3, <3>1, <4>2
      <4> QED BY <1>2, <4>1, <4>2
    <3> QED BY <1>2, <3>1, <3>2 DEF FirstMarked
  <2>2. CASE p = InvalidBenchmarkTxPos /\ q # InvalidBenchmarkTxPos
    <3>1. r = Len(A) + q /\ q + 1 \in MarkedIn(B) /\ \A i \in MarkedIn(B) : q + 1 <= i
      BY <1>5, <2>2 DEF FirstMarked, FirstOf
    <3>2. (q + 1) + Len(A) \in MarkedIn(A \o B) /\ q \in Nat
      BY <1>2, <2>2, <3>1
    <3>3. (q + 1) + Len(A) = r + 1
      BY <1>1, <3>1, <3>2
    <3>4. MarkedIn(A) = {}
      BY <2>2
    <3>5. ASSUME NEW i \in MarkedIn(A \o B) PROVE r + 1 <= i
      <4>1. i - Len(A) \in MarkedIn(B) /\ i \in Nat
        BY <1>2, <1>3, <3>4
      <4>2. q + 1 <= i - Len(A)
        BY <3>1, <4>1
      <4> QED BY <1>1, <3>1, <3>2, <4>1, <4>2
    <3> QED BY <3>2, <3>3, <3>5 DEF FirstMarked
  <2>3. CASE p = InvalidBenchmarkTxPos /\ q = InvalidBenchmarkTxPos
    BY <2>3 DEF FirstMarked, FirstOf
  <2> QED BY <2>1, <2>2, <2>3
<1> QED BY <1>4, <1>5

\* The same of what is exported of steps.
LEMMA PositionedConcat ==
    ASSUME NEW files \in Library, NEW a \in Seq(StepsOf(files)), NEW b \in Seq(StepsOf(files)),
           NEW info \in Infos(files), NEW ext \in Infos(files), NEW all, NEW shift \in Nat,
           Positioned(files, info, a), Positioned(files, ext, b),
           all.BenchmarkTxPos = FirstOf(info.BenchmarkTxPos, ext.BenchmarkTxPos, shift),
           TxsFollowExternals(files) /\ info.BenchmarkTxPos = InvalidBenchmarkTxPos
              /\ ext.BenchmarkTxPos # InvalidBenchmarkTxPos => shift = Len(Calls(files, a))
    PROVE  Positioned(files, all, a \o b)
<1> DEFINE S == StepsOf(files)
           p == info.BenchmarkTxPos
           q == ext.BenchmarkTxPos
<1>1. Successful(files, {"scCall", "scUpgrade"}) \in Parts(S, S)
  BY PartTypes
<1>2. Calls(files, a) \in Seq(S) /\ Calls(files, b) \in Seq(S)
  BY <1>1, GatherType DEF Calls
<1>3. Calls(files, a \o b) = Calls(files, a) \o Calls(files, b)
  BY <1>1, GatherConcat DEF Calls
<1>4. p \in Nat \union {InvalidBenchmarkTxPos} /\ q \in Nat \union {InvalidBenchmarkTxPos}
  BY DEF Infos
<1>5. /\ p = InvalidBenchmarkTxPos <=> MarkedIn(Calls(files, a)) = {}
      /\ q = InvalidBenchmarkTxPos <=> MarkedIn(Calls(files, b)) = {}
  BY DEF Positioned
<1>6. /\ FirstOf(p, q, shift) = InvalidBenchmarkTxPos <=> MarkedIn(Calls(files, a) \o Calls(files, b)) = {}
      /\ FirstMarked(p, Calls(files, a)) /\ FirstMarked(q, Calls(files, b))
           /\ (p = InvalidBenchmarkTxPos /\ q # InvalidBenchmarkTxPos => shift = Len(Calls(files, a)))
         => FirstMarked(FirstOf(p, q, shift), Calls(files, a) \o Calls(files, b))
  <2> HIDE DEF p, q, S
  <2> QED BY <1>2, <1>4, <1>5, FirstOfConcat
<1> QED BY <1>3, <1>6 DEF Positioned

----------------------------------------------------------------------------
(* What one step leaves *)

IsGoodTx(s, types) == s.kind = "tx" /\ s.status = "ok" /\ s.type \in types
IsCall(s) == IsGoodTx(s, {"scCall", "scUpgrade"})
IsDeployment(s) == IsGoodTx(s, {"scDeploy"})

CallOf(s) == IF s.type = "scCall" THEN CreateTransaction(s) ELSE CreateUpgradeTransaction(s)

\* A step on its own.
Yield(s) ==
    [Accs |-> IF s.kind = "setState" THEN [i \in DOMAIN s.accounts |-> TestAccount(s.accounts[i])] ELSE <<>>,
     DeployedAccs |-> IF s.kind = "setState" THEN [i \in DOMAIN s.mocks |-> DeployedAccount(s.mocks[i])]
                      ELSE <<>>,
     Txs |-> IF IsCall(s) THEN <<CallOf(s)>> ELSE <<>>,
     DeployTxs |-> IF IsDeployment(s) THEN <<CreateDeployTransaction(s)>> ELSE <<>>,
     BenchmarkTxPos |-> IF IsCall(s) /\ s.ident = "benchmark" THEN 0 ELSE InvalidBenchmarkTxPos]

\* A list made element by element is one of what can be made.
LEMMA MadeOfList ==
    ASSUME NEW V, NEW list \in Seq(V), NEW made, \A i \in 1..Len(list) : list[i] \in DOMAIN made,
           NEW out, out = [i \in DOMAIN list |-> made[list[i]]]
    PROVE  out \in Seq(Range(made)) /\ Made(out, list, made)
<1>1. Len(list) \in Nat /\ DOMAIN list = 1..Len(list)
  BY LenProperties
<1>2. \A i \in 1..Len(list) : made[list[i]] \in Range(made)
  BY DEF Range
<1>3. out \in Seq(Range(made)) /\ Len(out) = Len(list)
  BY <1>1, <1>2
<1> QED BY <1>1, <1>3 DEF Made

\* Nothing is made of nothing.
LEMMA MadeOfNothing ==
    ASSUME NEW made
    PROVE  <<>> \in Seq(Range(made)) /\ Made(<<>>, <<>>, made)
  BY DEF Made

\* What a step that can be exported leaves is what is to be exported of it.
LEMMA YieldCollected ==
    ASSUME NEW files \in Library, NEW s \in StepsOf(files), Passes(s), ~GoesInto(s)
    PROVE  /\ Yield(s) \in Infos(files)
           /\ Collected(files, Yield(s), <<s>>) /\ Positioned(files, Yield(s), <<s>>)
<1> DEFINE S == StepsOf(files)
           y == Yield(s)
<1>1. IsStep(s)
  BY FileTypes
<1>2. /\ \A types : Gather(<<s>>, Successful(files, types)) = IF IsGoodTx(s, types) THEN <<s>> ELSE <<>>
      /\ Gather(<<s>>, AccountsSet(files)) = IF s.kind = "setState" THEN s.accounts ELSE <<>>
      /\ Gather(<<s>>, MocksSet(files)) = IF s.kind = "setState" THEN s.mocks ELSE <<>>
  <2>1. \A types : Gather(<<s>>, Successful(files, types)) = Successful(files, types)[s]
    BY PartTypes, GatherOne
  <2>2. Gather(<<s>>, AccountsSet(files)) = AccountsSet(files)[s]
    BY PartTypes, GatherOne
  <2>3. Gather(<<s>>, MocksSet(files)) = MocksSet(files)[s]
    BY PartTypes, GatherOne
  <2> QED BY <2>1, <2>2, <2>3 DEF Successful, AccountsSet, MocksSet, IsGoodTx
<1>3. y.Accs \in Seq(Range(AccountMade(files))) /\ Made(y.Accs, Gather(<<s>>, AccountsSet(files)), AccountMade(files))
  <2>1. CASE s.kind = "setState"
    <3>1. AccountsSet(files)[s] = s.accounts /\ s.accounts \in Seq(Range(s.accounts))
      BY <1>1, <2>1 DEF AccountsSet, IsStep
    <3>2. \A i \in DOMAIN s.accounts : s.accounts[i] \in AccountsOf(files)
      BY <3>1 DEF AccountsOf, Range
    <3>3. y.Accs = [i \in DOMAIN s.accounts |-> AccountMade(files)[s.accounts[i]]]
      BY <2>1, <3>2 DEF Yield, AccountMade
    <3>4. \A i \in 1..Len(s.accounts) : s.accounts[i] \in DOMAIN AccountMade(files)
      BY <3>1, <3>2, LenProperties DEF AccountMade
    <3>5. y.Accs \in Seq(Range(AccountMade(files))) /\ Made(y.Accs, s.accounts, AccountMade(files))
      <4> HIDE DEF y
      <4> QED BY <3>1, <3>3, <3>4, MadeOfList
    <3> QED BY <1>2, <2>1, <3>5
  <2>2. CASE s.kind # "setState"
    BY <1>2, <2>2, MadeOfNothing DEF Yield
  <2> QED BY <2>1, <2>2
<1>4. /\ y.DeployedAccs \in Seq(Range(MockMade(files)))
      /\ Made(y.DeployedAccs, Gather(<<s>>, MocksSet(files)), MockMade(files))
  <2>1. CASE s.kind = "setState"
    <3>1. MocksSet(files)[s] = s.mocks /\ s.mocks \in Seq(Range(s.mocks))
      BY <1>1, <2>1 DEF MocksSet, IsStep
    <3>2. \A i \in DOMAIN s.mocks : s.mocks[i] \in MocksOf(files) /\ s.mocks[i].address # Unnamed
      BY <2>1, <3>1 DEF MocksOf, Range, Passes
    <3>3. y.DeployedAccs = [i \in DOMAIN s.mocks |-> MockMade(files)[s.mocks[i]]]
      BY <2>1, <3>2 DEF Yield, MockMade
    <3>4. \A i \in 1..Len(s.mocks) : s.mocks[i] \in DOMAIN MockMade(files)
      BY <3>1, <3>2, LenProperties DEF MockMade
    <3>5. y.DeployedAccs \in Seq(Range(MockMade(files))) /\ Made(y.DeployedAccs, s.mocks, MockMade(files))
      <4> HIDE DEF y
      <4> QED BY <3>1, <3>3, <3>4, MadeOfList
    <3> QED BY <1>2, <2>1, <3>5
  <2>2. CASE s.kind # "setState"
    BY <1>2, <2>2, MadeOfNothing DEF Yield
  <2> QED BY <2>1, <2>2
<1>5. y.Txs \in Seq(Range(CallMade(files))) /\ Made(y.Txs, Calls(files, <<s>>), CallMade(files))
  <2>1. CASE IsCall(s)
    <3>1. s \in DOMAIN CallMade(files) /\ CallMade(files)[s] = CallOf(s)
      BY <2>1 DEF CallMade, CallOf, IsCall, IsGoodTx, Passes
    <3>2. y.Txs = <<CallOf(s)>> /\ Calls(files, <<s>>) = <<s>>
      BY <1>2, <2>1 DEF Yield, Calls, IsCall
    <3>3. CallOf(s) \in Range(CallMade(files))
      BY <3>1 DEF Range
    <3> QED BY <3>1, <3>2, <3>3 DEF Made
  <2>2. CASE ~IsCall(s)
    BY <1>2, <2>2, MadeOfNothing DEF Yield, Calls, IsCall
  <2> QED BY <2>1, <2>2
<1>6. /\ y.DeployTxs \in Seq(Range(DeploymentMade(files)))
      /\ Made(y.DeployTxs, Deployments(files, <<s>>), DeploymentMade(files))
  <2>1. CASE IsDeployment(s)
    <3>1. s \in DOMAIN DeploymentMade(files) /\ DeploymentMade(files)[s] = CreateDeployTransaction(s)
      BY <2>1 DEF DeploymentMade, IsDeployment, IsGoodTx
    <3>2. y.DeployTxs = <<CreateDeployTransaction(s)>> /\ Deployments(files, <<s>>) = <<s>>
      BY <1>2, <2>1 DEF Yield, Deployments, IsDeployment
    <3>3. CreateDeployTransaction(s) \in Range(DeploymentMade(files))
      BY <3>1 DEF Range
    <3> QED BY <3>1, <3>2, <3>3 DEF Made
  <2>2. CASE ~IsDeployment(s)
    BY <1>2, <2>2, MadeOfNothing DEF Yield, Deployments, IsDeployment
  <2> QED BY <2>1, <2>2
<1>7. y.BenchmarkTxPos \in {0, InvalidBenchmarkTxPos}
  BY DEF Yield
<1>8. y \in Infos(files)
  BY <1>3, <1>4, <1>5, <1>6, <1>7 DEF Infos, Yield
<1>9. Positioned(files, y, <<s>>)
  <2>1. Calls(files, <<s>>) = IF IsCall(s) THEN <<s>> ELSE <<>>
    BY <1>2 DEF Calls, IsCall
  <2>2. CASE IsCall(s) /\ s.ident = "benchmark"
    <3>1. MarkedIn(Calls(files, <<s>>)) = {1} /\ y.BenchmarkTxPos = 0
      BY <2>1, <2>2 DEF MarkedIn, Yield
    <3> QED BY <3>1 DEF Positioned, FirstMarked, InvalidBenchmarkTxPos
  <2>3. CASE ~(IsCall(s) /\ s.ident = "benchmark")
    <3>1. MarkedIn(Calls(files, <<s>>)) = {} /\ y.BenchmarkTxPos = InvalidBenchmarkTxPos
      BY <2>1, <2>3 DEF MarkedIn, Yield
    <3> QED BY <3>1 DEF Positioned, FirstMarked
  <2> QED BY <2>2, <2>3
<1> QED BY <1>3, <1>4, <1>5, <1>6, <1>8, <1>9 DEF Collected

----------------------------------------------------------------------------
(* One frame *)

\* Where a frame is in its file.
LEMMA FrameTypes ==
    ASSUME NEW files \in Library, NEW f \in File, NEW fr \in Frames(files), InPlace(files, fr, f)
    PROVE  /\ files[f] \in Seq(StepsOf(files)) /\ fr.steps \in Seq(StepsOf(files))
           /\ Len(files[f]) \in Nat /\ Len(fr.steps) \in Nat /\ fr.i \in Nat \ {0}
           /\ Cut(files, fr, f) \in Nat /\ Passed(files, fr, f) \in 0..Len(files[f])
           /\ fr.i <= Len(fr.steps) =>
                 /\ Passed(files, fr, f) + 1 \in 1..Len(files[f])
                 /\ fr.steps[fr.i] = files[f][Passed(files, fr, f) + 1]
                 /\ fr.steps[fr.i] \in StepsOf(files)
<1>1. files[f] \in Seq(StepsOf(files)) /\ fr.steps \in Seq(StepsOf(files)) /\ fr.i \in Nat \ {0}
  BY FileTypes DEF Frames
<1>2. Len(files[f]) \in Nat /\ Len(fr.steps) \in Nat
  BY <1>1, LenProperties
<1> DEFINE M == Len(files[f])
           L == Len(fr.steps)
           k == fr.i
           c == Cut(files, fr, f)
           n == Passed(files, fr, f)
<1>a. M \in Nat /\ L \in Nat /\ k \in Nat \ {0} /\ L <= M /\ k <= L + 1 /\ c = M - L /\ n = c + k - 1
  BY <1>1, <1>2 DEF Cut, Passed, InPlace
<1> HIDE DEF M, L, k, c, n
<1>b. c \in Nat /\ n \in 0..M /\ n + 1 = k + c /\ (k <= L => n + 1 \in 1..M)
  BY <1>a
<1>3. Cut(files, fr, f) \in Nat /\ Passed(files, fr, f) \in 0..Len(files[f])
  BY <1>b DEF M, c, n
<1>4. ASSUME fr.i <= Len(fr.steps)
      PROVE  /\ Passed(files, fr, f) + 1 \in 1..Len(files[f])
             /\ fr.steps[fr.i] = files[f][Passed(files, fr, f) + 1]
             /\ fr.steps[fr.i] \in StepsOf(files)
  <2>1. Passed(files, fr, f) + 1 = fr.i + Cut(files, fr, f)
    BY <1>b DEF k, c, n
  <2>2. fr.i \in fr.i..Len(fr.steps) /\ fr.i \in 1..Len(fr.steps)
    BY <1>1, <1>2, <1>4
  <2>3. Passed(files, fr, f) + 1 \in 1..Len(files[f])
    BY <1>b, <1>4 DEF k, L, M, n
  <2>4. fr.steps[fr.i] \in StepsOf(files)
    BY <1>1, <2>2, ElementOfSeq
  <2> QED BY <2>1, <2>2, <2>3, <2>4 DEF InPlace
<1> QED BY <1>1, <1>2, <1>3, <1>4

\* The steps before one, and then it.
LEMMA BeforeStep ==
    ASSUME NEW files \in Library, NEW f \in File, NEW d \in 1..MaxDepth, NEW n \in 0..Len(files[f])
    PROVE  /\ Before(files, f, n, d) \in Seq(StepsOf(files))
           /\ n < Len(files[f]) =>
                 Before(files, f, n + 1, d) = Before(files, f, n, d) \o Unfolding(files, d)[files[f][n + 1]]
<1> DEFINE S == StepsOf(files)
<1>1. files[f] \in Seq(S) /\ Len(files[f]) \in Nat /\ Unfolding(files, d) \in Parts(S, S)
  BY FileTypes, LenProperties, UnfoldedDef
<1>2. ASSUME NEW m \in 0..Len(files[f]) PROVE SubSeq(files[f], 1, m) \in Seq(S)
  <2>1. \A i \in 1..m : files[f][i] \in S
    BY <1>1, ElementOfSeq
  <2> QED BY <1>1, <2>1, SubSeqProperties
<1>3. Before(files, f, n, d) \in Seq(S)
  BY <1>1, <1>2, GatherType DEF Before
<1>4. ASSUME n < Len(files[f])
      PROVE  Before(files, f, n + 1, d) = Before(files, f, n, d) \o Unfolding(files, d)[files[f][n + 1]]
  <2>1. n + 1 \in 1..Len(files[f]) /\ files[f][n + 1] \in S
    BY <1>1, <1>4, ElementOfSeq
  <2>2. SubSeq(files[f], 1, n + 1) = SubSeq(files[f], 1, n) \o <<files[f][n + 1]>>
    <3>1. 1 \in 1..Len(files[f]) /\ n + 1 \in 1..Len(files[f]) /\ (n + 1) - 1 = n
      BY <1>1, <2>1
    <3>2. SubSeq(files[f], 1, n + 1) = SubSeq(files[f], 1, (n + 1) - 1) \o <<files[f][n + 1]>>
      BY <1>1, <3>1, SubSeqRecursiveSecond
    <3> QED BY <3>1, <3>2
  <2>3. SubSeq(files[f], 1, n) \in Seq(S) /\ <<files[f][n + 1]>> \in Seq(S)
    BY <1>2, <2>1
  <2>4. \A x, y \in Seq(S) :
           Gather(x \o y, Unfolding(files, d)) = Gather(x, Unfolding(files, d)) \o Gather(y, Unfolding(files, d))
    BY <1>1, GatherConcat
  <2>5. Gather(<<files[f][n + 1]>>, Unfolding(files, d)) = Unfolding(files, d)[files[f][n + 1]]
    BY <1>1, <2>1, GatherOne
  <2> QED BY <2>2, <2>3, <2>4, <2>5 DEF Before
<1> QED BY <1>3, <1>4

\* The frame goes on, with its step or without it.
GoesOn(fr, fr2) ==
    \/ fr2.steps = fr.steps /\ fr2.i = fr.i + 1
    \/ fr2.steps = RemoveAt(fr.steps, fr.i) /\ fr2.i = fr.i /\ fr.i # 1

\* Either way the frame has passed one more step of its file.
LEMMA StaysInPlace ==
    ASSUME NEW files \in Library, NEW f \in File, NEW fr \in Frames(files), NEW fr2 \in Frames(files),
           InPlace(files, fr, f), fr.i <= Len(fr.steps), BeginsWell(files[f]), GoesOn(fr, fr2)
    PROVE  InPlace(files, fr2, f) /\ Passed(files, fr2, f) = Passed(files, fr, f) + 1
<1>1. /\ Len(files[f]) \in Nat /\ Len(fr.steps) \in Nat /\ fr.i \in Nat \ {0}
      /\ fr.steps \in Seq(StepsOf(files))
  BY FrameTypes
<1> DEFINE M == Len(files[f])
           L == Len(fr.steps)
           k == fr.i
<1>a. M \in Nat /\ L \in Nat /\ k \in Nat \ {0} /\ L <= M /\ k <= L
  BY <1>1 DEF InPlace
<1>2. CASE fr2.steps = fr.steps /\ fr2.i = fr.i + 1
  <2>a. Cut(files, fr2, f) = M - L /\ Cut(files, fr, f) = M - L
    BY <1>2 DEF Cut
  <2>b. Passed(files, fr2, f) = (M - L) + (k + 1) - 1 /\ Passed(files, fr, f) = (M - L) + k - 1
    BY <1>2, <2>a DEF Passed
  <2>c. fr2.i = k + 1 /\ Len(fr2.steps) = L
    BY <1>2
  <2> HIDE DEF M, L, k
  <2>1. /\ Cut(files, fr2, f) = Cut(files, fr, f) /\ Passed(files, fr2, f) = Passed(files, fr, f) + 1
        /\ fr2.i <= Len(fr2.steps) + 1 /\ fr2.i # 1
    BY <1>a, <2>a, <2>b, <2>c
  <2>2. \A j \in fr2.i..Len(fr2.steps) : j \in fr.i..Len(fr.steps)
    BY <1>1, <1>2
  <2> QED BY <1>2, <2>1, <2>2 DEF InPlace
<1>3. CASE fr2.steps = RemoveAt(fr.steps, fr.i) /\ fr2.i = fr.i /\ fr.i # 1
  <2> DEFINE S == StepsOf(files)
             left == SubSeq(fr.steps, 1, k - 1)
             right == SubSeq(fr.steps, k + 1, L)
  <2>1. \A j \in 1..L : fr.steps[j] \in S
    BY <1>1, ElementOfSeq
  <2>a. fr2.steps = left \o right /\ fr2.i = k /\ k # 1
    BY <1>3 DEF RemoveAt
  <2>b. \A j \in k..L : fr.steps[j] = files[f][j + Cut(files, fr, f)]
    BY DEF InPlace
  <2>c. /\ Cut(files, fr2, f) = M - Len(fr2.steps) /\ Cut(files, fr, f) = M - L
        /\ Passed(files, fr2, f) = Cut(files, fr2, f) + fr2.i - 1
        /\ Passed(files, fr, f) = Cut(files, fr, f) + k - 1
    BY DEF Cut, Passed
  <2> HIDE DEF M, L, k
  <2>2. left \in Seq(S) /\ Len(left) = k - 1
    <3>1. \A j \in 1..(k - 1) : fr.steps[j] \in S
      BY <1>a, <2>1
    <3>2. left \in Seq(S) /\ Len(left) = IF 1 <= k - 1 THEN (k - 1) - 1 + 1 ELSE 0
      BY <1>a, <3>1, SubSeqProperties
    <3> QED BY <1>a, <3>2
  <2>3. right \in Seq(S) /\ Len(right) = L - k /\ \A j \in 1..(L - k) : right[j] = fr.steps[k + j]
    <3>1. k + 1 \in Int /\ L \in Int /\ \A j \in (k + 1)..L : fr.steps[j] \in S
      BY <1>a, <2>1
    <3>2. /\ right \in Seq(S) /\ Len(right) = IF k + 1 <= L THEN L - (k + 1) + 1 ELSE 0
          /\ \A j \in 1..(L - (k + 1) + 1) : right[j] = fr.steps[(k + 1) + j - 1]
      BY <3>1, SubSeqProperties
    <3> HIDE DEF right
    <3>3. L - (k + 1) + 1 = L - k /\ \A j \in 1..(L - k) : (k + 1) + j - 1 = k + j
      BY <1>a
    <3>4. Len(right) = L - k
      BY <1>a, <3>2
    <3>5. \A j \in 1..(L - k) : right[j] = fr.steps[k + j]
      BY <3>2, <3>3
    <3> QED BY <3>2, <3>4, <3>5
  <2> HIDE DEF left, right, S
  <2>5. /\ Len(fr2.steps) = L - 1
        /\ \A j \in k..(L - 1) : fr2.steps[j] = fr.steps[j + 1]
    <3>1. /\ Len(left \o right) = Len(left) + Len(right)
          /\ \A j \in 1..(Len(left) + Len(right)) :
                (left \o right)[j] = IF j <= Len(left) THEN left[j] ELSE right[j - Len(left)]
      BY <2>2, <2>3, ConcatProperties
    <3>2. ASSUME NEW j \in k..(L - 1) PROVE fr2.steps[j] = fr.steps[j + 1]
      <4>1. j \in 1..(Len(left) + Len(right)) /\ ~(j <= Len(left)) /\ j - Len(left) = j - k + 1
        BY <1>a, <2>2, <2>3
      <4>2. j - k + 1 \in 1..(L - k) /\ k + (j - k + 1) = j + 1
        BY <1>a
      <4>3. (left \o right)[j] = right[j - k + 1]
        BY <3>1, <4>1
      <4>4. right[j - k + 1] = fr.steps[j + 1]
        BY <2>3, <4>2
      <4> QED BY <2>a, <4>3, <4>4
    <3>3. Len(left) + Len(right) = L - 1
      BY <1>a, <2>2, <2>3
    <3> QED BY <2>a, <3>1, <3>2, <3>3
  <2>6. /\ Cut(files, fr2, f) = Cut(files, fr, f) + 1 /\ Passed(files, fr2, f) = Passed(files, fr, f) + 1
        /\ fr2.i <= Len(fr2.steps) + 1 /\ fr2.i # 1 /\ Len(fr2.steps) <= M
        /\ Cut(files, fr, f) \in Nat
    BY <1>a, <2>a, <2>c, <2>5
  <2>7. ASSUME NEW j \in fr2.i..Len(fr2.steps) PROVE fr2.steps[j] = files[f][j + Cut(files, fr2, f)]
    <3>1. j \in k..(L - 1) /\ j + 1 \in k..L
      BY <1>a, <2>a, <2>5
    <3>2. fr2.steps[j] = files[f][(j + 1) + Cut(files, fr, f)]
      BY <2>b, <2>5, <3>1
    <3>3. (j + 1) + Cut(files, fr, f) = j + Cut(files, fr2, f)
      BY <2>6, <3>1
    <3> QED BY <3>2, <3>3
  <2> QED BY <2>6, <2>7 DEF InPlace, M
<1> QED BY <1>2, <1>3 DEF GoesOn

\* A step taken: what it leaves joins what was collected before.
LEMMA FrameStep ==
    ASSUME NEW files \in Library, NEW f, NEW d \in 1..MaxDepth,
           NEW fr \in Frames(files), NEW fr2 \in Frames(files), GoesOn(fr, fr2),
           FrameInv(files, fr, f, d), fr.i <= Len(fr.steps), BeginsWell(files[f]),
           NEW s, s = fr.steps[fr.i], Passes(s),
           GoesInto(s) => \A g \in Reaches(files)[d - 1][s.path] : Exportable(files[g]),
           NEW ext \in Infos(files), Joins(fr.info, ext, fr2.info),
           Collected(files, ext, Unfolding(files, d)[s]), Positioned(files, ext, Unfolding(files, d)[s]),
           s.kind \notin {"tx", "externalSteps"} => ext.Txs = <<>>,
           NEW shift \in Nat,
           fr2.info.BenchmarkTxPos = FirstOf(fr.info.BenchmarkTxPos, ext.BenchmarkTxPos, shift),
           TxsFollowExternals(files) /\ ext.BenchmarkTxPos # InvalidBenchmarkTxPos
              => shift = Len(fr.info.Txs)
    PROVE  FrameInv(files, fr2, f, d)
<1> DEFINE n == Passed(files, fr, f)
           b == Before(files, f, n, d)
           more == Unfolding(files, d)[s]
<1>1. f \in File /\ InPlace(files, fr, f)
  BY DEF FrameInv
<1>2. /\ n \in 0..Len(files[f]) /\ n < Len(files[f]) /\ Len(files[f]) \in Nat
      /\ s = files[f][n + 1] /\ s \in StepsOf(files)
  <2>1. /\ n \in 0..Len(files[f]) /\ n + 1 \in 1..Len(files[f]) /\ Len(files[f]) \in Nat
        /\ s = files[f][n + 1] /\ s \in StepsOf(files)
    BY <1>1, FrameTypes
  <2> QED BY <2>1
<1>3. InPlace(files, fr2, f) /\ Passed(files, fr2, f) = n + 1
  BY <1>1, StaysInPlace
<1>4. /\ PassesSoFar(files, f, n, d) /\ Collected(files, fr.info, b) /\ Positioned(files, fr.info, b)
      /\ NoTxYet(files, fr.info, f, n) /\ Reaches(files)[d][f] \subseteq Reaches(files)[MaxDepth][Root]
  BY DEF FrameInv
<1>5. b \in Seq(StepsOf(files)) /\ Before(files, f, n + 1, d) = b \o more
  BY <1>1, <1>2, BeforeStep
<1>6. more \in Seq(StepsOf(files))
  <2>1. Unfolding(files, d) \in Parts(StepsOf(files), StepsOf(files))
    BY UnfoldedDef
  <2> QED BY <1>2, <2>1 DEF Parts
<1>7. fr.info \in Infos(files)
  BY DEF Frames
<1> HIDE DEF n, b, more
<1>8. Collected(files, fr2.info, b \o more)
  BY <1>4, <1>5, <1>6, <1>7, CollectedConcat DEF more
<1>9. Positioned(files, fr2.info, b \o more)
  <2>1. Len(fr.info.Txs) = Len(Calls(files, b))
    BY <1>4 DEF Collected, Made
  <2>2. Positioned(files, ext, more)
    BY DEF more
  <2> QED BY <1>4, <1>5, <1>6, <1>7, <2>1, <2>2, PositionedConcat
<1>10. PassesSoFar(files, f, n + 1, d)
  <2>1. \A j \in 1..(n + 1) : j \in 1..n \/ j = n + 1
    BY <1>2
  <2> QED BY <1>2, <1>4, <2>1 DEF PassesSoFar
<1>11. NoTxYet(files, fr2.info, f, n + 1)
  <2> SUFFICES ASSUME \A j \in 1..(n + 1) : files[f][j].kind \notin {"tx", "externalSteps"}
               PROVE  fr2.info.Txs = <<>>
    BY DEF NoTxYet
  <2>1. fr.info.Txs = <<>> /\ ext.Txs = <<>>
    <3>1. n + 1 \in 1..(n + 1) /\ \A j \in 1..n : j \in 1..(n + 1)
      BY <1>2
    <3> QED BY <1>2, <1>4, <3>1 DEF NoTxYet
  <2> QED BY <2>1 DEF Joins
<1> QED BY <1>1, <1>3, <1>4, <1>5, <1>8, <1>9, <1>10, <1>11 DEF FrameInv

\* A file that is begun.
LEMMA FrameBegins ==
    ASSUME NEW files \in Library, NEW f \in File, NEW d \in 1..MaxDepth,
           Reaches(files)[d][f] \subseteq Reaches(files)[MaxDepth][Root]
    PROVE  /\ Empty \in Infos(files)
           /\ [steps |-> files[f], i |-> 1, info |-> Empty] \in Frames(files)
           /\ FrameInv(files, [steps |-> files[f], i |-> 1, info |-> Empty], f, d)
<1> DEFINE fr == [steps |-> files[f], i |-> 1, info |-> Empty]
<1>1. files[f] \in Seq(StepsOf(files)) /\ Len(files[f]) \in Nat
  BY FileTypes, LenProperties
<1>2. Empty \in Infos(files)
  BY MadeOfNothing DEF Infos, Empty
<1>3. fr \in Frames(files)
  BY <1>1, <1>2 DEF Frames
<1>4. fr.steps = files[f] /\ fr.i = 1 /\ fr.info = Empty
  OBVIOUS
<1> HIDE DEF fr
<1>5. Cut(files, fr, f) = 0 /\ Passed(files, fr, f) = 0
  BY <1>1, <1>4 DEF Cut, Passed
<1>6. InPlace(files, fr, f)
  BY <1>1, <1>4, <1>5 DEF InPlace
<1>7. Before(files, f, 0, d) = <<>>
  <2>1. SubSeq(files[f], 1, 0) = <<>>
    BY SubSeqEmpty
  <2> QED BY <2>1, GatherEmpty DEF Before
<1>8. Collected(files, Empty, <<>>)
  <2>1. \A part : Gather(<<>>, part) = <<>>
    BY GatherEmpty
  <2> QED BY <2>1, MadeOfNothing DEF Collected, Empty, Calls, Deployments
<1>9. Positioned(files, Empty, <<>>)
  <2>1. Calls(files, <<>>) = <<>>
    BY GatherEmpty DEF Calls
  <2>2. MarkedIn(<<>>) = {}
    BY DEF MarkedIn
  <2> QED BY <2>1, <2>2 DEF Positioned, FirstMarked, Empty
<1>10. FrameInv(files, fr, f, d)
  <2>1. PassesSoFar(files, f, 0, d)
    BY DEF PassesSoFar
  <2>2. NoTxYet(files, Empty, f, 0)
    BY DEF NoTxYet, Empty
  <2> QED BY <1>4, <1>5, <1>6, <1>7, <1>8, <1>9, <2>1, <2>2 DEF FrameInv
<1> QED BY <1>2, <1>3, <1>10 DEF fr

\* A file that ends: all of it was exported.
LEMMA FrameEnds ==
    ASSUME NEW files \in Library, NEW f, NEW d \in 1..MaxDepth, NEW fr \in Frames(files),
           FrameInv(files, fr, f, d), fr.i > Len(fr.steps), BeginsWell(files[f])
    PROVE  /\ Collected(files, fr.info, Unfolded(files)[d][f])
           /\ Positioned(files, fr.info, Unfolded(files)[d][f])
           /\ \A g \in Reaches(files)[d][f] : Exportable(files[g])
<1> DEFINE n == Passed(files, fr, f)
<1>1. f \in File /\ InPlace(files, fr, f) /\ PassesSoFar(files, f, n, d)
  BY DEF FrameInv
<1>2. n = Len(files[f])
  <2> DEFINE M == Len(files[f])
             L == Len(fr.steps)
             k == fr.i
  <2>1. n = (M - L) + k - 1
    BY DEF Passed, Cut
  <2>2. M \in Nat /\ L \in Nat /\ k \in Nat /\ k > L /\ k <= L + 1
    BY <1>1, FrameTypes DEF InPlace
  <2> HIDE DEF M, L, k, n
  <2>3. n = M
    BY <2>1, <2>2
  <2> QED BY <2>3 DEF M
<1>3. files[f] \in Seq(StepsOf(files)) /\ DOMAIN files[f] = 1..Len(files[f])
  BY <1>1, FileTypes, LenProperties
<1>4. Before(files, f, n, d) = Unfolded(files)[d][f]
  <2>1. SubSeq(files[f], 1, Len(files[f])) = files[f]
    BY <1>3, SubSeqFull
  <2>2. Unfolded(files)[d][f] = Gather(files[f], Unfolding(files, d))
    BY <1>1, UnfoldedDef
  <2> QED BY <1>2, <2>1, <2>2 DEF Before
<1>5. ASSUME NEW s \in Range(files[f])
      PROVE  /\ Passes(s)
             /\ GoesInto(s) => \A g \in Reaches(files)[d - 1][s.path] : Exportable(files[g])
  <2>1. PICK j \in 1..Len(files[f]) : s = files[f][j]
    BY <1>3 DEF Range
  <2> QED BY <1>1, <1>2, <2>1 DEF PassesSoFar
<1>6. Exportable(files[f])
  <2>1. \A s \in Range(files[f]) : IsStep(s)
    BY <1>1, FileTypes, StepOfFile
  <2>2. ~Unexportable(files[f])
    BY <1>5 DEF Unexportable, BeginsWell, Passes
  <2>3. ~Lacks(files[f])
    BY <1>5 DEF Lacks, Passes
  <2> QED BY <2>2, <2>3 DEF Exportable
<1>7. ASSUME NEW g \in Reaches(files)[d][f] PROVE Exportable(files[g])
  <2>1. g \in FromHere(files, f, Reaches(files)[d - 1])
    BY <1>1, ReachesDef
  <2> QED BY <1>5, <1>6, <2>1 DEF FromHere
<1>8. Collected(files, fr.info, Before(files, f, n, d)) /\ Positioned(files, fr.info, Before(files, f, n, d))
  BY DEF FrameInv
<1> QED BY <1>4, <1>7, <1>8

----------------------------------------------------------------------------
(* The stack *)

\* The last frame of a stack, with the file it is of and the depth it is at.
TopFrame(frames) == frames[Len(frames)]
TopFile(frames) == FileOf(frames, Len(frames))
TopDepth(frames) == MaxDepth - Len(frames) + 1

\* The last frame is a frame of its file.
LEMMA StackTypes ==
    ASSUME NEW files \in Library, NEW frames, StackInv(files, frames)
    PROVE  /\ Len(frames) \in 1..MaxDepth /\ MaxDepth \in Nat /\ TopDepth(frames) \in 1..MaxDepth
           /\ TopFrame(frames) \in Frames(files)
           /\ FrameInv(files, TopFrame(frames), TopFile(frames), TopDepth(frames))
           /\ TopFile(frames) \in File
<1> DEFINE L == Len(frames)
<1>1. MaxDepth \in Nat
  BY DepthAssumption
<1>2. /\ frames \in Seq(Frames(files)) /\ L \in 1..MaxDepth
      /\ \A k \in 1..L : FrameInv(files, frames[k], FileOf(frames, k), MaxDepth - k + 1)
  BY DEF StackInv
<1> HIDE DEF L
<1>3. L \in 1..L /\ MaxDepth - L + 1 \in 1..MaxDepth
  BY <1>1, <1>2
<1>4. frames[L] \in Frames(files)
  BY <1>2, <1>3, ElementOfSeq DEF L
<1>5. FrameInv(files, frames[L], FileOf(frames, L), MaxDepth - L + 1)
  BY <1>2, <1>3
<1> QED BY <1>1, <1>2, <1>3, <1>4, <1>5 DEF L, TopFrame, TopFile, TopDepth, FrameInv

\* A frame goes on.
LEMMA TopGoesOn ==
    ASSUME NEW files \in Library, NEW frames, StackInv(files, frames), NEW fr \in Frames(files),
           FrameInv(files, fr, TopFile(frames), TopDepth(frames))
    PROVE  StackInv(files, [frames EXCEPT ![Len(frames)] = fr])
<1> DEFINE L == Len(frames)
           new == [frames EXCEPT ![L] = fr]
<1>1. /\ frames \in Seq(Frames(files)) /\ L \in 1..MaxDepth /\ L \in 1..L
      /\ \A k \in 1..L : FrameInv(files, frames[k], FileOf(frames, k), MaxDepth - k + 1)
      /\ \A k \in 1..(L - 1) : Waits(frames[k])
  BY StackTypes DEF StackInv
<1>2. new \in Seq(Frames(files)) /\ Len(new) = L /\ \A j \in 1..L : new[j] = IF j = L THEN fr ELSE frames[j]
  BY <1>1, ExceptSeq
<1>3. MaxDepth \in Nat
  BY DepthAssumption
<1>f. FrameInv(files, fr, FileOf(frames, L), MaxDepth - L + 1)
  BY DEF TopFile, TopDepth
<1> HIDE DEF new, L
<1>4. \A k \in 1..L : FileOf(new, k) = FileOf(frames, k)
  <2>1. \A k \in 1..L : k # 1 => k - 1 \in 1..L /\ k - 1 # L
    BY <1>1, <1>3
  <2> QED BY <1>2, <2>1 DEF FileOf
<1>5. ASSUME NEW k \in 1..L PROVE FrameInv(files, new[k], FileOf(new, k), MaxDepth - k + 1)
  <2>1. CASE k = L
    BY <1>f, <1>2, <1>4, <2>1
  <2>2. CASE k # L
    BY <1>1, <1>2, <1>4, <2>2
  <2> QED BY <2>1, <2>2
<1>6. \A k \in 1..(L - 1) : k \in 1..L /\ k # L
  BY <1>1, <1>3
<1>7. StackInv(files, new)
  BY <1>1, <1>2, <1>5, <1>6 DEF StackInv
<1> QED BY <1>7 DEF new, L

\* A frame goes into a file.
LEMMA TopGoesInto ==
    ASSUME NEW files \in Library, NEW frames, StackInv(files, frames), Len(frames) < MaxDepth,
           NEW f \in File, Waits(TopFrame(frames)),
           TopFrame(frames).steps[TopFrame(frames).i].path = f,
           NEW fr \in Frames(files), FrameInv(files, fr, f, TopDepth(frames) - 1)
    PROVE  StackInv(files, Append(frames, fr))
<1> DEFINE L == Len(frames)
           new == Append(frames, fr)
<1>1. /\ frames \in Seq(Frames(files)) /\ L \in 1..MaxDepth
      /\ \A k \in 1..L : FrameInv(files, frames[k], FileOf(frames, k), MaxDepth - k + 1)
      /\ \A k \in 1..(L - 1) : Waits(frames[k])
  BY DEF StackInv
<1>2. /\ new \in Seq(Frames(files)) /\ Len(new) = L + 1
      /\ \A j \in 1..L : new[j] = frames[j]
      /\ new[L + 1] = fr
  BY <1>1, AppendProperties
<1>3. MaxDepth \in Nat
  BY DepthAssumption
<1>f. /\ FrameInv(files, fr, f, (MaxDepth - L + 1) - 1) /\ L < MaxDepth /\ Waits(frames[L])
      /\ frames[L].steps[frames[L].i].path = f
  BY DEF TopDepth, TopFrame
<1> HIDE DEF new, L
<1>g. (MaxDepth - L + 1) - 1 = MaxDepth - (L + 1) + 1 /\ (L + 1) - 1 = L /\ L + 1 # 1 /\ L + 1 \in 1..MaxDepth
  BY <1>1, <1>3, <1>f
<1>4. \A k \in 1..L : FileOf(new, k) = FileOf(frames, k)
  <2>1. \A k \in 1..L : k # 1 => k - 1 \in 1..L
    BY <1>1, <1>3
  <2> QED BY <1>2, <2>1 DEF FileOf
<1>5. FileOf(new, L + 1) = f
  <2>1. L \in 1..L
    BY <1>1, <1>3
  <2> QED BY <1>2, <1>f, <1>g, <2>1 DEF FileOf
<1>6. ASSUME NEW k \in 1..(L + 1) PROVE FrameInv(files, new[k], FileOf(new, k), MaxDepth - k + 1)
  <2>1. CASE k = L + 1
    BY <1>f, <1>g, <1>2, <1>5, <2>1
  <2>2. CASE k # L + 1
    <3>1. k \in 1..L
      BY <1>1, <1>3, <2>2
    <3> QED BY <1>1, <1>2, <1>4, <3>1
  <2> QED BY <2>1, <2>2
<1>7. ASSUME NEW k \in 1..L PROVE Waits(new[k])
  <2>1. k = L \/ k \in 1..(L - 1)
    BY <1>1, <1>3
  <2> QED BY <1>1, <1>2, <1>f, <2>1
<1> QED BY <1>2, <1>6, <1>7, <1>g DEF StackInv, new

\* A file that ends lets its caller go on.
LEMMA CallerGoesOn ==
    ASSUME NEW files \in Library, NEW frames, StackInv(files, frames), Len(frames) > 1,
           NEW fr \in Frames(files),
           FrameInv(files, fr, FileOf(frames, Len(frames) - 1), TopDepth(frames) + 1)
    PROVE  StackInv(files, Append(SubSeq(frames, 1, Len(frames) - 2), fr))
<1> DEFINE L == Len(frames)
           below == SubSeq(frames, 1, L - 2)
           new == Append(below, fr)
<1>1. /\ frames \in Seq(Frames(files)) /\ L \in 1..MaxDepth
      /\ \A k \in 1..L : FrameInv(files, frames[k], FileOf(frames, k), MaxDepth - k + 1)
      /\ \A k \in 1..(L - 1) : Waits(frames[k])
      /\ \A k \in 1..L : frames[k] \in Frames(files)
  BY ElementOfSeq DEF StackInv
<1>3. MaxDepth \in Nat
  BY DepthAssumption
<1>f. FrameInv(files, fr, FileOf(frames, L - 1), (MaxDepth - L + 1) + 1) /\ L > 1
  BY DEF TopDepth
<1>b. new = Append(below, fr) /\ below = SubSeq(frames, 1, L - 2)
  OBVIOUS
<1> HIDE DEF new, below, L
<1>g. (MaxDepth - L + 1) + 1 = MaxDepth - (L - 1) + 1 /\ (L - 2) + 1 = L - 1 /\ L - 2 \in Nat /\ L - 1 \in 1..MaxDepth
  BY <1>1, <1>3, <1>f
<1>c. below \in Seq(Frames(files)) /\ Len(below) = L - 2 /\ \A j \in 1..(L - 2) : below[j] = frames[j]
  <2>1. \A j \in 1..(L - 2) : frames[j] \in Frames(files)
    BY <1>1, <1>3
  <2>2. /\ below \in Seq(Frames(files)) /\ Len(below) = IF 1 <= L - 2 THEN (L - 2) - 1 + 1 ELSE 0
        /\ \A j \in 1..((L - 2) - 1 + 1) : below[j] = frames[1 + j - 1]
    BY <1>b, <1>g, <2>1, SubSeqProperties
  <2>3. (L - 2) - 1 + 1 = L - 2 /\ \A j \in 1..(L - 2) : 1 + j - 1 = j
    BY <1>g
  <2> QED BY <1>g, <2>2, <2>3
<1>2. /\ new \in Seq(Frames(files)) /\ Len(new) = L - 1
      /\ \A j \in 1..(L - 2) : new[j] = frames[j]
      /\ new[L - 1] = fr
  <2>1. /\ new \in Seq(Frames(files)) /\ Len(new) = Len(below) + 1
        /\ \A j \in 1..Len(below) : new[j] = below[j]
        /\ new[Len(below) + 1] = fr
    BY <1>b, <1>c, AppendProperties
  <2> QED BY <1>c, <1>g, <2>1
<1>4. \A k \in 1..(L - 1) : FileOf(new, k) = FileOf(frames, k)
  <2>1. \A k \in 1..(L - 1) : k # 1 => k - 1 \in 1..(L - 2)
    BY <1>1, <1>3
  <2> QED BY <1>2, <2>1 DEF FileOf
<1>5. ASSUME NEW k \in 1..(L - 1) PROVE FrameInv(files, new[k], FileOf(new, k), MaxDepth - k + 1)
  <2>1. CASE k = L - 1
    BY <1>f, <1>g, <1>2, <1>4, <2>1
  <2>2. CASE k # L - 1
    <3>1. k \in 1..(L - 2) /\ k \in 1..L
      BY <1>1, <1>3, <2>2
    <3> QED BY <1>1, <1>2, <1>4, <3>1
  <2> QED BY <2>1, <2>2
<1>6. ASSUME NEW k \in 1..((L - 1) - 1) PROVE Waits(new[k])
  <2>1. k \in 1..(L - 2) /\ k \in 1..(L - 1)
    BY <1>1, <1>3
  <2> QED BY <1>1, <1>2, <2>1
<1> QED BY <1>2, <1>5, <1>6, <1>g DEF StackInv, new, below, L

----------------------------------------------------------------------------
(* The steps of the specification *)

\* A running export: the last frame, its file and its step.
LEMMA Running ==
    ASSUME IInv, pc = "running"
    PROVE  /\ lib \in Library /\ StackInv(lib, stack) /\ Top = TopFrame(stack)
           /\ Top \in Frames(lib) /\ FrameInv(lib, Top, TopFile(stack), TopDepth(stack))
           /\ TopFile(stack) \in File /\ TopDepth(stack) \in 1..MaxDepth
           /\ TopFile(stack) \in Reaches(lib)[MaxDepth][Root]
           /\ ValidFile <=> BeginsWell(lib[TopFile(stack)])
           /\ AtStep => Current \in StepsOf(lib) /\ Current \in Range(lib[TopFile(stack)]) /\ IsStep(Current)
<1> DEFINE f == TopFile(stack)
           d == TopDepth(stack)
<1>1. lib \in Library /\ StackInv(lib, stack) /\ Top = TopFrame(stack)
  BY DEF IInv, Top, TopFrame
<1>2. Top \in Frames(lib) /\ FrameInv(lib, Top, f, d) /\ f \in File /\ d \in 1..MaxDepth
  BY <1>1, StackTypes
<1> HIDE DEF f, d
<1>3. f \in Reaches(lib)[MaxDepth][Root]
  <2>1. f \in Reaches(lib)[d][f]
    BY <1>1, <1>2, ReachesDef DEF FromHere
  <2> QED BY <1>2, <2>1 DEF FrameInv
<1>4. InPlace(lib, Top, f)
  BY <1>2 DEF FrameInv
<1>5. /\ lib[f] \in Seq(StepsOf(lib)) /\ Len(lib[f]) \in Nat /\ Len(Top.steps) \in Nat /\ Top.i \in Nat \ {0}
      /\ Top.i <= Len(Top.steps) =>
            /\ Passed(lib, Top, f) + 1 \in 1..Len(lib[f])
            /\ Top.steps[Top.i] = lib[f][Passed(lib, Top, f) + 1]
            /\ Top.steps[Top.i] \in StepsOf(lib)
  BY <1>1, <1>2, <1>4, FrameTypes
<1>6. ValidFile <=> BeginsWell(lib[f])
  <2>1. CASE Top.i = 1
    <3>1. Len(lib[f]) = Len(Top.steps) /\ Cut(lib, Top, f) = 0
      BY <1>4, <1>5, <2>1 DEF InPlace, Cut
    <3>2. Len(Top.steps) > 0 => Top.steps[1] = lib[f][1]
      <4> SUFFICES ASSUME Len(Top.steps) > 0 PROVE Top.steps[1] = lib[f][1]
        OBVIOUS
      <4>1. 1 \in Top.i..Len(Top.steps) /\ 1 + 0 = 1
        BY <1>5, <2>1
      <4>2. Top.steps[1] = lib[f][1 + 0]
        BY <1>4, <3>1, <4>1 DEF InPlace
      <4> QED BY <4>1, <4>2
    <3> QED BY <2>1, <3>1, <3>2 DEF ValidFile, BeginsWell
  <2>2. CASE Top.i # 1
    <3>1. Top.i > 1
      BY <1>5, <2>2
    <3> QED BY <1>4, <2>2, <3>1 DEF ValidFile, InPlace
  <2> QED BY <2>1, <2>2
<1>7. ASSUME AtStep
      PROVE  Current \in StepsOf(lib) /\ Current \in Range(lib[f]) /\ IsStep(Current)
  <2>1. DOMAIN lib[f] = 1..Len(lib[f])
    BY <1>5, LenProperties
  <2>2. Current \in StepsOf(lib) /\ Current \in Range(lib[f])
    BY <1>5, <1>7, <2>1 DEF AtStep, Current, Range
  <2> QED BY <1>1, <2>2, FileTypes
<1> QED BY <1>1, <1>2, <1>3, <1>6, <1>7 DEF f, d

\* Lists that are joined stay lists of what can be made.
LEMMA JoinTypes ==
    ASSUME NEW files \in Library, NEW info \in Infos(files), NEW ext \in Infos(files)
    PROVE  /\ info.Accs \o ext.Accs \in Seq(Range(AccountMade(files)))
           /\ info.DeployedAccs \o ext.DeployedAccs \in Seq(Range(MockMade(files)))
           /\ info.Txs \o ext.Txs \in Seq(Range(CallMade(files)))
           /\ info.DeployTxs \o ext.DeployTxs \in Seq(Range(DeploymentMade(files)))
           /\ Len(info.Txs) \in Nat
           /\ info.Accs \o <<>> = info.Accs /\ info.DeployedAccs \o <<>> = info.DeployedAccs
           /\ info.Txs \o <<>> = info.Txs /\ info.DeployTxs \o <<>> = info.DeployTxs
<1>1. \A x \in {info, ext} : /\ x.Accs \in Seq(Range(AccountMade(files)))
                             /\ x.DeployedAccs \in Seq(Range(MockMade(files)))
                             /\ x.Txs \in Seq(Range(CallMade(files)))
                             /\ x.DeployTxs \in Seq(Range(DeploymentMade(files)))
  BY DEF Infos
<1>2. ASSUME NEW V, NEW a \in Seq(V), NEW b \in Seq(V)
      PROVE  a \o b \in Seq(V) /\ a \o <<>> = a /\ Len(a) \in Nat
  BY ConcatProperties, ConcatEmptySeq, LenProperties
<1> QED BY <1>1, <1>2

\* A step of the last frame alone.
LEMMA TopStep ==
    ASSUME IInv, pc = "running", UNCHANGED <<lib, pc, result>>, NEW fr \in Frames(lib),
           FrameInv(lib, fr, TopFile(stack), TopDepth(stack)), SetTop(fr)
    PROVE  IInv'
<1>1. StackInv(lib, stack) /\ lib \in Library
  BY Running
<1>2. StackInv(lib, stack')
  BY <1>1, TopGoesOn DEF SetTop
<1> QED BY <1>1, <1>2 DEF IInv, EndsRightly

\* A step that is passed leaves what it yields.
LEMMA YieldStep ==
    ASSUME IInv, AtStep, ValidFile, UNCHANGED <<lib, pc, result>>, Passes(Current), ~GoesInto(Current),
           NEW fr \in Frames(lib), GoesOn(Top, fr), SetTop(fr), Joins(Top.info, Yield(Current), fr.info),
           fr.info.BenchmarkTxPos =
               FirstOf(Top.info.BenchmarkTxPos, Yield(Current).BenchmarkTxPos, Len(Top.info.Txs))
    PROVE  IInv'
<1> DEFINE f == TopFile(stack)
           d == TopDepth(stack)
           s == Current
<1>1. /\ pc = "running" /\ lib \in Library /\ Top \in Frames(lib) /\ d \in 1..MaxDepth
      /\ FrameInv(lib, Top, f, d) /\ BeginsWell(lib[f]) /\ s \in StepsOf(lib)
      /\ Top.i <= Len(Top.steps) /\ s = Top.steps[Top.i]
  BY Running DEF AtStep, Current
<1>2. /\ Yield(s) \in Infos(lib)
      /\ Collected(lib, Yield(s), <<s>>) /\ Positioned(lib, Yield(s), <<s>>)
  BY <1>1, YieldCollected
<1>3. Unfolding(lib, d)[s] = <<s>>
  BY <1>1 DEF Unfolding
<1>4. s.kind \notin {"tx", "externalSteps"} => Yield(s).Txs = <<>>
  BY DEF Yield, IsCall, IsGoodTx
<1>5. Len(Top.info.Txs) \in Nat
  <2>1. Top.info \in Infos(lib)
    BY <1>1 DEF Frames
  <2> QED BY <1>1, <2>1, JoinTypes
<1> HIDE DEF f, d, s
<1>6. FrameInv(lib, fr, f, d)
  BY <1>1, <1>2, <1>3, <1>4, <1>5, FrameStep DEF s
<1> QED BY <1>1, <1>6, TopStep DEF f, d

\* Two results joined, the position of the second one shifted.
Joined(info, ext, shift) ==
    [Accs |-> info.Accs \o ext.Accs, DeployedAccs |-> info.DeployedAccs \o ext.DeployedAccs,
     Txs |-> info.Txs \o ext.Txs, DeployTxs |-> info.DeployTxs \o ext.DeployTxs,
     BenchmarkTxPos |-> FirstOf(info.BenchmarkTxPos, ext.BenchmarkTxPos, shift)]

\* Results that are joined are a result.
LEMMA JoinedTypes ==
    ASSUME NEW files \in Library, NEW info \in Infos(files), NEW ext \in Infos(files), NEW shift \in Nat
    PROVE  Joined(info, ext, shift) \in Infos(files) /\ Joins(info, ext, Joined(info, ext, shift))
<1>1. /\ info.BenchmarkTxPos \in Nat \union {InvalidBenchmarkTxPos}
      /\ ext.BenchmarkTxPos \in Nat \union {InvalidBenchmarkTxPos}
  BY DEF Infos
<1>2. FirstOf(info.BenchmarkTxPos, ext.BenchmarkTxPos, shift) \in Nat \union {InvalidBenchmarkTxPos}
  BY <1>1 DEF FirstOf
<1>3. Joined(info, ext, shift) \in Infos(files)
  BY <1>2, JoinTypes DEF Infos, Joined
<1> QED BY <1>3 DEF Joined, Joins

\* A frame at its next step.
Advanced(fr, info) == [fr EXCEPT !.i = @ + 1, !.info = info]

\* It is a frame.
LEMMA AdvancedFrame ==
    ASSUME NEW files \in Library, NEW fr \in Frames(files), NEW info \in Infos(files)
    PROVE  LET fr2 == Advanced(fr, info)
           IN  fr2 \in Frames(files) /\ fr2.steps = fr.steps /\ fr2.i = fr.i + 1 /\ fr2.info = info
<1> DEFINE fr2 == Advanced(fr, info)
<1>1. fr.steps \in Seq(StepsOf(files)) /\ fr.i \in Nat \ {0}
  BY DEF Frames
<1>2. fr.i + 1 \in Nat \ {0}
  BY <1>1
<1>3. fr2 = [steps |-> fr.steps, i |-> fr.i + 1, info |-> info]
  <2> DEFINE k == fr.i + 1
  <2>1. fr2 = [fr EXCEPT !.i = k, !.info = info]
    BY DEF Advanced
  <2> HIDE DEF k, fr2
  <2>2. fr2 = [steps |-> fr.steps, i |-> k, info |-> info]
    BY <2>1 DEF Frames
  <2> QED BY <2>2 DEF k
<1> HIDE DEF fr2
<1>4. fr2 \in Frames(files) /\ fr2.steps = fr.steps /\ fr2.i = fr.i + 1 /\ fr2.info = info
  BY <1>1, <1>2, <1>3 DEF Frames
<1> QED BY <1>4 DEF fr2

\* A step of the last frame that is passed, and what it yields is joined.
LEMMA AdvanceStep ==
    ASSUME IInv, AtStep, ValidFile, Passes(Current), ~GoesInto(Current),
           Advance(Joined(Top.info, Yield(Current), Len(Top.info.Txs)))
    PROVE  IInv'
<1> DEFINE info == Joined(Top.info, Yield(Current), Len(Top.info.Txs))
           fr == Advanced(Top, info)
<1>1. lib \in Library /\ Top \in Frames(lib) /\ Current \in StepsOf(lib)
  BY Running DEF AtStep
<1>2. Top.info \in Infos(lib) /\ Yield(Current) \in Infos(lib)
  <2>1. Yield(Current) \in Infos(lib)
    BY <1>1, YieldCollected
  <2> QED BY <1>1, <2>1 DEF Frames
<1>3. Len(Top.info.Txs) \in Nat
  BY <1>1, <1>2, JoinTypes
<1>4. info \in Infos(lib) /\ Joins(Top.info, Yield(Current), info)
  BY <1>1, <1>2, <1>3, JoinedTypes
<1>5. info.BenchmarkTxPos = FirstOf(Top.info.BenchmarkTxPos, Yield(Current).BenchmarkTxPos, Len(Top.info.Txs))
  BY DEF Joined
<1>6. SetTop([Top EXCEPT !.i = @ + 1, !.info = info]) /\ UNCHANGED <<lib, pc, result>>
  BY DEF Advance
<1> HIDE DEF info
<1>7. fr \in Frames(lib) /\ fr.steps = Top.steps /\ fr.i = Top.i + 1 /\ fr.info = info
  BY <1>1, <1>4, AdvancedFrame
<1>8. SetTop(fr)
  BY <1>6 DEF Advanced
<1> HIDE DEF fr
<1>9. GoesOn(Top, fr)
  BY <1>7 DEF GoesOn
<1> QED BY <1>4, <1>5, <1>6, <1>7, <1>8, <1>9, YieldStep

\* An export that fails goes into a file that is not exportable.
LEMMA InvalidStep ==
    ASSUME IInv, pc = "running", Invalid, Unexportable(lib[TopFile(stack)])
    PROVE  IInv'
<1>1. lib \in Library /\ TopFile(stack) \in Reaches(lib)[MaxDepth][Root]
  BY Running
<1>2. lib' = lib /\ pc' = "invalid"
  BY DEF Invalid
<1>3. EndsRightly(lib, "invalid")
  BY <1>1 DEF EndsRightly
<1> QED BY <1>1, <1>2, <1>3 DEF IInv

\* An export that crashes goes into a file that lacks something.
LEMMA CrashStep ==
    ASSUME IInv, pc = "running", Crash, Lacks(lib[TopFile(stack)])
    PROVE  IInv'
<1>1. lib \in Library /\ TopFile(stack) \in Reaches(lib)[MaxDepth][Root]
  BY Running
<1>2. lib' = lib /\ pc' = "crashed"
  BY DEF Crash
<1>3. EndsRightly(lib, "crashed")
  BY <1>1 DEF EndsRightly
<1> QED BY <1>1, <1>2, <1>3 DEF IInv

\* A file that does not begin as it has to.
LEMMA BadFileStep ==
    ASSUME IInv, BadFile
    PROVE  IInv'
<1>1. pc = "running" /\ ~ValidFile /\ Invalid
  BY DEF BadFile
<1>2. lib[TopFile(stack)] \in Seq(StepsOf(lib)) /\ ~BeginsWell(lib[TopFile(stack)])
  BY <1>1, Running, FileTypes
<1>3. Unexportable(lib[TopFile(stack)])
  BY <1>2, LenProperties DEF BeginsWell, Unexportable
<1> QED BY <1>1, <1>3, InvalidStep

\* Accounts and mocked addresses.
LEMMA SetStateStep ==
    ASSUME IInv, SetState
    PROVE  IInv'
<1>1. AtStep /\ ValidFile /\ Current.kind = "setState" /\ pc = "running"
  BY DEF SetState, AtStep
<1>2. /\ Current \in Range(lib[TopFile(stack)]) /\ IsStep(Current)
      /\ lib \in Library /\ Top \in Frames(lib)
  BY <1>1, Running
<1>3. CASE ~HaveOwners(Current.accounts)
  <2>1. Invalid
    BY <1>3 DEF SetState
  <2>2. \E a \in Range(Current.accounts) : a.code /\ ~a.owner
    BY <1>3 DEF HaveOwners, Range
  <2>3. Unexportable(lib[TopFile(stack)])
    BY <1>1, <1>2, <2>2 DEF Unexportable
  <2> QED BY <1>1, <2>1, <2>3, InvalidStep
<1>4. CASE HaveOwners(Current.accounts)
  <2>1. Passes(Current) /\ ~GoesInto(Current)
    BY <1>1, <1>4 DEF SetState, Passes, GoesInto, HaveOwners, AllNamed, Range
  <2> DEFINE info == [Top.info EXCEPT
                 !.Accs = @ \o [i \in DOMAIN Current.accounts |-> TestAccount(Current.accounts[i])],
                 !.DeployedAccs = @ \o [i \in DOMAIN Current.mocks |-> DeployedAccount(Current.mocks[i])]]
  <2>2. Advance(info)
    BY <1>4 DEF SetState
  <2>3. Top.info \in Infos(lib)
    BY <1>2 DEF Frames
  <2>4. info = Joined(Top.info, Yield(Current), Len(Top.info.Txs))
    <3> DEFINE y == Yield(Current)
    <3>1. /\ y.Accs = [i \in DOMAIN Current.accounts |-> TestAccount(Current.accounts[i])]
          /\ y.DeployedAccs = [i \in DOMAIN Current.mocks |-> DeployedAccount(Current.mocks[i])]
          /\ y.Txs = <<>> /\ y.DeployTxs = <<>> /\ y.BenchmarkTxPos = InvalidBenchmarkTxPos
      BY <1>1 DEF Yield, IsCall, IsDeployment, IsGoodTx
    <3> HIDE DEF y
    <3>2. info = [Top.info EXCEPT !.Accs = @ \o y.Accs, !.DeployedAccs = @ \o y.DeployedAccs]
      BY <3>1
    <3> HIDE DEF info
    <3>3. Top.info.Txs \o y.Txs = Top.info.Txs /\ Top.info.DeployTxs \o y.DeployTxs = Top.info.DeployTxs
      BY <1>2, <2>3, <3>1, JoinTypes
    <3>4. FirstOf(Top.info.BenchmarkTxPos, y.BenchmarkTxPos, Len(Top.info.Txs)) = Top.info.BenchmarkTxPos
      BY <3>1 DEF FirstOf
    <3>5. info = Joined(Top.info, y, Len(Top.info.Txs))
      BY <2>3, <3>2, <3>3, <3>4 DEF Joined, Infos
    <3> QED BY <3>5 DEF y
  <2> HIDE DEF info
  <2> QED BY <1>1, <2>1, <2>2, <2>4, AdvanceStep
<1> QED BY <1>3, <1>4

\* What a step that yields no transaction leaves as it was.
LEMMA JoinedNothing ==
    ASSUME NEW files \in Library, NEW info \in Infos(files), NEW shift,
           NEW ext, ext = Empty
    PROVE  Joined(info, ext, shift) = info
<1>1. /\ info.Accs \o <<>> = info.Accs /\ info.DeployedAccs \o <<>> = info.DeployedAccs
      /\ info.Txs \o <<>> = info.Txs /\ info.DeployTxs \o <<>> = info.DeployTxs
  BY JoinTypes
<1>2. FirstOf(info.BenchmarkTxPos, InvalidBenchmarkTxPos, shift) = info.BenchmarkTxPos
  BY DEF FirstOf
<1> QED BY <1>1, <1>2 DEF Joined, Empty, Infos

\* One more element.
LEMMA AppendAny ==
    ASSUME NEW V, NEW seq \in Seq(V), NEW x
    PROVE  Append(seq, x) = seq \o <<x>>
<1>1. seq \in Seq(V \union {x})
  <2>1. Len(seq) \in Nat /\ \A i \in 1..Len(seq) : seq[i] \in V
    BY LenProperties, ElementOfSeq
  <2> QED BY <2>1
<1> QED BY <1>1, AppendIsConcat

\* A call or an upgrade that is expected to succeed.
LEMMA CallOrUpgradeStep ==
    ASSUME IInv, CallOrUpgrade
    PROVE  IInv'
<1> DEFINE s == Current
           y == Yield(s)
           tx == IF s.type = "scCall" THEN CreateTransaction(s) ELSE CreateUpgradeTransaction(s)
           info == [Top.info EXCEPT !.BenchmarkTxPos = BenchmarkTxPos(Top.info, s), !.Txs = Append(@, tx)]
<1>1. /\ AtStep /\ ValidFile /\ pc = "running" /\ s.kind = "tx" /\ s.status = "ok"
      /\ s.type \in {"scCall", "scUpgrade"} /\ HasReceiver(s) /\ HasCode(s)
      /\ Advance(info)
  BY DEF CallOrUpgrade, AtGoodTx, AtStep, Succeeds
<1>2. lib \in Library /\ Top \in Frames(lib)
  BY <1>1, Running
<1>3. Passes(s) /\ ~GoesInto(s)
  BY <1>1 DEF Passes, GoesInto, HasReceiver, HasCode
<1>4. Top.info \in Infos(lib)
  BY <1>2 DEF Frames
<1>5. /\ y.Accs = <<>> /\ y.DeployedAccs = <<>> /\ y.Txs = <<tx>> /\ y.DeployTxs = <<>>
      /\ y.BenchmarkTxPos = IF s.ident = "benchmark" THEN 0 ELSE InvalidBenchmarkTxPos
  BY <1>1 DEF Yield, IsCall, IsDeployment, IsGoodTx, CallOf
<1> HIDE DEF y, tx
<1>6. info = Joined(Top.info, y, Len(Top.info.Txs))
  <2>1. /\ Top.info.Accs \o y.Accs = Top.info.Accs
        /\ Top.info.DeployedAccs \o y.DeployedAccs = Top.info.DeployedAccs
        /\ Top.info.DeployTxs \o y.DeployTxs = Top.info.DeployTxs
        /\ Len(Top.info.Txs) \in Nat /\ Top.info.Txs \in Seq(Range(CallMade(lib)))
    BY <1>2, <1>4, <1>5, JoinTypes DEF Infos
  <2> DEFINE more == Append(Top.info.Txs, tx)
  <2>2. Top.info.Txs \o y.Txs = more
    BY <1>5, <2>1, AppendAny
  <2>a. info = [Top.info EXCEPT !.BenchmarkTxPos = BenchmarkTxPos(Top.info, s), !.Txs = more]
    OBVIOUS
  <2> HIDE DEF more, info
  <2>3. FirstOf(Top.info.BenchmarkTxPos, y.BenchmarkTxPos, Len(Top.info.Txs)) = BenchmarkTxPos(Top.info, s)
    <3> DEFINE L == Len(Top.info.Txs)
    <3>1. L \in Nat /\ L + 0 = L
      BY <2>1
    <3>2. BenchmarkTxPos(Top.info, s) = IF s.ident = "benchmark" /\ Top.info.BenchmarkTxPos = InvalidBenchmarkTxPos
                                        THEN L ELSE Top.info.BenchmarkTxPos
      BY DEF BenchmarkTxPos
    <3> HIDE DEF L
    <3>3. FirstOf(Top.info.BenchmarkTxPos, y.BenchmarkTxPos, L) = BenchmarkTxPos(Top.info, s)
      BY <1>5, <3>1, <3>2 DEF FirstOf, InvalidBenchmarkTxPos
    <3> QED BY <3>3 DEF L
  <2> QED BY <1>4, <2>a, <2>1, <2>2, <2>3 DEF Joined, Infos
<1> HIDE DEF info, s
<1>7. Advance(Joined(Top.info, Yield(Current), Len(Top.info.Txs)))
  BY <1>1, <1>6 DEF y, s
<1> QED BY <1>1, <1>3, <1>7, AdvanceStep DEF s

\* A deployment that is expected to succeed.
LEMMA DeployStep ==
    ASSUME IInv, Deploy
    PROVE  IInv'
<1> DEFINE s == Current
           y == Yield(s)
           tx == CreateDeployTransaction(s)
           info == [Top.info EXCEPT !.DeployTxs = Append(@, tx)]
<1>1. /\ AtStep /\ ValidFile /\ pc = "running" /\ s.kind = "tx" /\ s.status = "ok"
      /\ s.type = "scDeploy" /\ HasCode(s) /\ Advance(info)
  BY DEF Deploy, AtGoodTx, AtStep, Succeeds
<1>2. lib \in Library /\ Top \in Frames(lib)
  BY <1>1, Running
<1>3. Passes(s) /\ ~GoesInto(s)
  BY <1>1 DEF Passes, GoesInto, HasCode
<1>4. Top.info \in Infos(lib)
  BY <1>2 DEF Frames
<1>5. /\ y.Accs = <<>> /\ y.DeployedAccs = <<>> /\ y.Txs = <<>> /\ y.DeployTxs = <<tx>>
      /\ y.BenchmarkTxPos = InvalidBenchmarkTxPos
  BY <1>1 DEF Yield, IsCall, IsDeployment, IsGoodTx
<1> HIDE DEF y, tx
<1>6. info = Joined(Top.info, y, Len(Top.info.Txs))
  <2>1. /\ Top.info.Accs \o y.Accs = Top.info.Accs
        /\ Top.info.DeployedAccs \o y.DeployedAccs = Top.info.DeployedAccs
        /\ Top.info.Txs \o y.Txs = Top.info.Txs
        /\ Top.info.DeployTxs \in Seq(Range(DeploymentMade(lib)))
    BY <1>2, <1>4, <1>5, JoinTypes DEF Infos
  <2> DEFINE more == Append(Top.info.DeployTxs, tx)
  <2>2. Top.info.DeployTxs \o y.DeployTxs = more
    BY <1>5, <2>1, AppendAny
  <2>a. info = [Top.info EXCEPT !.DeployTxs = more]
    OBVIOUS
  <2> HIDE DEF more, info
  <2>3. FirstOf(Top.info.BenchmarkTxPos, y.BenchmarkTxPos, Len(Top.info.Txs)) = Top.info.BenchmarkTxPos
    BY <1>5 DEF FirstOf
  <2> QED BY <1>4, <2>a, <2>1, <2>2, <2>3 DEF Joined, Infos
<1> HIDE DEF info, s
<1>7. Advance(Joined(Top.info, Yield(Current), Len(Top.info.Txs)))
  BY <1>1, <1>6 DEF y, s
<1> QED BY <1>1, <1>3, <1>7, AdvanceStep DEF s

\* A transaction that is passed over.
LEMMA FailedTxStep ==
    ASSUME IInv, FailedTx
    PROVE  IInv'
<1>1. /\ AtStep /\ ValidFile /\ pc = "running" /\ Current.kind = "tx" /\ Current.status = "failed"
      /\ Advance(Top.info)
  BY DEF FailedTx, AtStep
<1>2. lib \in Library /\ Top \in Frames(lib)
  BY <1>1, Running
<1>3. Passes(Current) /\ ~GoesInto(Current)
  BY <1>1 DEF Passes, GoesInto
<1>4. Yield(Current) = Empty
  BY <1>1 DEF Yield, IsCall, IsDeployment, IsGoodTx, Empty
<1>5. Top.info \in Infos(lib)
  BY <1>2 DEF Frames
<1>6. Joined(Top.info, Yield(Current), Len(Top.info.Txs)) = Top.info
  BY <1>2, <1>4, <1>5, JoinedNothing
<1> QED BY <1>1, <1>3, <1>6, AdvanceStep

\* A step that is cut out.
LEMMA CutOutStep ==
    ASSUME IInv, OtherStep
    PROVE  IInv'
<1> DEFINE fr == Drop(Top)
<1>1. /\ AtStep /\ ValidFile /\ pc = "running" /\ SetTop(fr) /\ UNCHANGED <<lib, pc, result>>
      /\ \/ Current.kind \in {"checkState", "dumpState"}
         \/ Current.kind = "tx" /\ Current.status = "ok" /\ Current.type = "scQuery"
      /\ Top.i <= Len(Top.steps)
  BY DEF OtherStep, AtStep, Succeeds
<1>2. lib \in Library /\ Top \in Frames(lib)
  BY <1>1, Running
<1>3. Passes(Current) /\ ~GoesInto(Current)
  BY <1>1 DEF Passes, GoesInto
<1>4. Yield(Current) = Empty
  BY <1>1 DEF Yield, IsCall, IsDeployment, IsGoodTx, Empty
<1>5. Top.info \in Infos(lib) /\ Top.steps \in Seq(StepsOf(lib)) /\ Top.i \in Nat \ {0}
  BY <1>2 DEF Frames
<1>6. Top.i # 1
  BY <1>1 DEF ValidFile, AtStep, Current
<1>7. RemoveAt(Top.steps, Top.i) \in Seq(StepsOf(lib))
  <2>1. ASSUME NEW S, NEW seq \in Seq(S), NEW k \in 1..Len(seq) PROVE RemoveAt(seq, k) \in Seq(S)
    <3>1. Len(seq) \in Nat /\ \A j \in 1..Len(seq) : seq[j] \in S
      BY LenProperties, ElementOfSeq
    <3>2. k - 1 \in Int /\ k + 1 \in Int
      BY <3>1
    <3>3. SubSeq(seq, 1, k - 1) \in Seq(S)
      <4>1. \A j \in 1..(k - 1) : seq[j] \in S
        BY <3>1
      <4> QED BY <3>2, <4>1, SubSeqProperties
    <3>4. SubSeq(seq, k + 1, Len(seq)) \in Seq(S)
      <4>1. \A j \in (k + 1)..Len(seq) : seq[j] \in S
        BY <3>1
      <4> QED BY <3>1, <3>2, <4>1, SubSeqProperties
    <3> QED BY <3>3, <3>4, ConcatProperties DEF RemoveAt
  <2>2. Top.i \in 1..Len(Top.steps)
    BY <1>1, <1>5, LenProperties
  <2> QED BY <1>5, <2>1, <2>2
<1>8. fr \in Frames(lib) /\ fr.steps = RemoveAt(Top.steps, Top.i) /\ fr.i = Top.i /\ fr.info = Top.info
  <2> DEFINE rest == RemoveAt(Top.steps, Top.i)
  <2>1. fr = [Top EXCEPT !.steps = rest]
    BY DEF Drop
  <2> HIDE DEF fr, rest
  <2>2. fr = [steps |-> rest, i |-> Top.i, info |-> Top.info]
    BY <1>2, <2>1 DEF Frames
  <2>3. fr \in Frames(lib) /\ fr.steps = rest /\ fr.i = Top.i /\ fr.info = Top.info
    BY <1>5, <1>7, <2>2 DEF Frames, rest
  <2> QED BY <2>3 DEF rest
<1> HIDE DEF fr
<1>9. GoesOn(Top, fr)
  BY <1>6, <1>8 DEF GoesOn
<1>10. /\ Joins(Top.info, Yield(Current), fr.info)
       /\ fr.info.BenchmarkTxPos =
              FirstOf(Top.info.BenchmarkTxPos, Yield(Current).BenchmarkTxPos, Len(Top.info.Txs))
  <2>1. Joined(Top.info, Yield(Current), Len(Top.info.Txs)) = fr.info
    BY <1>2, <1>4, <1>5, <1>8, JoinedNothing
  <2> DEFINE info == fr.info
             y == Yield(Current)
  <2>2. info = Joined(Top.info, y, Len(Top.info.Txs))
    BY <2>1
  <2> HIDE DEF info, y
  <2>3. /\ Joins(Top.info, y, info)
        /\ info.BenchmarkTxPos =
               FirstOf(Top.info.BenchmarkTxPos, y.BenchmarkTxPos, Len(Top.info.Txs))
    BY <2>2 DEF Joins, Joined
  <2> QED BY <2>3 DEF info, y
<1> QED BY <1>1, <1>3, <1>8, <1>9, <1>10, YieldStep

\* What crashes an export.
LEMMA CrashSteps ==
    ASSUME IInv, NilResult \/ NotThere
    PROVE  IInv'
<1>1. AtStep /\ ValidFile /\ pc = "running" /\ Crash
  BY DEF NilResult, NotThere, AtStep
<1>2. Current \in Range(lib[TopFile(stack)]) /\ IsStep(Current)
  BY <1>1, Running
<1>3. \/ Current.kind = "tx" /\ Current.status \in {"star", "none"}
      \/ Current.kind = "tx" /\ Current.status = "ok" /\ ~(HasReceiver(Current) /\ HasCode(Current))
      \/ Current.kind = "setState" /\ ~AllNamed(Current.mocks)
  BY DEF NilResult, NotThere, Succeeds
<1>4. CASE Current.kind = "tx" /\ Current.status \in {"star", "none"}
  BY <1>1, <1>2, <1>4, CrashStep DEF Lacks
<1>5. CASE Current.kind = "tx" /\ Current.status = "ok" /\ ~(HasReceiver(Current) /\ HasCode(Current))
  <2>1. Lacks(lib[TopFile(stack)])
    BY <1>2, <1>5 DEF Lacks, HasReceiver, HasCode
  <2> QED BY <1>1, <2>1, CrashStep
<1>6. CASE Current.kind = "setState" /\ ~AllNamed(Current.mocks)
  <2>1. \E m \in Range(Current.mocks) : m.address = Unnamed
    BY <1>6 DEF AllNamed, Range
  <2>2. Lacks(lib[TopFile(stack)])
    BY <1>2, <1>6, <2>1 DEF Lacks
  <2> QED BY <1>1, <2>2, CrashStep
<1> QED BY <1>3, <1>4, <1>5, <1>6

\* Another file.
LEMMA GoesIntoStep ==
    ASSUME IInv, ExternalSteps
    PROVE  IInv'
<1> DEFINE f == TopFile(stack)
           d == TopDepth(stack)
           s == Current
<1>1. AtStep /\ ValidFile /\ pc = "running" /\ s.kind = "externalSteps" /\ Top.i <= Len(Top.steps)
  BY DEF ExternalSteps, AtStep
<1>2. /\ lib \in Library /\ StackInv(lib, stack) /\ Top = TopFrame(stack) /\ FrameInv(lib, Top, f, d)
      /\ s \in StepsOf(lib) /\ s \in Range(lib[f]) /\ f \in File /\ d \in 1..MaxDepth
  BY <1>1, Running
<1>3. CASE s.path = Missing
  <2>1. Invalid
    BY <1>3 DEF ExternalSteps
  <2>2. Unexportable(lib[f])
    BY <1>1, <1>2, <1>3 DEF Unexportable
  <2> QED BY <1>1, <2>1, <2>2, InvalidStep
<1>4. CASE s.path # Missing
  <2> DEFINE fr == [steps |-> lib[s.path], i |-> 1, info |-> Empty]
  <2>1. Len(stack) < MaxDepth /\ stack' = Append(stack, fr) /\ UNCHANGED <<lib, pc, result>>
    BY <1>4 DEF ExternalSteps, Frame
  <2>2. GoesInto(s) /\ s.path \in File /\ s = Top.steps[Top.i]
    <3>1. GoesInto(s)
      BY <1>1, <1>4 DEF GoesInto
    <3> QED BY <1>2, <3>1, FileTypes DEF Current
  <2>3. d - 1 \in 1..MaxDepth
    <3>1. MaxDepth \in Nat /\ Len(stack) \in 1..MaxDepth
      BY <1>2, StackTypes
    <3> DEFINE L == Len(stack)
    <3>2. L < MaxDepth /\ L \in 1..MaxDepth /\ d = MaxDepth - L + 1
      BY <2>1, <3>1 DEF TopDepth
    <3> HIDE DEF L, d
    <3> QED BY <3>1, <3>2
  <2>4. Reaches(lib)[d - 1][s.path] \subseteq Reaches(lib)[MaxDepth][Root]
    <3>1. Reaches(lib)[d][f] = FromHere(lib, f, Reaches(lib)[d - 1])
      BY <1>2, ReachesDef
    <3>2. Reaches(lib)[d][f] \subseteq Reaches(lib)[MaxDepth][Root]
      BY <1>2 DEF FrameInv
    <3>3. Reaches(lib)[d - 1][s.path] \subseteq FromHere(lib, f, Reaches(lib)[d - 1])
      BY <1>2, <2>2 DEF FromHere
    <3> QED BY <3>1, <3>2, <3>3
  <2>5. fr \in Frames(lib) /\ FrameInv(lib, fr, s.path, d - 1)
    BY <1>2, <2>2, <2>3, <2>4, FrameBegins
  <2> HIDE DEF fr, f, d, s
  <2>6. Waits(TopFrame(stack)) /\ TopFrame(stack).steps[TopFrame(stack).i].path = s.path
    BY <1>1, <1>2, <2>2 DEF Waits
  <2>7. StackInv(lib, stack')
    BY <1>2, <2>1, <2>2, <2>5, <2>6, TopGoesInto DEF d
  <2> QED BY <1>1, <1>2, <2>1, <2>7 DEF IInv, EndsRightly
<1> QED BY <1>3, <1>4

\* The outermost file ends.
LEMMA ReturnsLast ==
    ASSUME IInv, Return, Len(stack) = 1
    PROVE  IInv'
<1>1. /\ pc = "running" /\ ValidFile /\ Top.i > Len(Top.steps)
      /\ lib' = lib /\ pc' = "done" /\ result' = Top.info
  BY DEF Return
<1>2. /\ lib \in Library /\ Top \in Frames(lib) /\ FrameInv(lib, Top, TopFile(stack), TopDepth(stack))
      /\ TopDepth(stack) \in 1..MaxDepth /\ BeginsWell(lib[TopFile(stack)])
  BY <1>1, Running
<1>3. TopFile(stack) = Root /\ TopDepth(stack) = MaxDepth
  BY DepthAssumption DEF TopFile, TopDepth, FileOf
<1>4. /\ Collected(lib, Top.info, Unfolded(lib)[MaxDepth][Root])
      /\ Positioned(lib, Top.info, Unfolded(lib)[MaxDepth][Root])
      /\ \A g \in Reaches(lib)[MaxDepth][Root] : Exportable(lib[g])
  BY <1>1, <1>2, <1>3, FrameEnds
<1>5. Top.info \in Infos(lib)
  BY <1>2 DEF Frames
<1>6. Complete(lib, Top.info) /\ EndsRightly(lib, "done")
  BY <1>4, <1>5 DEF Complete, EndsRightly
<1> QED BY <1>1, <1>2, <1>6 DEF IInv

\* The caller of the last frame, at the step that goes into its file.
LEMMA Caller ==
    ASSUME NEW files \in Library, NEW frames, StackInv(files, frames), Len(frames) # 1,
           NEW caller, caller = frames[Len(frames) - 1], NEW f, f = FileOf(frames, Len(frames) - 1)
    PROVE  /\ Len(frames) > 1 /\ caller \in Frames(files) /\ TopDepth(frames) + 1 \in 1..MaxDepth
           /\ FrameInv(files, caller, f, TopDepth(frames) + 1)
           /\ Waits(caller) /\ TopFile(frames) = caller.steps[caller.i].path
           /\ BeginsWell(files[f])
<1> DEFINE L == Len(frames)
<1>1. MaxDepth \in Nat /\ L \in 1..MaxDepth /\ L # 1
  BY StackTypes
<1>2. /\ \A k \in 1..L : FrameInv(files, frames[k], FileOf(frames, k), MaxDepth - k + 1)
      /\ \A k \in 1..(L - 1) : Waits(frames[k])
      /\ \A k \in 1..L : frames[k] \in Frames(files)
  BY ElementOfSeq DEF StackInv
<1>d. TopDepth(frames) = MaxDepth - L + 1 /\ TopFile(frames) = FileOf(frames, L)
  BY DEF TopDepth, TopFile
<1>c. caller = frames[L - 1] /\ f = FileOf(frames, L - 1)
  OBVIOUS
<1> HIDE DEF L
<1>3. /\ L - 1 \in 1..L /\ L - 1 \in 1..(L - 1) /\ L > 1
      /\ MaxDepth - (L - 1) + 1 = (MaxDepth - L + 1) + 1 /\ (MaxDepth - L + 1) + 1 \in 1..MaxDepth
  BY <1>1
<1>4. FrameInv(files, caller, f, (MaxDepth - L + 1) + 1)
  BY <1>2, <1>3, <1>c
<1>5. Waits(caller) /\ caller \in Frames(files)
  BY <1>2, <1>3, <1>c
<1>6. TopFile(frames) = caller.steps[caller.i].path
  BY <1>1, <1>c, <1>d DEF FileOf
<1>7. BeginsWell(files[f])
  <2>1. InPlace(files, caller, f) /\ f \in File
    BY <1>4 DEF FrameInv
  <2>2. /\ caller.i \in Nat \ {0} /\ Len(caller.steps) \in Nat /\ Len(files[f]) \in Nat
        /\ caller.i <= Len(caller.steps) /\ GoesInto(caller.steps[caller.i])
    BY <1>5, <2>1, FrameTypes DEF Waits
  <2>3. CASE caller.i = 1
    <3>1. Cut(files, caller, f) = 0
      BY <2>1, <2>3 DEF InPlace
    <3>2. Len(files[f]) = Len(caller.steps)
      BY <2>2, <3>1 DEF Cut
    <3>3. caller.steps[1] = files[f][1]
      <4>1. 1 \in caller.i..Len(caller.steps) /\ 1 + 0 = 1
        BY <2>2, <2>3
      <4>2. caller.steps[1] = files[f][1 + Cut(files, caller, f)]
        BY <2>1, <4>1 DEF InPlace
      <4> QED BY <3>1, <4>1, <4>2
    <3> QED BY <2>2, <2>3, <3>2, <3>3 DEF BeginsWell, GoesInto
  <2>4. CASE caller.i # 1
    <3>1. caller.i > 1
      BY <2>2, <2>4
    <3> QED BY <2>1, <3>1 DEF InPlace
  <2> QED BY <2>3, <2>4
<1>8. L > 1
  BY <1>3
<1> QED BY <1>3, <1>4, <1>5, <1>6, <1>7, <1>8, <1>d DEF L

\* What a merge gives.
LEMMA MergeIsJoined ==
    ASSUME NEW files \in Library, NEW info \in Infos(files), NEW ext \in Infos(files)
    PROVE  Merge(info, ext) = Joined(info, ext, 0)
<1>1. ext.BenchmarkTxPos \in Nat \union {InvalidBenchmarkTxPos}
  BY DEF Infos
<1>2. FirstOf(info.BenchmarkTxPos, ext.BenchmarkTxPos, 0) =
         IF info.BenchmarkTxPos = InvalidBenchmarkTxPos THEN ext.BenchmarkTxPos ELSE info.BenchmarkTxPos
  BY <1>1 DEF FirstOf
<1> QED BY <1>2 DEF Merge, Joined

\* An external file ends.
LEMMA ReturnsToCaller ==
    ASSUME IInv, Return, Len(stack) # 1
    PROVE  IInv'
<1> DEFINE caller == stack[Len(stack) - 1]
           f == FileOf(stack, Len(stack) - 1)
           d == TopDepth(stack) + 1
           ext == Top.info
           s == caller.steps[caller.i]
           info == Merge(caller.info, ext)
           fr == Advanced(caller, info)
           n == Passed(lib, caller, f)
<1>1. /\ pc = "running" /\ ValidFile /\ Top.i > Len(Top.steps) /\ UNCHANGED <<lib, pc, result>>
      /\ stack' = Append(SubSeq(stack, 1, Len(stack) - 2), fr)
  BY DEF Return, Advanced
<1>2. /\ lib \in Library /\ StackInv(lib, stack) /\ Top \in Frames(lib)
      /\ FrameInv(lib, Top, TopFile(stack), TopDepth(stack))
      /\ TopDepth(stack) \in 1..MaxDepth /\ BeginsWell(lib[TopFile(stack)])
  BY <1>1, Running
<1>3. /\ Len(stack) > 1 /\ caller \in Frames(lib) /\ d \in 1..MaxDepth /\ FrameInv(lib, caller, f, d)
      /\ Waits(caller) /\ TopFile(stack) = s.path /\ BeginsWell(lib[f])
  BY <1>2, Caller
<1>4. d - 1 = TopDepth(stack)
  BY <1>2
<1>5. /\ Collected(lib, ext, Unfolded(lib)[d - 1][s.path])
      /\ Positioned(lib, ext, Unfolded(lib)[d - 1][s.path])
      /\ \A g \in Reaches(lib)[d - 1][s.path] : Exportable(lib[g])
  BY <1>1, <1>2, <1>3, <1>4, FrameEnds
<1>6. ext \in Infos(lib) /\ caller.info \in Infos(lib)
  BY <1>2, <1>3 DEF Frames
<1>7. info = Joined(caller.info, ext, 0)
  BY <1>2, <1>6, MergeIsJoined
<1>8. info \in Infos(lib) /\ Joins(caller.info, ext, info)
  BY <1>2, <1>6, <1>7, JoinedTypes
<1>9. info.BenchmarkTxPos = FirstOf(caller.info.BenchmarkTxPos, ext.BenchmarkTxPos, 0)
  BY <1>7 DEF Joined
<1> HIDE DEF caller, info, ext, f, d
<1>10. fr \in Frames(lib) /\ fr.steps = caller.steps /\ fr.i = caller.i + 1 /\ fr.info = info
  BY <1>2, <1>3, <1>8, AdvancedFrame
<1>11. InPlace(lib, caller, f) /\ NoTxYet(lib, caller.info, f, n) /\ f \in File
  BY <1>3 DEF FrameInv
<1>12. /\ caller.i <= Len(caller.steps) /\ GoesInto(s) /\ s \in StepsOf(lib)
       /\ s = lib[f][n + 1] /\ n \in Nat /\ n + 1 \in 1..Len(lib[f])
  BY <1>2, <1>3, <1>11, FrameTypes DEF Waits
<1>13. Unfolding(lib, d)[s] = Unfolded(lib)[d - 1][s.path]
  BY <1>12 DEF Unfolding
<1>14. Passes(s)
  BY <1>12 DEF GoesInto, Passes
<1>15. ASSUME TxsFollowExternals(lib) PROVE 0 = Len(caller.info.Txs)
  <2>1. f \in Reaches(lib)[MaxDepth][Root]
    <3>1. f \in Reaches(lib)[d][f]
      BY <1>2, <1>3, <1>11, ReachesDef DEF FromHere
    <3> QED BY <1>3, <3>1 DEF FrameInv
  <2>2. n + 1 \in DOMAIN lib[f] /\ lib[f][n + 1].kind = "externalSteps"
    <3>1. lib[f] \in Seq(StepsOf(lib))
      BY <1>2, <1>11, FileTypes
    <3> QED BY <1>12, <3>1, LenProperties DEF GoesInto
  <2>3. (n + 1) - 1 = n
    BY <1>12
  <2>4. \A j \in 1..n : lib[f][j].kind \notin {"tx", "externalSteps"}
    <3> HIDE DEF n
    <3>1. \A j \in 1..((n + 1) - 1) : lib[f][j].kind \notin {"tx", "externalSteps"}
      BY <1>15, <2>1, <2>2 DEF TxsFollowExternals
    <3> QED BY <2>3, <3>1
  <2>5. caller.info.Txs = <<>>
    BY <1>11, <2>4 DEF NoTxYet
  <2> QED BY <2>5
<1>16. GoesOn(caller, fr)
  BY <1>10 DEF GoesOn
<1>17. s.kind = "externalSteps"
  BY <1>12 DEF GoesInto
<1> HIDE DEF fr, s, n
<1>18. FrameInv(lib, fr, f, d)
  BY <1>2, <1>3, <1>5, <1>6, <1>8, <1>9, <1>10, <1>12, <1>13, <1>14, <1>15, <1>16, <1>17, FrameStep DEF s
<1>19. StackInv(lib, stack')
  BY <1>1, <1>2, <1>3, <1>10, <1>18, CallerGoesOn DEF f, d
<1> QED BY <1>1, <1>2, <1>19 DEF IInv, EndsRightly

----------------------------------------------------------------------------
(* What is proved *)

\* Every frame is in place in its file, and what it has collected is what the
\* steps it has passed are to give; an export ends as the files it went into
\* allow, and a result is that of all steps.
THEOREM ExportInvariant == Spec => []IInv
<1>1. Init => IInv
  <2> SUFFICES ASSUME Init PROVE IInv
    OBVIOUS
  <2> DEFINE fr == [steps |-> lib[Root], i |-> 1, info |-> Empty]
  <2>1. lib \in Library /\ pc = "running" /\ stack = <<fr>>
    BY DEF Init
  <2>2. MaxDepth \in Nat /\ MaxDepth \in 1..MaxDepth /\ Root \in File
    BY DepthAssumption, FileAssumption
  <2>3. fr \in Frames(lib) /\ FrameInv(lib, fr, Root, MaxDepth)
    BY <2>1, <2>2, FrameBegins
  <2> HIDE DEF fr
  <2>4. stack \in Seq(Frames(lib)) /\ Len(stack) = 1 /\ stack[1] = fr /\ FileOf(stack, 1) = Root
    BY <2>1, <2>3 DEF FileOf
  <2>5. 1 \in 1..MaxDepth /\ MaxDepth - 1 + 1 = MaxDepth /\ \A k \in 1..1 : k = 1
    BY <2>2
  <2>6. \A k \in 1..(1 - 1) : FALSE
    OBVIOUS
  <2>7. StackInv(lib, stack)
    BY <2>3, <2>4, <2>5, <2>6 DEF StackInv
  <2> QED BY <2>1, <2>7 DEF IInv, EndsRightly
<1>2. IInv /\ [Next]_vars => IInv'
  <2> SUFFICES ASSUME IInv, [Next]_vars PROVE IInv'
    OBVIOUS
  <2>1. CASE BadFile
    BY <2>1, BadFileStep
  <2>2. CASE SetState
    BY <2>2, SetStateStep
  <2>3. CASE CallOrUpgrade
    BY <2>3, CallOrUpgradeStep
  <2>4. CASE Deploy
    BY <2>4, DeployStep
  <2>5. CASE FailedTx
    BY <2>5, FailedTxStep
  <2>6. CASE NilResult \/ NotThere
    BY <2>6, CrashSteps
  <2>7. CASE OtherStep
    BY <2>7, CutOutStep
  <2>8. CASE ExternalSteps
    BY <2>8, GoesIntoStep
  <2>9. CASE Return
    BY <2>9, ReturnsLast, ReturnsToCaller
  <2>10. CASE UNCHANGED vars
    BY <2>10 DEF vars, IInv
  <2> QED BY <2>1, <2>2, <2>3, <2>4, <2>5, <2>6, <2>7, <2>8, <2>9, <2>10 DEF Next
<1> QED BY <1>1, <1>2, PTL DEF Spec

\* An export succeeds only if every file it went into could be exported, fails
\* only if one could not, and crashes only where one lacks something.
THEOREM ExportsEndRightly == Spec => []InvalidIffBadFile
<1>1. IInv => InvalidIffBadFile
  BY DEF IInv, EndsRightly, Exportable, InvalidIffBadFile
<1> QED BY <1>1, ExportInvariant, PTL

\* The steps an export has, and what is to be exported of them.
LEMMA ExportTypes ==
    ASSUME lib \in Library
    PROVE  /\ AllSteps = Unfolded(lib)[MaxDepth][Root] /\ AllSteps \in Seq(StepsOf(lib))
           /\ Exported = Calls(lib, AllSteps) /\ Exported \in Seq(StepsOf(lib))
           /\ Deployed = Deployments(lib, AllSteps) /\ Deployed \in Seq(StepsOf(lib))
           /\ Accounts \in Seq(AccountsOf(lib)) /\ Mocks \in Seq(MocksOf(lib))
<1>1. MaxDepth \in 0..MaxDepth /\ Root \in File
  BY DepthAssumption, FileAssumption
<1>2. AllSteps \in Seq(StepsOf(lib))
  BY <1>1, UnfoldedDef DEF AllSteps
<1>3. \A V : \A part \in Parts(StepsOf(lib), V) : Gather(AllSteps, part) \in Seq(V)
  BY <1>2, GatherType
<1>4. Exported \in Seq(StepsOf(lib)) /\ Deployed \in Seq(StepsOf(lib))
  BY <1>3, PartTypes DEF Exported, Deployed
<1>5. Accounts \in Seq(AccountsOf(lib)) /\ Mocks \in Seq(MocksOf(lib))
  BY <1>3, PartTypes DEF Accounts, Mocks
<1> QED BY <1>2, <1>4, <1>5 DEF AllSteps, Exported, Deployed, Calls, Deployments

\* The position is that of the first transaction to measure, where files come
\* before transactions, and is set exactly if there is one.
THEOREM BenchmarkIsFound == Spec => []BenchmarkUnlessShifted
<1>1. IInv => BenchmarkUnlessShifted
  <2> SUFFICES ASSUME IInv PROVE BenchmarkUnlessShifted
    OBVIOUS
  <2>1. lib \in Library
    BY DEF IInv
  <2>2. CASE pc = "done"
    <3>1. Positioned(lib, result, AllSteps)
      BY <2>1, <2>2, ExportTypes DEF IInv, Complete
    <3>2. Marked = MarkedIn(Calls(lib, AllSteps))
      BY <2>1, ExportTypes, LenProperties DEF Marked, MarkedIn
    <3> QED BY <2>2, <3>1, <3>2 DEF Positioned, FirstMarked, BenchmarkUnlessShifted, BenchmarkIsFirstMarked
  <2>3. CASE pc # "done"
    BY <2>3 DEF BenchmarkUnlessShifted, BenchmarkIsFirstMarked
  <2> QED BY <2>2, <2>3
<1> QED BY <1>1, ExportInvariant, PTL

\* What is made keeps its name.
LEMMA NamesOfMade ==
    ASSUME NEW V, NEW W, NEW in \in Seq(V), NEW out \in Seq(W), NEW made, Made(out, in, made),
           \A x \in DOMAIN made : made[x].name = x.name
    PROVE  Names(out) = Names(in)
<1>1. DOMAIN in = 1..Len(in) /\ DOMAIN out = 1..Len(in)
  BY LenProperties DEF Made
<1>2. \A i \in 1..Len(in) : out[i].name = in[i].name
  BY DEF Made
<1> QED BY <1>1, <1>2 DEF Names

\* The address of a contract keeps what tells it from others.
LEMMA ScAddressOf ==
    ASSUME NEW a \in Address
    PROVE  /\ ScAddress(a) = [head |-> ScAddressPrefix, tail |-> a.tail]
           /\ \A b \in Address : ScAddress(a) = ScAddress(b) <=> a = b
           /\ \A b \in Address \union {Unnamed} :
                  ScAddress(a) = b <=> a = b /\ a.head = ScAddressPrefix
<1>1. \A x \in Address : ScAddress(x) = [head |-> ScAddressPrefix, tail |-> x.tail]
  <2> TAKE x \in Address
  <2>1. x = [head |-> x.head, tail |-> x.tail]
    BY AddressAssumption
  <2> QED BY <2>1 DEF ScAddress
<1>2. ASSUME NEW b \in Address PROVE ScAddress(a) = ScAddress(b) <=> a = b
  BY <1>1, AddressAssumption
<1>3. ASSUME NEW b \in Address PROVE ScAddress(a) = b <=> a = b /\ a.head = ScAddressPrefix
  <2>1. b = [head |-> b.head, tail |-> b.tail] /\ a = [head |-> a.head, tail |-> a.tail]
    BY AddressAssumption
  <2>2. ASSUME ScAddress(a) = b PROVE a = b /\ a.head = ScAddressPrefix
    BY <1>1, <2>2, AddressAssumption
  <2>3. ASSUME a = b, a.head = ScAddressPrefix PROVE ScAddress(a) = b
    BY <1>1, <2>1, <2>3
  <2> QED BY <2>2, <2>3
<1>4. ScAddress(a) # Unnamed /\ a # Unnamed
  <2>1. a # Unnamed
    BY AddressAssumption
  <2>2. ScAddress(a).head = ScAddressPrefix
    BY <1>1
  <2>3. Unnamed.head = "" /\ ScAddressPrefix # ""
    BY DEF Unnamed, ScAddressPrefix
  <2> QED BY <2>1, <2>2, <2>3
<1> QED BY <1>1, <1>2, <1>3, <1>4

\* What the exported transactions and accounts are made of.
LEMMA MadeOf ==
    ASSUME NEW files \in Library
    PROVE  /\ \A s \in DOMAIN CallMade(files) :
                 /\ s.to \in Address /\ s.from \in Address \union {Unnamed}
                 /\ CallMade(files)[s].rcvAddr = ScAddress(s.to) /\ CallMade(files)[s].sndAddr = s.from
                 /\ CallMade(files)[s].name = s.name /\ CallMade(files)[s].gasPrice > 0
                 /\ s.type = "scCall" => CallMade(files)[s].payment = s.payment
           /\ \A s \in DOMAIN DeploymentMade(files) :
                 DeploymentMade(files)[s].name = s.name /\ DeploymentMade(files)[s].gasPrice > 0
           /\ \A a \in DOMAIN AccountMade(files) :
                 /\ a.address \in Address /\ a.code \in BOOLEAN
                 /\ AccountMade(files)[a].name = a.name
                 /\ AccountMade(files)[a].address = IF a.code THEN ScAddress(a.address) ELSE a.address
           /\ \A m \in DOMAIN MockMade(files) :
                 /\ m.address \in Address
                 /\ MockMade(files)[m].name = m.name /\ MockMade(files)[m].address = ScAddress(m.address)
<1>1. \A s \in StepsOf(files) : IsStep(s)
  BY FileTypes
<1>2. ASSUME NEW s \in StepsOf(files), s.kind = "tx"
      PROVE  GasPrice(s) > 0 /\ {s.from, s.to} \subseteq Address \union {Unnamed}
  BY <1>1, <1>2 DEF IsStep, GasPrice, minimumAcceptedGasPrice
<1>3. ASSUME NEW s \in DOMAIN CallMade(files)
      PROVE  /\ s.to \in Address /\ s.from \in Address \union {Unnamed}
             /\ CallMade(files)[s].rcvAddr = ScAddress(s.to) /\ CallMade(files)[s].sndAddr = s.from
             /\ CallMade(files)[s].name = s.name /\ CallMade(files)[s].gasPrice > 0
             /\ s.type = "scCall" => CallMade(files)[s].payment = s.payment
  <2>1. s \in StepsOf(files) /\ s.kind = "tx" /\ s.to # Unnamed
    BY DEF CallMade
  <2>2. CallMade(files)[s] = IF s.type = "scCall" THEN CreateTransaction(s) ELSE CreateUpgradeTransaction(s)
    BY <2>1 DEF CallMade
  <2>3. CASE s.type = "scCall"
    BY <1>2, <2>1, <2>2, <2>3 DEF CreateTransaction
  <2>4. CASE s.type # "scCall"
    <3>1. CallMade(files)[s] = [CreateTransaction(s) EXCEPT !.payment = NoPayment]
      BY <2>2, <2>4 DEF CreateUpgradeTransaction
    <3> QED BY <1>2, <2>1, <2>4, <3>1 DEF CreateTransaction
  <2> QED BY <2>3, <2>4
<1>4. ASSUME NEW s \in DOMAIN DeploymentMade(files)
      PROVE  DeploymentMade(files)[s].name = s.name /\ DeploymentMade(files)[s].gasPrice > 0
  BY <1>2 DEF DeploymentMade, CreateDeployTransaction
<1>5. ASSUME NEW a \in DOMAIN AccountMade(files)
      PROVE  /\ a.address \in Address /\ a.code \in BOOLEAN
             /\ AccountMade(files)[a].name = a.name
             /\ AccountMade(files)[a].address = IF a.code THEN ScAddress(a.address) ELSE a.address
  <2>1. a \in AccountsOf(files)
    BY DEF AccountMade
  <2>2. PICK s \in StepsOf(files) : a \in Range(AccountsSet(files)[s])
    BY <2>1 DEF AccountsOf
  <2>3. s.kind = "setState" /\ a \in Range(s.accounts)
    BY <2>2 DEF AccountsSet, Range
  <2>4. a.address \in Address /\ a.code \in BOOLEAN
    BY <1>1, <2>3 DEF IsStep
  <2> QED BY <2>1, <2>4 DEF AccountMade, TestAccount
<1>6. ASSUME NEW m \in DOMAIN MockMade(files)
      PROVE  /\ m.address \in Address
             /\ MockMade(files)[m].name = m.name /\ MockMade(files)[m].address = ScAddress(m.address)
  <2>1. m \in MocksOf(files) /\ m.address # Unnamed
    BY DEF MockMade
  <2>2. PICK s \in StepsOf(files) : m \in Range(MocksSet(files)[s])
    BY <2>1 DEF MocksOf
  <2>3. s.kind = "setState" /\ m \in Range(s.mocks)
    BY <2>2 DEF MocksSet, Range
  <2>4. m.address \in Address
    BY <1>1, <2>1, <2>3 DEF IsStep
  <2> QED BY <2>1, <2>4 DEF MockMade, DeployedAccount
<1> QED BY <1>3, <1>4, <1>5, <1>6

\* An export is the flattening of its files: all that is to be exported, once,
\* in their order, each transaction to the account its step names, with its
\* payment and a gas price.
THEOREM ExportsFlatten == Spec => []ExportIsFlattening
<1>1. IInv => ExportIsFlattening
  <2> SUFFICES ASSUME IInv, pc = "done" PROVE Flattened /\ TxsReachTheirAccounts /\ PaidFor
    BY DEF ExportIsFlattening
  <2>1. lib \in Library /\ result \in Infos(lib) /\ Collected(lib, result, AllSteps)
    BY ExportTypes DEF IInv, Complete
  <2>2. /\ Made(result.Txs, Exported, CallMade(lib)) /\ Made(result.DeployTxs, Deployed, DeploymentMade(lib))
        /\ Made(result.Accs, Accounts, AccountMade(lib)) /\ Made(result.DeployedAccs, Mocks, MockMade(lib))
    BY <2>1, ExportTypes DEF Collected, Accounts, Mocks
  <2>3. /\ result.Txs \in Seq(Range(CallMade(lib))) /\ result.DeployTxs \in Seq(Range(DeploymentMade(lib)))
        /\ result.Accs \in Seq(Range(AccountMade(lib))) /\ result.DeployedAccs \in Seq(Range(MockMade(lib)))
    BY <2>1 DEF Infos
  <2>4. /\ DOMAIN Exported = 1..Len(Exported) /\ DOMAIN Deployed = 1..Len(Deployed)
        /\ DOMAIN Accounts = 1..Len(Accounts) /\ DOMAIN Mocks = 1..Len(Mocks)
        /\ DOMAIN result.Txs = 1..Len(result.Txs) /\ DOMAIN result.DeployTxs = 1..Len(result.DeployTxs)
    BY <2>1, <2>3, ExportTypes, LenProperties
  <2>5. Flattened
    <3>1. Names(result.Txs) = Names(Exported)
      BY <2>1, <2>2, <2>3, ExportTypes, MadeOf, NamesOfMade
    <3>2. Names(result.DeployTxs) = Names(Deployed)
      BY <2>1, <2>2, <2>3, ExportTypes, MadeOf, NamesOfMade
    <3>3. Names(result.Accs) = Names(Accounts)
      BY <2>1, <2>2, <2>3, ExportTypes, MadeOf, NamesOfMade
    <3>4. Names(result.DeployedAccs) = Names(Mocks)
      BY <2>1, <2>2, <2>3, ExportTypes, MadeOf, NamesOfMade
    <3> QED BY <3>1, <3>2, <3>3, <3>4 DEF Flattened
  <2>6. TxsReachTheirAccounts
    <3>1. ASSUME NEW i \in DOMAIN Exported, NEW j \in DOMAIN Accounts
          PROVE  /\ result.Txs[i].rcvAddr = result.Accs[j].address
                       <=> /\ Exported[i].to = Accounts[j].address
                           /\ Accounts[j].code \/ Accounts[j].address.head = ScAddressPrefix
                 /\ result.Txs[i].sndAddr = result.Accs[j].address
                       <=> /\ Exported[i].from = Accounts[j].address
                           /\ Accounts[j].code => Accounts[j].address.head = ScAddressPrefix
      <4> DEFINE s == Exported[i]
                 a == Accounts[j]
      <4>1. s \in DOMAIN CallMade(lib) /\ result.Txs[i] = CallMade(lib)[s]
        BY <2>2, <2>4 DEF Made
      <4>2. a \in DOMAIN AccountMade(lib) /\ result.Accs[j] = AccountMade(lib)[a]
        BY <2>2, <2>4 DEF Made
      <4> HIDE DEF s, a
      <4>3. /\ s.to \in Address /\ s.from \in Address \union {Unnamed}
            /\ result.Txs[i].rcvAddr = ScAddress(s.to) /\ result.Txs[i].sndAddr = s.from
        BY <2>1, <4>1, MadeOf
      <4>4. /\ a.address \in Address /\ a.code \in BOOLEAN
            /\ result.Accs[j].address = IF a.code THEN ScAddress(a.address) ELSE a.address
        BY <2>1, <4>2, MadeOf
      <4>5. /\ ScAddress(s.to) = ScAddress(a.address) <=> s.to = a.address
            /\ ScAddress(s.to) = a.address <=> s.to = a.address /\ s.to.head = ScAddressPrefix
            /\ ScAddress(a.address) = s.from <=> a.address = s.from /\ a.address.head = ScAddressPrefix
        BY <4>3, <4>4, ScAddressOf
      <4>6. /\ result.Txs[i].rcvAddr = result.Accs[j].address
                  <=> s.to = a.address /\ (a.code \/ a.address.head = ScAddressPrefix)
            /\ result.Txs[i].sndAddr = result.Accs[j].address
                  <=> s.from = a.address /\ (a.code => a.address.head = ScAddressPrefix)
        <5>1. CASE a.code
          BY <4>3, <4>4, <4>5, <5>1
        <5>2. CASE ~a.code
          BY <4>3, <4>4, <4>5, <5>2
        <5> QED BY <5>1, <5>2
      <4> QED BY <4>6 DEF s, a
    <3>2. ASSUME NEW i \in DOMAIN Exported, NEW j \in DOMAIN Mocks
          PROVE  result.Txs[i].rcvAddr = result.DeployedAccs[j].address <=> Exported[i].to = Mocks[j].address
      <4>1. /\ Exported[i] \in DOMAIN CallMade(lib) /\ result.Txs[i] = CallMade(lib)[Exported[i]]
            /\ Mocks[j] \in DOMAIN MockMade(lib) /\ result.DeployedAccs[j] = MockMade(lib)[Mocks[j]]
        BY <2>2, <2>4 DEF Made
      <4>2. /\ Exported[i].to \in Address /\ result.Txs[i].rcvAddr = ScAddress(Exported[i].to)
            /\ Mocks[j].address \in Address /\ result.DeployedAccs[j].address = ScAddress(Mocks[j].address)
        BY <2>1, <4>1, MadeOf
      <4> QED BY <4>2, ScAddressOf
    <3> QED BY <3>1, <3>2 DEF TxsReachTheirAccounts
  <2>7. PaidFor
    <3>1. ASSUME NEW i \in DOMAIN Exported
          PROVE  /\ Exported[i].type = "scCall" => result.Txs[i].payment = Exported[i].payment
                 /\ result.Txs[i].gasPrice > 0
      <4>1. Exported[i] \in DOMAIN CallMade(lib) /\ result.Txs[i] = CallMade(lib)[Exported[i]]
        BY <2>2, <2>4 DEF Made
      <4> QED BY <2>1, <4>1, MadeOf
    <3>2. ASSUME NEW i \in DOMAIN Deployed PROVE result.DeployTxs[i].gasPrice > 0
      <4>1. Deployed[i] \in DOMAIN DeploymentMade(lib) /\ result.DeployTxs[i] = DeploymentMade(lib)[Deployed[i]]
        BY <2>2, <2>4 DEF Made
      <4> QED BY <2>1, <4>1, MadeOf
    <3>3. DOMAIN result.Txs = DOMAIN Exported /\ DOMAIN result.DeployTxs = DOMAIN Deployed
      BY <2>2, <2>4 DEF Made
    <3> QED BY <3>1, <3>2, <3>3 DEF PaidFor
  <2> QED BY <2>5, <2>6, <2>7
<1> QED BY <1>1, ExportInvariant, PTL
=============================================================================
