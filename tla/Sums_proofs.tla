----------------------------- MODULE Sums_proofs ----------------------------
(***************************************************************************)
(* What the folds and the sequence operators of the models compute.        *)
(* MapThenSumSet, for the counters kept beside the things they count: the  *)
(* sum exists over every finite set, changes with one summand by the       *)
(* difference, and is 0 over zeros.  SetToSeq lists a finite set, and      *)
(* FlattenSeq joins sequences.  The inductions are over a set of numbers   *)
(* that stands for the predicate, so that no theorem with an operator      *)
(* parameter has to be instantiated.                                       *)
(***************************************************************************)
EXTENDS Integers, Sequences, SequencesExt, FiniteSetTheorems, WellFoundedInduction, TLAPS

\* Induction over the naturals, from the least number outside the set.
LEMMA NatSetInduction ==
  ASSUME NEW X, 0 \in X, \A n \in Nat : n \in X => n + 1 \in X
  PROVE  \A n \in Nat : n \in X
<1>. SUFFICES ASSUME NEW n \in Nat, n \notin X PROVE FALSE
  OBVIOUS
<1>. DEFINE T == Nat \ X
<1>1. T \subseteq Nat /\ T # {}
  OBVIOUS
<1>2. PICK m \in T : \A k \in T : ~ (<<k, m>> \in OpToRel(<, Nat))
  BY <1>1, NatLessThanWellFounded, WFMin, Zenon
<1>3. m \in Nat /\ m # 0 /\ m \notin X
  BY <1>2
<1>4. m - 1 \in Nat /\ m - 1 < m /\ (m - 1) + 1 = m
  BY <1>3
<1>5. m - 1 \notin X
  BY <1>3, <1>4
<1>6. <<m - 1, m>> \in OpToRel(<, Nat)
  BY <1>3, <1>4 DEF OpToRel
<1>. QED
  BY <1>2, <1>4, <1>5, <1>6

\* Induction over the subsets of a finite set, by their size: a set P of subsets
\* that holds the empty one, and with every s \ {x} also s, holds them all.
LEMMA SubsetInduction ==
  ASSUME NEW S, IsFiniteSet(S), NEW P, {} \in P,
         \A s \in SUBSET S : (\A x \in s : s \ {x} \in P) => s \in P
  PROVE  \A s \in SUBSET S : s \in P
<1>. DEFINE X == {n \in Nat : \A s \in SUBSET S : Cardinality(s) = n => s \in P}
<1>1. \A s \in SUBSET S : IsFiniteSet(s) /\ Cardinality(s) \in Nat
  BY FS_Subset, FS_CardinalityType
<1>2. 0 \in X
  <2>1. \A s \in SUBSET S : Cardinality(s) = 0 => s = {}
    BY <1>1, FS_EmptySet
  <2>. QED
    BY <2>1
<1>3. ASSUME NEW n \in Nat, n \in X PROVE n + 1 \in X
  <2>. SUFFICES ASSUME NEW s \in SUBSET S, Cardinality(s) = n + 1 PROVE s \in P
    OBVIOUS
  <2>1. ASSUME NEW x \in s PROVE s \ {x} \in P
    <3>1. Cardinality(s \ {x}) = Cardinality(s) - 1
      BY <1>1, FS_RemoveElement
    <3>2. Cardinality(s \ {x}) = n
      BY <1>1, <3>1
    <3>3. s \ {x} \in SUBSET S
      OBVIOUS
    <3>. QED
      BY <1>3, <3>2, <3>3
  <2>. QED
    BY <2>1
<1>. HIDE DEF X
<1>4. \A n \in Nat : n \in X
  BY <1>2, <1>3, NatSetInduction
<1>. QED
  BY <1>1, <1>4 DEF X

-----------------------------------------------------------------------------

SumOver(f, S) == MapThenSumSet(LAMBDA x : f[x], S)

\* The recursion that defines the fold.
StepOf(iter, f, s) ==
  IF s = {} THEN 0
  ELSE LET x == CHOOSE x \in s : TRUE IN f[x] + iter[s \ {x}]

Unfolds(iter, f, S) == iter = [s \in SUBSET S |-> StepOf(iter, f, s)]

LEMMA SumIs ==
  ASSUME NEW f, NEW S
  PROVE  SumOver(f, S) = (CHOOSE iter : Unfolds(iter, f, S))[S]
BY DEF SumOver, MapThenSumSet, MapThenFoldSet, Unfolds, StepOf

\* One step looks at one smaller set.
LEMMA StepSame ==
  ASSUME NEW f, NEW s, NEW i, NEW j, \A x \in s : i[s \ {x}] = j[s \ {x}]
  PROVE  StepOf(i, f, s) = StepOf(j, f, s)
<1>1. CASE s = {}
  BY <1>1 DEF StepOf
<1>2. CASE s # {}
  <2>1. (CHOOSE x \in s : TRUE) \in s
    BY <1>2
  <2>. QED
    BY <1>2, <2>1 DEF StepOf
<1>. QED
  BY <1>1, <1>2

\* The recursion has a solution.
LEMMA UnfoldsExists ==
  ASSUME NEW f, NEW S, IsFiniteSet(S)
  PROVE  \E iter : Unfolds(iter, f, S)
<1>. DEFINE Upto(it, n) == \A s \in SUBSET S :
                             Cardinality(s) <= n => it[s] = StepOf(it, f, s)
            X == {n \in Nat : \E it : Upto(it, n)}
<1>1. \A s \in SUBSET S : IsFiniteSet(s) /\ Cardinality(s) \in Nat
  BY FS_Subset, FS_CardinalityType
<1>2. 0 \in X
  <2>. DEFINE it == [s \in SUBSET S |-> 0]
  <2>1. ASSUME NEW s \in SUBSET S, Cardinality(s) <= 0
        PROVE  it[s] = StepOf(it, f, s)
    <3>1. s = {}
      <4>1. Cardinality(s) = 0
        BY <1>1, <2>1
      <4>. QED
        BY <1>1, <4>1, FS_EmptySet
    <3>. QED
      BY <3>1 DEF StepOf
  <2>. QED
    BY <2>1
<1>3. ASSUME NEW n \in Nat, n \in X PROVE n + 1 \in X
  <2>1. PICK old : Upto(old, n)
    BY <1>3
  <2>. DEFINE it == [s \in SUBSET S |-> StepOf(old, f, s)]
  <2>2. ASSUME NEW s \in SUBSET S, Cardinality(s) <= n + 1
        PROVE  it[s] = StepOf(it, f, s)
    <3>1. ASSUME NEW x \in s PROVE old[s \ {x}] = it[s \ {x}]
      <4>1. Cardinality(s \ {x}) = Cardinality(s) - 1
        BY <1>1, FS_RemoveElement
      <4>2. s \ {x} \in SUBSET S /\ Cardinality(s \ {x}) <= n
        BY <1>1, <2>2, <4>1
      <4>. QED
        BY <2>1, <4>2
    <3>. HIDE DEF it
    <3>2. StepOf(old, f, s) = StepOf(it, f, s)
      BY <3>1, StepSame
    <3>. QED
      BY <3>2 DEF it
  <2>. HIDE DEF it
  <2>3. Upto(it, n + 1)
    BY <2>2
  <2>. QED
    BY <2>3
<1>4. Cardinality(S) \in X
  <2>. HIDE DEF X
  <2>1. \A n \in Nat : n \in X
    BY <1>2, <1>3, NatSetInduction
  <2>. QED
    BY <2>1, FS_CardinalityType
<1>5. PICK it : Upto(it, Cardinality(S))
  BY <1>4
<1>6. \A s \in SUBSET S : it[s] = StepOf(it, f, s)
  BY <1>5, FS_Subset
<1>. DEFINE iter == [s \in SUBSET S |-> it[s]]
<1>7. ASSUME NEW s \in SUBSET S PROVE iter[s] = StepOf(iter, f, s)
  <2>1. \A x \in s : it[s \ {x}] = iter[s \ {x}]
    OBVIOUS
  <2>. HIDE DEF iter
  <2>2. StepOf(it, f, s) = StepOf(iter, f, s)
    BY <2>1, StepSame
  <2>. QED
    BY <1>6, <2>2 DEF iter
<1>8. iter = [s \in SUBSET S |-> StepOf(iter, f, s)]
  <2>1. iter = [s \in SUBSET S |-> iter[s]]
    OBVIOUS
  <2>. HIDE DEF iter
  <2>. QED
    BY <1>7, <2>1
<1>. QED
  BY <1>8 DEF Unfolds

\* It has one only, at every subset.
LEMMA UnfoldsUnique ==
  ASSUME NEW f, NEW S, IsFiniteSet(S), NEW i, NEW j,
         Unfolds(i, f, S), Unfolds(j, f, S)
  PROVE  i = j
<1>. DEFINE P == {s \in SUBSET S : i[s] = j[s]}
<1>1. \A s \in SUBSET S : i[s] = StepOf(i, f, s) /\ j[s] = StepOf(j, f, s)
  BY DEF Unfolds
<1>2. {} \in P
  BY <1>1 DEF StepOf
<1>3. ASSUME NEW s \in SUBSET S, \A x \in s : s \ {x} \in P PROVE s \in P
  <2>1. StepOf(i, f, s) = StepOf(j, f, s)
    BY <1>3, StepSame
  <2>. QED
    BY <1>1, <2>1
<1>. HIDE DEF P
<1>4. \A s \in SUBSET S : s \in P
  BY <1>2, <1>3, SubsetInduction
<1>5. \A s \in SUBSET S : i[s] = j[s]
  BY <1>4 DEF P
<1>6. /\ i = [s \in SUBSET S |-> i[s]]
      /\ j = [s \in SUBSET S |-> j[s]]
  BY DEF Unfolds
<1>. QED
  BY <1>5, <1>6

\* Whatever solves the recursion gives the sum.
LEMMA SumUnfolds ==
  ASSUME NEW f, NEW S, IsFiniteSet(S), NEW iter, Unfolds(iter, f, S)
  PROVE  SumOver(f, S) = iter[S]
<1>1. Unfolds((CHOOSE it : Unfolds(it, f, S)), f, S)
  OBVIOUS
<1>. QED
  BY <1>1, SumIs, UnfoldsUnique

-----------------------------------------------------------------------------

LEMMA SumType ==
  ASSUME NEW S, IsFiniteSet(S), NEW f \in [S -> Int]
  PROVE  SumOver(f, S) \in Int
<1>1. PICK i : Unfolds(i, f, S)
  BY UnfoldsExists
<1>. DEFINE P == {s \in SUBSET S : i[s] \in Int}
<1>2. \A s \in SUBSET S : i[s] = StepOf(i, f, s)
  BY <1>1 DEF Unfolds
<1>3. {} \in P
  <2>1. i[{}] = 0
    BY <1>2 DEF StepOf
  <2>. QED
    BY <2>1
<1>4. ASSUME NEW s \in SUBSET S, \A x \in s : s \ {x} \in P PROVE s \in P
  <2>1. CASE s = {}
    BY <1>3, <2>1
  <2>2. CASE s # {}
    <3>. DEFINE x == CHOOSE x \in s : TRUE
    <3>1. x \in s /\ x \in S
      BY <2>2
    <3>2. i[s] = f[x] + i[s \ {x}]
      BY <1>2, <2>2 DEF StepOf
    <3>3. f[x] \in Int /\ i[s \ {x}] \in Int
      BY <1>4, <3>1
    <3>. QED
      BY <3>2, <3>3
  <2>. QED
    BY <2>1, <2>2
<1>. HIDE DEF P
<1>5. S \in P
  BY <1>3, <1>4, SubsetInduction
<1>. QED
  BY <1>1, <1>5, SumUnfolds DEF P

\* Adding zeros.
LEMMA SumZero ==
  ASSUME NEW S, IsFiniteSet(S), NEW f, \A x \in S : f[x] = 0
  PROVE  SumOver(f, S) = 0
<1>1. PICK i : Unfolds(i, f, S)
  BY UnfoldsExists
<1>. DEFINE P == {s \in SUBSET S : i[s] = 0}
<1>2. \A s \in SUBSET S : i[s] = StepOf(i, f, s)
  BY <1>1 DEF Unfolds
<1>3. {} \in P
  BY <1>2 DEF StepOf
<1>4. ASSUME NEW s \in SUBSET S, \A x \in s : s \ {x} \in P PROVE s \in P
  <2>1. CASE s = {}
    BY <1>3, <2>1
  <2>2. CASE s # {}
    <3>. DEFINE x == CHOOSE x \in s : TRUE
    <3>1. x \in s /\ x \in S
      BY <2>2
    <3>2. i[s] = f[x] + i[s \ {x}]
      BY <1>2, <2>2 DEF StepOf
    <3>3. f[x] = 0 /\ i[s \ {x}] = 0
      BY <1>4, <3>1
    <3>. HIDE DEF x
    <3>. QED
      BY <3>2, <3>3
  <2>. QED
    BY <2>1, <2>2
<1>. HIDE DEF P
<1>5. S \in P
  BY <1>3, <1>4, SubsetInduction
<1>. QED
  BY <1>1, <1>5, SumUnfolds DEF P

\* Changing one summand changes the sum by as much.
LEMMA SumChange ==
  ASSUME NEW S, IsFiniteSet(S), NEW f \in [S -> Int], NEW h \in [S -> Int],
         NEW g \in S, \A x \in S : x # g => h[x] = f[x]
  PROVE  SumOver(h, S) = SumOver(f, S) + (h[g] - f[g])
<1>1. PICK i : Unfolds(i, f, S)
  BY UnfoldsExists
<1>2. PICK j : Unfolds(j, h, S)
  BY UnfoldsExists
<1>. DEFINE change(s) == IF g \in s THEN h[g] - f[g] ELSE 0
            P == {s \in SUBSET S : /\ i[s] \in Int
                                   /\ j[s] = i[s] + change(s)}
<1>3. \A s \in SUBSET S : i[s] = StepOf(i, f, s) /\ j[s] = StepOf(j, h, s)
  BY <1>1, <1>2 DEF Unfolds
<1>4. {} \in P
  <2>1. i[{}] = 0 /\ j[{}] = 0
    BY <1>3 DEF StepOf
  <2>. QED
    BY <2>1
<1>5. ASSUME NEW s \in SUBSET S, \A x \in s : s \ {x} \in P PROVE s \in P
  <2>1. CASE s = {}
    BY <1>4, <2>1
  <2>2. CASE s # {}
    <3>. DEFINE x == CHOOSE x \in s : TRUE
                rest == s \ {x}
    <3>1. x \in s /\ x \in S
      BY <2>2
    <3>2. i[s] = f[x] + i[rest] /\ j[s] = h[x] + j[rest]
      BY <1>3, <2>2 DEF StepOf
    <3>3. i[rest] \in Int /\ j[rest] = i[rest] + change(rest)
      BY <1>5, <3>1
    <3>4. f[x] \in Int /\ h[x] \in Int /\ f[g] \in Int /\ h[g] \in Int
      BY <3>1
    <3>5. CASE x = g
      <4>1. change(rest) = 0 /\ change(s) = h[x] - f[x]
        BY <3>1, <3>5
      <4>. HIDE DEF x, rest, change
      <4>. QED
        BY <3>2, <3>3, <3>4, <4>1
    <3>6. CASE x # g
      <4>1. change(rest) = change(s) /\ h[x] = f[x] /\ change(s) \in Int
        BY <3>1, <3>4, <3>6
      <4>. HIDE DEF x, rest, change
      <4>. QED
        BY <3>2, <3>3, <3>4, <4>1
    <3>. QED
      BY <3>5, <3>6
  <2>. QED
    BY <2>1, <2>2
<1>. HIDE DEF P
<1>6. S \in P
  BY <1>4, <1>5, SubsetInduction
<1>. QED
  BY <1>1, <1>2, <1>6, SumUnfolds DEF P

\* The sum of the lengths of some sequences, as a counter of them spells it.
LengthsOf(h) == [x \in DOMAIN h |-> Len(h[x])]

LEMMA SumOfLengths ==
  ASSUME NEW S, IsFiniteSet(S), NEW h, DOMAIN h = S
  PROVE  MapThenSumSet(LAMBDA x : Len(h[x]), S) = SumOver(LengthsOf(h), S)
<1>. DEFINE StepLen(it, s) == IF s = {} THEN 0
                              ELSE LET x == CHOOSE x \in s : TRUE
                                   IN  Len(h[x]) + it[s \ {x}]
            Solves(it) == it = [s \in SUBSET S |-> StepLen(it, s)]
<1>1. MapThenSumSet(LAMBDA x : Len(h[x]), S) = (CHOOSE it : Solves(it))[S]
  BY DEF MapThenSumSet, MapThenFoldSet
<1>2. ASSUME NEW it, NEW s \in SUBSET S
      PROVE  StepLen(it, s) = StepOf(it, LengthsOf(h), s)
  <2>1. CASE s = {}
    BY <2>1 DEF StepOf
  <2>2. CASE s # {}
    <3>1. (CHOOSE x \in s : TRUE) \in S
      BY <2>2
    <3>. QED
      BY <2>2, <3>1 DEF StepOf, LengthsOf
  <2>. QED
    BY <2>1, <2>2
<1>. HIDE DEF StepLen
<1>3. ASSUME NEW it PROVE Solves(it) <=> Unfolds(it, LengthsOf(h), S)
  BY <1>2 DEF Unfolds
<1>. HIDE DEF Solves
<1>4. \E it : Solves(it)
  BY <1>3, UnfoldsExists
<1>5. Unfolds((CHOOSE it : Solves(it)), LengthsOf(h), S)
  BY <1>3, <1>4
<1>. QED
  BY <1>1, <1>5, SumUnfolds

-----------------------------------------------------------------------------
(* What the sequence operators compute *)

\* The elements of a finite set in some order, each of them once.
LEMMA SetToSeqIs ==
  ASSUME NEW S, IsFiniteSet(S)
  PROVE  /\ SetToSeq(S) \in Seq(S)
         /\ Len(SetToSeq(S)) = Cardinality(S)
         /\ \A x \in S : \E i \in 1..Len(SetToSeq(S)) : SetToSeq(S)[i] = x
         /\ \A i, j \in 1..Len(SetToSeq(S)) :
              SetToSeq(S)[i] = SetToSeq(S)[j] => i = j
<1>. DEFINE n == Cardinality(S)
            IsOrder(f) == f \in [1..n -> S] /\ IsInjective(f)
            s == CHOOSE f : IsOrder(f)
<1>1. n \in Nat /\ \E f : IsOrder(f)
  <2>1. n \in Nat /\ ExistsBijection(1..n, S)
    BY FS_CardinalityType
  <2>. QED
    BY <2>1 DEF ExistsBijection, Bijection, Injection
<1>2. IsOrder(s)
  <2>. HIDE DEF IsOrder
  <2>. QED
    BY <1>1
<1>3. SetToSeq(S) = s
  BY DEF SetToSeq
<1>. HIDE DEF s
<1>4. s \in Seq(S) /\ Len(s) = n /\ DOMAIN s = 1..n
  <2>1. s \in [1..n -> S] /\ n \in Nat
    BY <1>1, <1>2
  <2>. HIDE DEF n
  <2>. QED
    BY <2>1
<1>5. s \in Surjection(1..n, S)
  <2>1. s \in Injection(1..n, S)
    BY <1>2 DEF Injection
  <2>2. Cardinality(1..n) = n
    BY <1>1, FS_Interval
  <2>. QED
    BY <2>1, <2>2, FS_Injection
<1>6. \A x \in S : \E i \in 1..n : s[i] = x
  BY <1>5 DEF Surjection
<1>7. \A i, j \in 1..n : s[i] = s[j] => i = j
  BY <1>2, <1>4 DEF IsInjective
<1>. QED
  BY <1>3, <1>4, <1>6, <1>7

\* FlattenSeq's recursion has a solution.
FlattenStep(f, seqs, i) == IF i = 1 THEN seqs[i] ELSE f[i - 1] \o seqs[i]

Flattens(f, seqs) == f = [i \in 1..Len(seqs) |-> FlattenStep(f, seqs, i)]

LEMMA FlattensExists ==
  ASSUME NEW seqs, Len(seqs) \in Nat
  PROVE  \E f : Flattens(f, seqs)
<1>. DEFINE Upto(f, n) == f = [i \in 1..n |-> FlattenStep(f, seqs, i)]
            X == {n \in Nat : \E f : Upto(f, n)}
<1>1. 0 \in X
  <2>1. Upto([i \in 1..0 |-> 0], 0)
    OBVIOUS
  <2>. HIDE DEF Upto
  <2>. QED
    BY <2>1
<1>2. ASSUME NEW n \in Nat, n \in X PROVE n + 1 \in X
  <2>1. PICK f : Upto(f, n)
    BY <1>2
  <2>. DEFINE h == [i \in 1..(n + 1) |-> FlattenStep(f, seqs, i)]
  <2>2. ASSUME NEW i \in 1..n PROVE h[i] = f[i]
    <3>1. f[i] = FlattenStep(f, seqs, i)
      BY <2>1
    <3>. QED
      BY <3>1
  <2>3. ASSUME NEW i \in 1..(n + 1)
        PROVE  FlattenStep(h, seqs, i) = FlattenStep(f, seqs, i)
    <3>1. i = 1 \/ i - 1 \in 1..n
      OBVIOUS
    <3>. HIDE DEF h
    <3>. QED
      BY <2>2, <3>1 DEF FlattenStep
  <2>4. h = [i \in 1..(n + 1) |-> FlattenStep(h, seqs, i)]
    <3>1. h = [i \in 1..(n + 1) |-> FlattenStep(f, seqs, i)]
      OBVIOUS
    <3>. HIDE DEF h
    <3>. QED
      BY <2>3, <3>1
  <2>. HIDE DEF h
  <2>. QED
    BY <2>4
<1>. HIDE DEF X
<1>3. \A n \in Nat : n \in X
  BY <1>1, <1>2, NatSetInduction
<1>. QED
  BY <1>3 DEF X, Flattens

LEMMA FlattenSeqIs ==
  ASSUME NEW seqs, Len(seqs) \in Nat, Len(seqs) # 0
  PROVE  \E f : Flattens(f, seqs) /\ FlattenSeq(seqs) = f[Len(seqs)]
<1>. DEFINE f == CHOOSE f : Flattens(f, seqs)
<1>1. Flattens(f, seqs)
  BY FlattensExists
<1>2. FlattenSeq(seqs) = f[Len(seqs)]
  BY DEF FlattenSeq, Flattens, FlattenStep
<1>. QED
  BY <1>1, <1>2

-----------------------------------------------------------------------------
(* Induction over sequences *)

LEMMA MaxIn ==
  ASSUME NEW n \in Nat, NEW S \in SUBSET (1..n), S # {}
  PROVE  Max(S) \in S /\ \A y \in S : y <= Max(S)
<1>. DEFINE T == {n - x : x \in S}
<1>1. T \subseteq Nat /\ T # {}
  <2>1. \A x \in S : n - x \in Nat
    <3>1. \A x \in 1..n : n - x \in Nat
      OBVIOUS
    <3>. QED
      BY <3>1
  <2>2. PICK x : x \in S
    OBVIOUS
  <2>. QED
    BY <2>1, <2>2
<1>2. PICK m \in T : \A k \in T : ~ (<<k, m>> \in OpToRel(<, Nat))
  BY <1>1, NatLessThanWellFounded, WFMin, Zenon
<1>3. PICK x \in S : m = n - x
  BY <1>2
<1>4. ASSUME NEW y \in S PROVE y <= x
  <2>1. n - y \in T /\ ~ (n - y < n - x)
    BY <1>1, <1>2, <1>3 DEF OpToRel
  <2>2. x \in 1..n /\ y \in 1..n
    OBVIOUS
  <2>. QED
    BY <2>1, <2>2
<1>5. \E z \in S : \A y \in S : z >= y
  BY <1>4
<1>6. Max(S) = CHOOSE z \in S : \A y \in S : z >= y
  BY DEF Max
<1>7. Max(S) \in S /\ \A y \in S : Max(S) >= y
  BY <1>5, <1>6, Zenon
<1>8. \A a, b \in 1..n : a >= b => b <= a
  OBVIOUS
<1>. QED
  BY <1>7, <1>8

\* Induction over the sequences of a set.
LEMMA SeqSetInduction ==
  ASSUME NEW T, NEW P, <<>> \in P,
         \A s \in Seq(T), e \in T : s \in P => Append(s, e) \in P
  PROVE  \A s \in Seq(T) : s \in P
<1>. DEFINE X == {n \in Nat : \A s \in Seq(T) : Len(s) = n => s \in P}
<1>1. 0 \in X
  <2>1. \A s \in Seq(T) : Len(s) = 0 => s = <<>>
    OBVIOUS
  <2>. QED
    BY <2>1
<1>2. ASSUME NEW n \in Nat, n \in X PROVE n + 1 \in X
  <2>. SUFFICES ASSUME NEW s \in Seq(T), Len(s) = n + 1 PROVE s \in P
    OBVIOUS
  <2>. DEFINE f == SubSeq(s, 1, n)
  <2>1. f \in Seq(T) /\ Len(f) = n /\ s[n + 1] \in T /\ \A i \in 1..n : f[i] = s[i]
    OBVIOUS
  <2>2. Append(f, s[n + 1]) = s
    <3>. HIDE DEF f
    <3>. QED
      BY <2>1
  <2>. HIDE DEF f
  <2>. QED
    BY <1>2, <2>1, <2>2
<1>3. \A n \in Nat : n \in X
  <2>. HIDE DEF X
  <2>. QED
    BY <1>1, <1>2, NatSetInduction
<1>. QED
  BY <1>3

-----------------------------------------------------------------------------
(* Folding a sequence with a step that is given as a function *)

FoldStep(it, step, base, seq, s) ==
  IF s = {} THEN base ELSE step[<<it[s \ {Max(s)}], seq[Max(s)]>>]

FoldSolves(it, step, base, seq) ==
  it = [s \in SUBSET (1..Len(seq)) |-> FoldStep(it, step, base, seq, s)]

Folded(step, base, seq) ==
  (CHOOSE it : FoldSolves(it, step, base, seq))[1..Len(seq)]

\* What holds of the fold over one index fewer holds of the fold.
LEMMA FoldInduction ==
  ASSUME NEW n \in Nat, NEW P, {} \in P,
         \A s \in SUBSET (1..n) : s # {} /\ s \ {Max(s)} \in P => s \in P
  PROVE  \A s \in SUBSET (1..n) : s \in P
<1>1. IsFiniteSet(1..n)
  BY FS_Interval
<1>2. ASSUME NEW s \in SUBSET (1..n), \A x \in s : s \ {x} \in P PROVE s \in P
  BY <1>2, MaxIn
<1>. QED
  BY <1>1, <1>2, SubsetInduction

LEMMA FoldStepSame ==
  ASSUME NEW step, NEW base, NEW seq, Len(seq) \in Nat,
         NEW s \in SUBSET (1..Len(seq)), NEW i, NEW j, \A x \in s : i[s \ {x}] = j[s \ {x}]
  PROVE  FoldStep(i, step, base, seq, s) = FoldStep(j, step, base, seq, s)
<1>1. CASE s = {}
  BY <1>1 DEF FoldStep
<1>2. CASE s # {}
  <2>1. Max(s) \in s
    BY <1>2, MaxIn
  <2>. QED
    BY <1>2, <2>1 DEF FoldStep
<1>. QED
  BY <1>1, <1>2

LEMMA FoldExists ==
  ASSUME NEW step, NEW base, NEW seq, Len(seq) \in Nat
  PROVE  \E it : FoldSolves(it, step, base, seq)
<1>. DEFINE D == 1..Len(seq)
            One(it, s) == FoldStep(it, step, base, seq, s)
            Upto(it, n) == \A s \in SUBSET D : Cardinality(s) <= n => it[s] = One(it, s)
            X == {n \in Nat : \E it : Upto(it, n)}
<1>0. IsFiniteSet(D)
  BY FS_Interval
<1>1. \A s \in SUBSET D : IsFiniteSet(s) /\ Cardinality(s) \in Nat
  <2>. HIDE DEF D
  <2>. QED
    BY <1>0, FS_Subset, FS_CardinalityType
<1>2. 0 \in X
  <2>. DEFINE it == [s \in SUBSET D |-> base]
  <2>1. ASSUME NEW s \in SUBSET D, Cardinality(s) <= 0 PROVE it[s] = One(it, s)
    <3>1. s = {}
      <4>1. Cardinality(s) = 0
        BY <1>1, <2>1
      <4>. QED
        BY <1>1, <4>1, FS_EmptySet
    <3>. QED
      BY <3>1 DEF FoldStep
  <2>2. Upto(it, 0)
    <3>. HIDE DEF it, One
    <3>. QED
      BY <2>1
  <2>. HIDE DEF Upto
  <2>. QED
    BY <2>2
<1>3. ASSUME NEW n \in Nat, n \in X PROVE n + 1 \in X
  <2>1. PICK old : Upto(old, n)
    BY <1>3
  <2>. DEFINE it == [s \in SUBSET D |-> One(old, s)]
  <2>2. ASSUME NEW s \in SUBSET D, Cardinality(s) <= n + 1
        PROVE  it[s] = One(it, s)
    <3>1. ASSUME NEW x \in s PROVE old[s \ {x}] = it[s \ {x}]
      <4>1. Cardinality(s \ {x}) = Cardinality(s) - 1
        BY <1>1, FS_RemoveElement
      <4>2. s \ {x} \in SUBSET D /\ Cardinality(s \ {x}) <= n
        BY <1>1, <2>2, <4>1
      <4>. QED
        BY <2>1, <4>2
    <3>2. it[s] = One(old, s)
      OBVIOUS
    <3>. HIDE DEF it
    <3>3. One(old, s) = One(it, s)
      BY <3>1, FoldStepSame
    <3>. QED
      BY <3>2, <3>3
  <2>. HIDE DEF it
  <2>3. Upto(it, n + 1)
    BY <2>2
  <2>. HIDE DEF Upto
  <2>. QED
    BY <2>3
<1>4. Cardinality(D) \in X
  <2>. HIDE DEF X
  <2>1. \A n \in Nat : n \in X
    BY <1>2, <1>3, NatSetInduction
  <2>. QED
    BY <1>1, <2>1
<1>5. PICK it : Upto(it, Cardinality(D))
  BY <1>4
<1>6. \A s \in SUBSET D : it[s] = One(it, s)
  <2>1. \A s \in SUBSET D : Cardinality(s) <= Cardinality(D)
    BY <1>0, FS_Subset
  <2>. HIDE DEF One, D
  <2>. QED
    BY <1>5, <2>1
<1>. DEFINE iter == [s \in SUBSET D |-> it[s]]
<1>7. ASSUME NEW s \in SUBSET D PROVE iter[s] = One(iter, s)
  <2>1. \A x \in s : it[s \ {x}] = iter[s \ {x}]
    OBVIOUS
  <2>2. iter[s] = it[s]
    OBVIOUS
  <2>. HIDE DEF iter
  <2>3. One(it, s) = One(iter, s)
    BY <2>1, FoldStepSame
  <2>. QED
    BY <1>6, <2>2, <2>3
<1>8. iter = [s \in SUBSET D |-> One(iter, s)]
  <2>1. iter = [s \in SUBSET D |-> iter[s]]
    OBVIOUS
  <2>. HIDE DEF iter, One, D
  <2>. QED
    BY <1>7, <2>1
<1>. QED
  BY <1>8 DEF FoldSolves

\* Two functions that agree on the empty set, and step by step, agree.
Agreeing(c, it, n) ==
  /\ c[{}] = it[{}]
  /\ \A s \in SUBSET (1..n) :
       s # {} /\ c[s \ {Max(s)}] = it[s \ {Max(s)}] => c[s] = it[s]

LEMMA FoldAgrees ==
  ASSUME NEW n \in Nat, NEW it, NEW c, Agreeing(c, it, n)
  PROVE  \A s \in SUBSET (1..n) : c[s] = it[s]
<1>. DEFINE P == {s \in SUBSET (1..n) : c[s] = it[s]}
<1>1. {} \in P
  BY DEF Agreeing
<1>2. \A s \in SUBSET (1..n) : s # {} /\ s \ {Max(s)} \in P => s \in P
  BY DEF Agreeing
<1>. HIDE DEF P
<1>3. \A s \in SUBSET (1..n) : s \in P
  BY <1>1, <1>2, FoldInduction
<1>. QED
  BY <1>3 DEF P

LEMMA FoldedIs ==
  ASSUME NEW step, NEW base, NEW seq, Len(seq) \in Nat,
         NEW it, FoldSolves(it, step, base, seq)
  PROVE  Folded(step, base, seq) = it[1..Len(seq)]
<1>1. ASSUME NEW c, FoldSolves(c, step, base, seq)
      PROVE  \A s \in SUBSET (1..Len(seq)) : c[s] = it[s]
  <2>1. \A s \in SUBSET (1..Len(seq)) :
          /\ c[s] = FoldStep(c, step, base, seq, s)
          /\ it[s] = FoldStep(it, step, base, seq, s)
    BY <1>1 DEF FoldSolves
  <2>2. Agreeing(c, it, Len(seq))
    BY <2>1 DEF FoldStep, Agreeing
  <2>. QED
    BY <2>2, FoldAgrees
<1>. DEFINE c == CHOOSE c : FoldSolves(c, step, base, seq)
<1>2. FoldSolves(c, step, base, seq)
  OBVIOUS
<1>. HIDE DEF c
<1>3. \A s \in SUBSET (1..Len(seq)) : c[s] = it[s]
  BY <1>1, <1>2, Zenon
<1>. QED
  BY <1>3 DEF Folded, c

\* The fold of an empty sequence and of one with one more element.
LEMMA FoldedEmpty ==
  ASSUME NEW step, NEW base
  PROVE  Folded(step, base, <<>>) = base
<1>1. PICK it : FoldSolves(it, step, base, <<>>)
  BY FoldExists
<1>2. Folded(step, base, <<>>) = it[1..Len(<<>>)]
  BY <1>1, FoldedIs
<1>3. 1..Len(<<>>) = {}
  OBVIOUS
<1>4. it[{}] = base
  BY <1>1 DEF FoldSolves, FoldStep
<1>. QED
  BY <1>2, <1>3, <1>4

LEMMA FoldedAppend ==
  ASSUME NEW T, NEW step, NEW base, NEW seq \in Seq(T), NEW e \in T
  PROVE  Folded(step, base, Append(seq, e)) = step[<<Folded(step, base, seq), e>>]
<1>. DEFINE n == Len(seq)
            more == Append(seq, e)
<1>1. /\ n \in Nat /\ Len(more) = n + 1 /\ more[n + 1] = e
      /\ \A i \in 1..n : more[i] = seq[i]
  OBVIOUS
<1>. HIDE DEF more
<1>2. PICK it : FoldSolves(it, step, base, more)
  BY <1>1, FoldExists
<1>3. \A s \in SUBSET (1..(n + 1)) : it[s] = FoldStep(it, step, base, more, s)
  BY <1>1, <1>2 DEF FoldSolves
<1>. DEFINE less == [s \in SUBSET (1..n) |-> it[s]]
<1>4. ASSUME NEW s \in SUBSET (1..n) PROVE it[s] = FoldStep(less, step, base, seq, s)
  <2>1. s \in SUBSET (1..(n + 1))
    BY <1>1
  <2>2. CASE s = {}
    BY <1>3, <2>1, <2>2 DEF FoldStep
  <2>3. CASE s # {}
    <3>1. Max(s) \in s /\ Max(s) \in 1..n
      BY <1>1, <2>3, MaxIn
    <3>2. more[Max(s)] = seq[Max(s)]
      BY <1>1, <3>1
    <3>3. less[s \ {Max(s)}] = it[s \ {Max(s)}]
      OBVIOUS
    <3>. HIDE DEF less
    <3>. QED
      BY <1>3, <2>1, <2>3, <3>2, <3>3 DEF FoldStep
  <2>. QED
    BY <2>2, <2>3
<1>5. FoldSolves(less, step, base, seq)
  <2>1. less = [s \in SUBSET (1..n) |-> it[s]]
    OBVIOUS
  <2>. HIDE DEF less
  <2>. QED
    BY <1>4, <2>1 DEF FoldSolves
<1>6. Folded(step, base, seq) = it[1..n]
  <2>1. less[1..n] = it[1..n]
    OBVIOUS
  <2>. HIDE DEF less
  <2>. QED
    BY <1>1, <1>5, <2>1, FoldedIs
<1>7. Folded(step, base, more) = it[1..(n + 1)]
  BY <1>1, <1>2, FoldedIs
<1>8. Max(1..(n + 1)) = n + 1 /\ (1..(n + 1)) \ {n + 1} = 1..n
  <2>1. /\ Max(1..(n + 1)) \in 1..(n + 1)
        /\ \A y \in 1..(n + 1) : y <= Max(1..(n + 1))
    <3>1. n + 1 \in Nat /\ 1..(n + 1) # {}
      BY <1>1
    <3>. QED
      BY <3>1, MaxIn
  <2>2. n + 1 \in 1..(n + 1)
    BY <1>1
  <2>. QED
    BY <1>1, <2>1, <2>2
<1>9. it[1..(n + 1)] = step[<<it[1..n], e>>]
  <2>1. 1..(n + 1) # {}
    BY <1>1
  <2>. QED
    BY <1>1, <1>3, <1>8, <2>1 DEF FoldStep
<1>. QED
  BY <1>6, <1>7, <1>9 DEF more

LEMMA FoldTyped ==
  ASSUME NEW A, NEW T, NEW step, NEW base \in A, NEW seq \in Seq(T),
         \A a \in A, e \in T : step[<<a, e>>] \in A
  PROVE  \E it :
           /\ FoldSolves(it, step, base, seq)
           /\ Folded(step, base, seq) = it[1..Len(seq)]
           /\ \A s \in SUBSET (1..Len(seq)) : it[s] \in A
<1>. DEFINE n == Len(seq)
<1>1. n \in Nat /\ \A k \in 1..n : seq[k] \in T
  OBVIOUS
<1>2. PICK it : FoldSolves(it, step, base, seq)
  BY <1>1, FoldExists
<1>3. \A s \in SUBSET (1..n) : it[s] = FoldStep(it, step, base, seq, s)
  BY <1>2 DEF FoldSolves
<1>. DEFINE P == {s \in SUBSET (1..n) : it[s] \in A}
<1>4. {} \in P
  BY <1>3 DEF FoldStep
<1>5. ASSUME NEW s \in SUBSET (1..n), s # {}, s \ {Max(s)} \in P PROVE s \in P
  <2>1. Max(s) \in 1..n
    BY <1>1, <1>5, MaxIn
  <2>2. seq[Max(s)] \in T
    BY <1>1, <2>1
  <2>. QED
    BY <1>3, <1>5, <2>2 DEF FoldStep
<1>. HIDE DEF P
<1>6. \A s \in SUBSET (1..n) : s \in P
  BY <1>1, <1>4, <1>5, FoldInduction
<1>7. \A s \in SUBSET (1..n) : it[s] \in A
  BY <1>6 DEF P
<1>8. Folded(step, base, seq) = it[1..n]
  BY <1>1, <1>2, FoldedIs
<1>. QED
  BY <1>2, <1>7, <1>8

LEMMA FoldedOne ==
  ASSUME NEW T, NEW step, NEW base, NEW c \in T
  PROVE  Folded(step, base, <<c>>) = step[<<base, c>>]
<1>. DEFINE none == <<>>
<1>1. none \in Seq(T)
  OBVIOUS
<1>2. Append(none, c) = <<c>>
  OBVIOUS
<1>3. Folded(step, base, none) = base
  BY FoldedEmpty
<1>. HIDE DEF none
<1>4. Folded(step, base, Append(none, c)) = step[<<Folded(step, base, none), c>>]
  BY <1>1, FoldedAppend
<1>. QED
  BY <1>2, <1>3, <1>4

LEMMA FoldedType ==
  ASSUME NEW A, NEW T, NEW step, NEW base \in A, NEW seq \in Seq(T),
         \A a \in A, e \in T : step[<<a, e>>] \in A
  PROVE  Folded(step, base, seq) \in A
<1>1. PICK it :
        /\ FoldSolves(it, step, base, seq)
        /\ Folded(step, base, seq) = it[1..Len(seq)]
        /\ \A s \in SUBSET (1..Len(seq)) : it[s] \in A
  BY FoldTyped
<1>. QED
  BY <1>1

\* A fold over two joined sequences goes on where the first ends.
LEMMA FoldedConcat ==
  ASSUME NEW T, NEW step, NEW base, NEW a \in Seq(T), NEW b \in Seq(T)
  PROVE  Folded(step, base, a \o b) = Folded(step, Folded(step, base, a), b)
<1>. DEFINE mid == Folded(step, base, a)
            P == {s \in Seq(T) : Folded(step, base, a \o s) = Folded(step, mid, s)}
<1>1. <<>> \in P
  <2>1. a \o <<>> = a /\ <<>> \in Seq(T)
    OBVIOUS
  <2>2. Folded(step, mid, <<>>) = mid
    BY FoldedEmpty
  <2>. QED
    BY <2>1, <2>2
<1>2. ASSUME NEW s \in Seq(T), NEW e \in T, s \in P PROVE Append(s, e) \in P
  <2>1. a \o Append(s, e) = Append(a \o s, e) /\ a \o s \in Seq(T) /\ Append(s, e) \in Seq(T)
    OBVIOUS
  <2>2. Folded(step, base, Append(a \o s, e)) = step[<<Folded(step, base, a \o s), e>>]
    <3>. DEFINE both == a \o s
    <3>1. both \in Seq(T)
      BY <2>1
    <3>. HIDE DEF both
    <3>2. Folded(step, base, Append(both, e)) = step[<<Folded(step, base, both), e>>]
      BY <3>1, FoldedAppend
    <3>. QED
      BY <3>2 DEF both
  <2>. HIDE DEF mid
  <2>3. Folded(step, mid, Append(s, e)) = step[<<Folded(step, mid, s), e>>]
    BY FoldedAppend
  <2>4. Folded(step, base, a \o s) = Folded(step, mid, s)
    BY <1>2
  <2>5. Folded(step, base, a \o Append(s, e)) = Folded(step, mid, Append(s, e))
    BY <2>1, <2>2, <2>3, <2>4
  <2>. QED
    BY <2>1, <2>5
<1>. HIDE DEF P
<1>3. b \in P
  BY <1>1, <1>2, SeqSetInduction
<1>. QED
  BY <1>3 DEF P

-----------------------------------------------------------------------------
(* Joining sequences *)

LEMMA FlattenSeqType ==
  ASSUME NEW T, NEW seqs \in Seq(Seq(T))
  PROVE  FlattenSeq(seqs) \in Seq(T)
<1>. DEFINE n == Len(seqs)
<1>1. n \in Nat /\ \A i \in 1..n : seqs[i] \in Seq(T)
  OBVIOUS
<1>2. CASE n = 0
  <2>1. FlattenSeq(seqs) = seqs
    BY <1>2 DEF FlattenSeq
  <2>2. seqs = <<>>
    BY <1>2
  <2>. QED
    BY <2>1, <2>2
<1>3. CASE n # 0
  <2>1. PICK f : Flattens(f, seqs) /\ FlattenSeq(seqs) = f[n]
    BY <1>1, <1>3, FlattenSeqIs
  <2>2. \A i \in 1..n : f[i] = FlattenStep(f, seqs, i)
    BY <2>1 DEF Flattens
  <2>. DEFINE X == {i \in Nat : i \in 1..n => f[i] \in Seq(T)}
  <2>3. 0 \in X
    BY <1>1
  <2>4. ASSUME NEW i \in Nat, i \in X PROVE i + 1 \in X
    <3>. SUFFICES ASSUME i + 1 \in 1..n PROVE f[i + 1] \in Seq(T)
      OBVIOUS
    <3>0. seqs[i + 1] \in Seq(T)
      BY <1>1
    <3>1. CASE i = 0
      <4>1. f[1] = seqs[1]
        BY <2>2, <3>1 DEF FlattenStep
      <4>. QED
        BY <3>0, <3>1, <4>1
    <3>2. CASE i # 0
      <4>1. i \in 1..n /\ i + 1 # 1 /\ (i + 1) - 1 = i
        BY <1>1, <3>2
      <4>2. f[i] \in Seq(T)
        BY <2>4, <4>1
      <4>3. f[i + 1] = f[i] \o seqs[i + 1]
        BY <2>2, <4>1 DEF FlattenStep
      <4>. QED
        BY <3>0, <4>2, <4>3
    <3>. QED
      BY <3>1, <3>2
  <2>. HIDE DEF X
  <2>5. \A i \in Nat : i \in X
    BY <2>3, <2>4, NatSetInduction
  <2>. QED
    BY <1>1, <1>3, <2>1, <2>5 DEF X
<1>. QED
  BY <1>2, <1>3

LEMMA FlattenEmpty == FlattenSeq(<<>>) = <<>>
BY DEF FlattenSeq

LEMMA FlattenAppend ==
  ASSUME NEW T, NEW seqs \in Seq(Seq(T)), NEW s \in Seq(T)
  PROVE  FlattenSeq(Append(seqs, s)) = FlattenSeq(seqs) \o s
<1>. DEFINE n == Len(seqs)
            more == Append(seqs, s)
<1>1. /\ n \in Nat /\ Len(more) = n + 1 /\ more[n + 1] = s
      /\ \A i \in 1..n : more[i] = seqs[i]
  OBVIOUS
<1>. HIDE DEF more
<1>2. PICK f : Flattens(f, more) /\ FlattenSeq(more) = f[n + 1]
  BY <1>1, FlattenSeqIs
<1>3. \A i \in 1..(n + 1) : f[i] = FlattenStep(f, more, i)
  BY <1>1, <1>2 DEF Flattens
<1>4. CASE n = 0
  <2>1. seqs = <<>>
    BY <1>4
  <2>2. FlattenSeq(seqs) = <<>>
    BY <2>1, FlattenEmpty
  <2>3. f[1] = s
    BY <1>1, <1>3, <1>4 DEF FlattenStep
  <2>4. <<>> \o s = s
    OBVIOUS
  <2>. QED
    BY <1>2, <1>4, <2>2, <2>3, <2>4 DEF more
<1>5. CASE n # 0
  <2>1. PICK g : Flattens(g, seqs) /\ FlattenSeq(seqs) = g[n]
    BY <1>1, <1>5, FlattenSeqIs
  <2>2. \A i \in 1..n : g[i] = FlattenStep(g, seqs, i)
    BY <2>1 DEF Flattens
  <2>. DEFINE X == {i \in Nat : i \in 1..n => f[i] = g[i]}
  <2>3. 0 \in X
    BY <1>1
  <2>4. ASSUME NEW i \in Nat, i \in X PROVE i + 1 \in X
    <3>. SUFFICES ASSUME i + 1 \in 1..n PROVE f[i + 1] = g[i + 1]
      OBVIOUS
    <3>1. i + 1 \in 1..(n + 1) /\ (i + 1) - 1 = i /\ (i = 0 \/ i \in 1..n)
      BY <1>1
    <3>2. f[i + 1] = FlattenStep(f, more, i + 1) /\ g[i + 1] = FlattenStep(g, seqs, i + 1)
      BY <1>3, <2>2, <3>1
    <3>3. more[i + 1] = seqs[i + 1] /\ (i # 0 => f[i] = g[i])
      BY <1>1, <2>4, <3>1
    <3>4. i # 0 => i + 1 # 1
      OBVIOUS
    <3>. QED
      BY <3>1, <3>2, <3>3, <3>4 DEF FlattenStep
  <2>. HIDE DEF X
  <2>5. n \in X
    BY <1>1, <2>3, <2>4, NatSetInduction
  <2>6. f[n] = g[n]
    BY <1>1, <1>5, <2>5 DEF X
  <2>7. f[n + 1] = f[n] \o s
    <3>1. n + 1 \in 1..(n + 1) /\ n + 1 # 1 /\ (n + 1) - 1 = n
      BY <1>1, <1>5
    <3>. QED
      BY <1>1, <1>3, <3>1 DEF FlattenStep
  <2>. QED
    BY <1>2, <2>1, <2>6, <2>7 DEF more
<1>. QED
  BY <1>4, <1>5

\* The elements of the joined sequences.
ElementsOf(seqs) == UNION {ToSet(seqs[i]) : i \in 1..Len(seqs)}

LEMMA ConcatSet ==
  ASSUME NEW T, NEW a \in Seq(T), NEW b \in Seq(T)
  PROVE  ToSet(a \o b) = ToSet(a) \cup ToSet(b)
<1>1. /\ Len(a) \in Nat /\ Len(b) \in Nat
      /\ DOMAIN a = 1..Len(a) /\ DOMAIN b = 1..Len(b)
      /\ DOMAIN (a \o b) = 1..(Len(a) + Len(b))
      /\ \A i \in 1..(Len(a) + Len(b)) :
           (a \o b)[i] = IF i <= Len(a) THEN a[i] ELSE b[i - Len(a)]
  OBVIOUS
<1>2. \A x \in ToSet(a \o b) : x \in ToSet(a) \cup ToSet(b)
  BY <1>1 DEF ToSet
<1>3. \A i \in 1..Len(a) : i \in 1..(Len(a) + Len(b)) /\ i <= Len(a)
  BY <1>1
<1>4. \A i \in 1..Len(b) : /\ i + Len(a) \in 1..(Len(a) + Len(b))
                           /\ ~ (i + Len(a) <= Len(a)) /\ (i + Len(a)) - Len(a) = i
  BY <1>1
<1>5. ASSUME NEW i \in 1..Len(a) PROVE a[i] \in ToSet(a \o b)
  <2>1. (a \o b)[i] = a[i]
    BY <1>1, <1>3
  <2>. QED
    BY <1>1, <1>3, <2>1 DEF ToSet
<1>6. ASSUME NEW i \in 1..Len(b) PROVE b[i] \in ToSet(a \o b)
  <2>1. (a \o b)[i + Len(a)] = b[i]
    BY <1>1, <1>4
  <2>. QED
    BY <1>1, <1>4, <2>1 DEF ToSet
<1>7. /\ ToSet(a) = {a[i] : i \in 1..Len(a)}
      /\ ToSet(b) = {b[i] : i \in 1..Len(b)}
  BY <1>1 DEF ToSet
<1>. QED
  BY <1>2, <1>5, <1>6, <1>7

LEMMA FlattenedSet ==
  ASSUME NEW T, NEW seqs \in Seq(Seq(T))
  PROVE  ToSet(FlattenSeq(seqs)) = ElementsOf(seqs)
<1>. DEFINE P == {q \in Seq(Seq(T)) : ToSet(FlattenSeq(q)) = ElementsOf(q)}
<1>1. <<>> \in P
  <2>1. ToSet(<<>>) = {}
    BY DEF ToSet
  <2>2. ElementsOf(<<>>) = {}
    <3>1. 1..Len(<<>>) = {}
      OBVIOUS
    <3>. QED
      BY <3>1 DEF ElementsOf
  <2>3. <<>> \in Seq(Seq(T))
    OBVIOUS
  <2>. QED
    BY <2>1, <2>2, <2>3, FlattenEmpty
<1>2. ASSUME NEW q \in Seq(Seq(T)), NEW s \in Seq(T), q \in P PROVE Append(q, s) \in P
  <2>1. FlattenSeq(q) \in Seq(T)
    BY FlattenSeqType
  <2>2. ToSet(FlattenSeq(Append(q, s))) = ToSet(FlattenSeq(q)) \cup ToSet(s)
    <3>1. FlattenSeq(Append(q, s)) = FlattenSeq(q) \o s
      BY FlattenAppend
    <3>. QED
      BY <2>1, <3>1, ConcatSet
  <2>3. ElementsOf(Append(q, s)) = ElementsOf(q) \cup ToSet(s)
    <3>1. /\ Len(q) \in Nat /\ Len(Append(q, s)) = Len(q) + 1
          /\ \A i \in 1..Len(q) : Append(q, s)[i] = q[i]
          /\ Append(q, s)[Len(q) + 1] = s
      OBVIOUS
    <3>2. 1..(Len(q) + 1) = 1..Len(q) \cup {Len(q) + 1}
      BY <3>1
    <3>3. \A x : x \in ElementsOf(Append(q, s))
                  <=> x \in ToSet(s) \/ \E i \in 1..Len(q) : x \in ToSet(q[i])
      BY <3>1, <3>2 DEF ElementsOf
    <3>4. \A x : x \in ElementsOf(q) <=> \E i \in 1..Len(q) : x \in ToSet(q[i])
      BY DEF ElementsOf
    <3>. QED
      BY <3>3, <3>4
  <2>4. Append(q, s) \in Seq(Seq(T))
    OBVIOUS
  <2>. QED
    BY <1>2, <2>2, <2>3, <2>4
<1>. HIDE DEF P
<1>3. \A q \in Seq(Seq(T)) : q \in P
  BY <1>1, <1>2, SeqSetInduction
<1>. QED
  BY <1>3 DEF P

-----------------------------------------------------------------------------
(* Selecting the elements of a sequence that lie in a set *)

PickOf(x, S) == IF x \in S THEN <<x>> ELSE <<>>

Chosen(seq, S) == FlattenSeq([k \in DOMAIN seq |-> PickOf(seq[k], S)])

LEMMA ChosenEmpty ==
  ASSUME NEW S
  PROVE  Chosen(<<>>, S) = <<>>
<1>1. [k \in DOMAIN <<>> |-> PickOf(<<>>[k], S)] = <<>>
  OBVIOUS
<1>. QED
  BY <1>1, FlattenEmpty DEF Chosen

LEMMA PicksType ==
  ASSUME NEW T, NEW seq \in Seq(T), NEW S
  PROVE  /\ [k \in DOMAIN seq |-> PickOf(seq[k], S)] \in Seq(Seq(T))
         /\ Len([k \in DOMAIN seq |-> PickOf(seq[k], S)]) = Len(seq)
<1>. DEFINE picks == [k \in DOMAIN seq |-> PickOf(seq[k], S)]
<1>1. Len(seq) \in Nat /\ DOMAIN seq = 1..Len(seq) /\ \A k \in 1..Len(seq) : seq[k] \in T
  OBVIOUS
<1>2. \A k \in 1..Len(seq) : PickOf(seq[k], S) \in Seq(T)
  BY <1>1 DEF PickOf
<1>3. picks \in [1..Len(seq) -> Seq(T)]
  BY <1>1, <1>2
<1>. HIDE DEF picks
<1>4. picks \in Seq(Seq(T)) /\ Len(picks) = Len(seq)
  BY <1>1, <1>3
<1>. QED
  BY <1>4 DEF picks

LEMMA ChosenType ==
  ASSUME NEW T, NEW seq \in Seq(T), NEW S
  PROVE  Chosen(seq, S) \in Seq(T)
BY PicksType, FlattenSeqType DEF Chosen

LEMMA ChosenAppend ==
  ASSUME NEW T, NEW seq \in Seq(T), NEW e \in T, NEW S
  PROVE  Chosen(Append(seq, e), S) =
           IF e \in S THEN Append(Chosen(seq, S), e) ELSE Chosen(seq, S)
<1>. DEFINE picks(s) == [k \in DOMAIN s |-> PickOf(s[k], S)]
            more == Append(seq, e)
            n == Len(seq)
<1>1. /\ n \in Nat /\ DOMAIN seq = 1..n /\ DOMAIN more = 1..(n + 1)
      /\ \A k \in 1..n : more[k] = seq[k]
      /\ more[n + 1] = e
      /\ more \in Seq(T)
  OBVIOUS
<1>2. PickOf(e, S) \in Seq(T)
  BY DEF PickOf
<1>3. picks(seq) \in Seq(Seq(T)) /\ Len(picks(seq)) = n
  BY PicksType
<1>4. picks(more) \in Seq(Seq(T)) /\ Len(picks(more)) = n + 1
  <2>. HIDE DEF more
  <2>1. Len(more) = n + 1
    BY DEF more
  <2>. QED
    BY <1>1, <2>1, PicksType
<1>5. picks(more) = Append(picks(seq), PickOf(e, S))
  <2>1. \A k \in 1..n : picks(more)[k] = picks(seq)[k]
    <3>. HIDE DEF more
    <3>. QED
      BY <1>1
  <2>2. picks(more)[n + 1] = PickOf(e, S)
    <3>. HIDE DEF more
    <3>. QED
      BY <1>1
  <2>. HIDE DEF picks, more, n
  <2>. QED
    BY <1>1, <1>2, <1>3, <1>4, <2>1, <2>2
<1>6. Chosen(more, S) = FlattenSeq(picks(seq)) \o PickOf(e, S)
  <2>. HIDE DEF picks
  <2>1. Chosen(more, S) = FlattenSeq(picks(more))
    BY DEF Chosen, picks
  <2>. QED
    BY <1>2, <1>3, <1>5, <2>1, FlattenAppend
<1>7. Chosen(more, S) = Chosen(seq, S) \o PickOf(e, S)
  BY <1>6 DEF Chosen
<1>8. Chosen(seq, S) \in Seq(T)
  BY ChosenType
<1>. HIDE DEF more
<1>9. CASE e \in S
  <2>1. PickOf(e, S) = <<e>>
    BY <1>9 DEF PickOf
  <2>2. Chosen(seq, S) \o <<e>> = Append(Chosen(seq, S), e)
    BY <1>8
  <2>. QED
    BY <1>7, <1>9, <2>1, <2>2 DEF more
<1>10. CASE e \notin S
  <2>1. PickOf(e, S) = <<>>
    BY <1>10 DEF PickOf
  <2>2. Chosen(seq, S) \o <<>> = Chosen(seq, S)
    BY <1>8
  <2>. QED
    BY <1>7, <1>10, <2>1, <2>2 DEF more
<1>. QED
  BY <1>9, <1>10

LEMMA ChosenSet ==
  ASSUME NEW T, NEW seq \in Seq(T), NEW S
  PROVE  ToSet(Chosen(seq, S)) = ToSet(seq) \cap S
<1>. DEFINE picks == [k \in DOMAIN seq |-> PickOf(seq[k], S)]
<1>1. picks \in Seq(Seq(T)) /\ Len(picks) = Len(seq)
  BY PicksType
<1>2. ToSet(Chosen(seq, S)) = ElementsOf(picks)
  <2>. HIDE DEF picks
  <2>. QED
    BY <1>1, FlattenedSet DEF Chosen, picks
<1>3. Len(seq) \in Nat /\ DOMAIN seq = 1..Len(seq)
  OBVIOUS
<1>4. \A x : ToSet(PickOf(x, S)) = {x} \cap S
  <2>1. ASSUME NEW x, x \in S PROVE ToSet(PickOf(x, S)) = {x}
    <3>1. PickOf(x, S) = <<x>>
      BY <2>1 DEF PickOf
    <3>2. ToSet(<<x>>) = {x}
      BY DEF ToSet
    <3>. QED
      BY <3>1, <3>2
  <2>2. ASSUME NEW x, x \notin S PROVE ToSet(PickOf(x, S)) = {}
    BY <2>2 DEF PickOf, ToSet
  <2>. QED
    BY <2>1, <2>2
<1>5. \A k \in 1..Len(seq) : picks[k] = PickOf(seq[k], S)
  BY <1>3
<1>6. ElementsOf(picks) = UNION {{seq[k]} \cap S : k \in 1..Len(seq)}
  <2>. HIDE DEF picks
  <2>1. \A k \in 1..Len(seq) : ToSet(picks[k]) = {seq[k]} \cap S
    BY <1>4, <1>5
  <2>. QED
    BY <1>1, <2>1 DEF ElementsOf
<1>7. ToSet(seq) = {seq[k] : k \in 1..Len(seq)}
  BY <1>3 DEF ToSet
<1>. QED
  BY <1>2, <1>6, <1>7
=============================================================================
