--------------------------- MODULE Analysis_proofs ---------------------------
(***************************************************************************)
(* What the answers of Analysis promise for any lists, graphs, timelines    *)
(* and captures.  The state holds no more than the last request, so every   *)
(* property is inductive as it stands: the proofs are about the operators   *)
(* that compute an answer.                                                  *)
(***************************************************************************)
EXTENDS Analysis, Sums_proofs, FunctionTheorems, SequenceTheorems

-----------------------------------------------------------------------------
(* Sets and orders *)

LEMMA ImageFinite ==
  ASSUME NEW S, IsFiniteSet(S), NEW f
  PROVE  /\ IsFiniteSet({f[x] : x \in S})
         /\ Cardinality({f[x] : x \in S}) <= Cardinality(S)
<1>. DEFINE h == [x \in S |-> f[x]]
            T == {f[x] : x \in S}
<1>1. h \in Surjection(S, T)
  BY DEF Surjection
<1>. QED
  BY <1>1, FS_Surjection

\* A strict total order of S, as a set of pairs.
TotalOrder(R, S) ==
  /\ \A x \in S : <<x, x>> \notin R
  /\ \A x, y, z \in S : <<x, y>> \in R /\ <<y, z>> \in R => <<x, z>> \in R
  /\ \A x, y \in S : x # y => <<x, y>> \in R \/ <<y, x>> \in R

Below(R, S, x) == {y \in S : <<y, x>> \in R}

\* InOrder for such an order.
Ranked(S, R) ==
  [k \in 1..Cardinality(S) |-> CHOOSE x \in S : Cardinality(Below(R, S, x)) = k - 1]

\* Counting what is before it gives every element a place of its own.
LEMMA PlacesDiffer ==
  ASSUME NEW S, IsFiniteSet(S), NEW R, TotalOrder(R, S)
  PROVE  /\ \A x \in S : Cardinality(Below(R, S, x)) \in 0..(Cardinality(S) - 1)
         /\ \A x, y \in S : <<x, y>> \in R =>
              Cardinality(Below(R, S, x)) < Cardinality(Below(R, S, y))
<1>1. ASSUME NEW x \in S
      PROVE  /\ IsFiniteSet(Below(R, S, x)) /\ Cardinality(Below(R, S, x)) \in Nat
             /\ Cardinality(Below(R, S, x)) < Cardinality(S)
  <2>1. Below(R, S, x) \in SUBSET S /\ x \notin Below(R, S, x)
    BY DEF Below, TotalOrder
  <2>2. /\ IsFiniteSet(Below(R, S, x))
        /\ Cardinality(Below(R, S, x)) <= Cardinality(S)
        /\ Cardinality(S) # Cardinality(Below(R, S, x))
    BY <2>1, FS_Subset
  <2>3. Cardinality(S) \in Nat /\ Cardinality(Below(R, S, x)) \in Nat
    BY <2>2, FS_CardinalityType
  <2>. QED
    BY <2>2, <2>3
<1>2. ASSUME NEW x \in S, NEW y \in S, <<x, y>> \in R
      PROVE  Cardinality(Below(R, S, x)) < Cardinality(Below(R, S, y))
  <2>1. /\ Below(R, S, x) \in SUBSET Below(R, S, y)
        /\ x \in Below(R, S, y) /\ x \notin Below(R, S, x)
    BY <1>2 DEF Below, TotalOrder
  <2>2. /\ Cardinality(Below(R, S, x)) <= Cardinality(Below(R, S, y))
        /\ Cardinality(Below(R, S, y)) # Cardinality(Below(R, S, x))
    BY <1>1, <2>1, FS_Subset
  <2>. QED
    BY <1>1, <2>2
<1>3. Cardinality(S) \in Nat
  BY FS_CardinalityType
<1>4. ASSUME NEW x \in S
      PROVE  Cardinality(Below(R, S, x)) \in 0..(Cardinality(S) - 1)
  BY <1>1, <1>3
<1>. QED
  BY <1>2, <1>4

\* So the elements come out in order, each of them once.
LEMMA RankedIs ==
  ASSUME NEW S, IsFiniteSet(S), NEW R, TotalOrder(R, S)
  PROVE  /\ Cardinality(S) \in Nat
         /\ Ranked(S, R) \in [1..Cardinality(S) -> S]
         /\ Ranked(S, R) \in Seq(S) /\ Len(Ranked(S, R)) = Cardinality(S)
         /\ \A j, k \in 1..Cardinality(S) :
              j < k => <<Ranked(S, R)[j], Ranked(S, R)[k]>> \in R
         /\ \A x \in S : \E k \in 1..Cardinality(S) : Ranked(S, R)[k] = x
<1>. DEFINE n == Cardinality(S)
            place == [x \in S |-> Cardinality(Below(R, S, x)) + 1]
            s == Ranked(S, R)
<1>1. n \in Nat
  BY FS_CardinalityType
<1>2. \A x \in S : place[x] \in 1..n
  <2>1. ASSUME NEW x \in S PROVE place[x] \in 1..n
    <3>1. Cardinality(Below(R, S, x)) \in 0..(n - 1)
      BY PlacesDiffer
    <3>2. \A c : c \in 0..(n - 1) => c + 1 \in 1..n
      BY <1>1
    <3>. QED
      BY <3>1, <3>2
  <2>. QED
    BY <2>1
<1>3. \A x, y \in S : <<x, y>> \in R => place[x] < place[y]
  <2>1. ASSUME NEW x \in S, NEW y \in S, <<x, y>> \in R PROVE place[x] < place[y]
    <3>. DEFINE a == Cardinality(Below(R, S, x))
                b == Cardinality(Below(R, S, y))
    <3>1. a \in 0..(n - 1) /\ b \in 0..(n - 1) /\ a < b
      BY <2>1, PlacesDiffer
    <3>2. place[x] = a + 1 /\ place[y] = b + 1
      OBVIOUS
    <3>. HIDE DEF a, b, place
    <3>. QED
      BY <1>1, <3>1, <3>2
  <2>. QED
    BY <2>1
<1>4. \A k \in 1..n : s[k] = CHOOSE x \in S : Cardinality(Below(R, S, x)) = k - 1
  BY DEF Ranked
<1>5. place \in Injection(S, 1..n)
  <2>1. place \in [S -> 1..n]
    BY <1>2
  <2>2. ASSUME NEW x \in S, NEW y \in S, x # y PROVE place[x] # place[y]
    <3>1. <<x, y>> \in R \/ <<y, x>> \in R
      BY <2>2 DEF TotalOrder
    <3>2. place[x] < place[y] \/ place[y] < place[x]
      BY <1>3, <3>1
    <3>3. place[x] \in 1..n /\ place[y] \in 1..n
      BY <1>2
    <3>. HIDE DEF place, n
    <3>. QED
      BY <1>1, <3>2, <3>3
  <2>. HIDE DEF place
  <2>. QED
    BY <2>1, <2>2 DEF Injection, IsInjective
<1>6. place \in Surjection(S, 1..n)
  <2>1. IsFiniteSet(1..n) /\ Cardinality(1..n) = n
    BY <1>1, FS_Interval
  <2>. HIDE DEF place
  <2>. QED
    BY <1>5, <2>1, FS_Injection
<1>7. ASSUME NEW k \in 1..n PROVE s[k] \in S /\ place[s[k]] = k
  <2>1. \E x \in S : place[x] = k
    BY <1>6 DEF Surjection
  <2>2. \A x \in S : place[x] = k <=> Cardinality(Below(R, S, x)) = k - 1
    <3>1. ASSUME NEW x \in S PROVE place[x] = k <=> Cardinality(Below(R, S, x)) = k - 1
      <4>1. Cardinality(Below(R, S, x)) \in 0..(n - 1)
        BY PlacesDiffer
      <4>2. \A c : c \in 0..(n - 1) => (c + 1 = k <=> c = k - 1)
        BY <1>1
      <4>. QED
        BY <4>1, <4>2
    <3>. QED
      BY <3>1
  <2>. HIDE DEF place
  <2>. QED
    BY <1>4, <2>1, <2>2
<1>8. ASSUME NEW x \in S PROVE s[place[x]] = x
  <2>1. place[x] \in 1..n
    BY <1>2
  <2>2. s[place[x]] \in S /\ place[s[place[x]]] = place[x]
    BY <1>7, <2>1
  <2>. HIDE DEF place, s
  <2>. QED
    BY <1>5, <2>2 DEF Injection, IsInjective
<1>9. ASSUME NEW j \in 1..n, NEW k \in 1..n, j < k PROVE <<s[j], s[k]>> \in R
  <2>1. s[j] \in S /\ place[s[j]] = j /\ s[k] \in S /\ place[s[k]] = k
    BY <1>7
  <2>. HIDE DEF place, s
  <2>2. s[j] # s[k]
    BY <1>9, <2>1
  <2>3. ~ (<<s[k], s[j]>> \in R)
    BY <1>1, <1>3, <1>9, <2>1
  <2>. QED
    BY <2>1, <2>2, <2>3 DEF TotalOrder
<1>10. s \in [1..n -> S]
  <2>1. s = [k \in 1..n |-> s[k]]
    BY DEF Ranked
  <2>. HIDE DEF s
  <2>. QED
    BY <1>7, <2>1
<1>11. s \in Seq(S) /\ Len(s) = n
  <2>. HIDE DEF s, n
  <2>. QED
    BY <1>1, <1>10
<1>. QED
  BY <1>1, <1>2, <1>8, <1>9, <1>10, <1>11

-----------------------------------------------------------------------------
(* Sampling the list *)

\* A page of the sample shows the worst first.
WorseThan(gs) ==
  {p \in (DOMAIN gs) \X (DOMAIN gs) :
     LET a == GoroutineAnomalyScore(gs[p[1]])
         b == GoroutineAnomalyScore(gs[p[2]])
     IN  a > b \/ (a = b /\ p[1] < p[2])}

LEMMA ScoreTellsLeaks ==
  ASSUME NEW g, g.wait \in Int
  PROVE  /\ GoroutineAnomalyScore(g) \in Int
         /\ GoroutineAnomalyScore(g) >= 90
              <=> g.state \in {"WAITING", "BLOCKED"} /\ g.wait > LeakNS
BY DEF GoroutineAnomalyScore, LeakNS, BlockNS, NoticeNS

LEMMA WorseOrder ==
  ASSUME NEW gs, DOMAIN gs \subseteq Nat, \A i \in DOMAIN gs : gs[i].wait \in Int
  PROVE  TotalOrder(WorseThan(gs), DOMAIN gs)
<1>. DEFINE score(i) == GoroutineAnomalyScore(gs[i])
<1>1. \A i \in DOMAIN gs : score(i) \in Int
  BY ScoreTellsLeaks
<1>2. \A i, j \in DOMAIN gs : <<i, j>> \in WorseThan(gs)
                                <=> score(i) > score(j) \/ (score(i) = score(j) /\ i < j)
  BY DEF WorseThan
<1>. HIDE DEF score
<1>. QED
  BY <1>1, <1>2 DEF TotalOrder

LEMMA WorstFirst ==
  ASSUME NEW gs, NEW max
  PROVE  SampleGoroutines(gs, max) =
           IF max <= 0 \/ Cardinality(DOMAIN gs) <= max THEN Ascending(DOMAIN gs)
           ELSE Keep(Ranked(DOMAIN gs, WorseThan(gs)), max)
<1>. DEFINE Worse(i, j) ==
              LET a == GoroutineAnomalyScore(gs[i])
                  b == GoroutineAnomalyScore(gs[j])
              IN  a > b \/ (a = b /\ i < j)
<1>1. ASSUME NEW i \in DOMAIN gs
      PROVE  {y \in DOMAIN gs : Worse(y, i)} = Below(WorseThan(gs), DOMAIN gs, i)
  BY DEF Below, WorseThan
<1>. DEFINE before(x) == Cardinality({y \in DOMAIN gs : Worse(y, x)})
            below(x) == Cardinality(Below(WorseThan(gs), DOMAIN gs, x))
<1>2. \A x \in DOMAIN gs : before(x) = below(x)
  BY <1>1
<1>3. [k \in 1..Cardinality(DOMAIN gs) |-> CHOOSE x \in DOMAIN gs : before(x) = k - 1]
      = [k \in 1..Cardinality(DOMAIN gs) |-> CHOOSE x \in DOMAIN gs : below(x) = k - 1]
  <2>. HIDE DEF before, below
  <2>1. ASSUME NEW k
        PROVE  (CHOOSE x \in DOMAIN gs : before(x) = k - 1)
               = (CHOOSE x \in DOMAIN gs : below(x) = k - 1)
    BY <1>2
  <2>. QED
    BY <2>1
<1>. QED
  BY <1>3 DEF SampleGoroutines, InOrder, Ranked

\* The ascending order of numbers.
LessThan(S) == {p \in S \X S : p[1] < p[2]}

LEMMA AscendingIs ==
  ASSUME NEW S, S \subseteq Nat, IsFiniteSet(S)
  PROVE  /\ Cardinality(S) \in Nat
         /\ Ascending(S) \in Seq(S) /\ Len(Ascending(S)) = Cardinality(S)
         /\ DOMAIN Ascending(S) = 1..Cardinality(S)
         /\ \A j, k \in 1..Cardinality(S) : j < k => Ascending(S)[j] < Ascending(S)[k]
         /\ \A x \in S : \E k \in 1..Cardinality(S) : Ascending(S)[k] = x
<1>1. TotalOrder(LessThan(S), S)
  BY DEF TotalOrder, LessThan
<1>2. \A x \in S : {y \in S : y < x} = Below(LessThan(S), S, x)
  BY DEF Below, LessThan
<1>. DEFINE before(x) == Cardinality({y \in S : y < x})
            below(x) == Cardinality(Below(LessThan(S), S, x))
<1>3. Ascending(S) = Ranked(S, LessThan(S))
  <2>1. \A x \in S : before(x) = below(x)
    BY <1>2
  <2>2. ASSUME NEW k
        PROVE  (CHOOSE x \in S : before(x) = k - 1) = (CHOOSE x \in S : below(x) = k - 1)
    <3>. HIDE DEF before, below
    <3>. QED
      BY <2>1
  <2>3. [k \in 1..Cardinality(S) |-> CHOOSE x \in S : before(x) = k - 1]
        = [k \in 1..Cardinality(S) |-> CHOOSE x \in S : below(x) = k - 1]
    <3>. HIDE DEF before, below
    <3>. QED
      BY <2>2
  <2>. QED
    BY <2>3 DEF Ascending, InOrder, Ranked
<1>4. /\ Cardinality(S) \in Nat
      /\ Ascending(S) \in [1..Cardinality(S) -> S]
      /\ Ascending(S) \in Seq(S) /\ Len(Ascending(S)) = Cardinality(S)
      /\ \A j, k \in 1..Cardinality(S) :
           j < k => <<Ascending(S)[j], Ascending(S)[k]>> \in LessThan(S)
      /\ \A x \in S : \E k \in 1..Cardinality(S) : Ascending(S)[k] = x
  BY <1>1, <1>3, RankedIs
<1>5. \A x, y : <<x, y>> \in LessThan(S) => x < y
  BY DEF LessThan
<1>. QED
  BY <1>4, <1>5

\* The sample of some goroutines: a leak is left out for other leaks only.
LEMMA SampleKeepsLeaks ==
  ASSUME NEW gs, IsFiniteSet(DOMAIN gs), DOMAIN gs \subseteq Nat,
         \A i \in DOMAIN gs : gs[i].wait \in Int, NEW max \in Nat
  PROVE  LET leaks == {i \in DOMAIN gs : /\ gs[i].state \in {"WAITING", "BLOCKED"}
                                         /\ gs[i].wait > LeakNS}
             shown == ToSet(SampleGoroutines(gs, max))
         IN  leaks \ shown # {} => shown \subseteq leaks /\ Cardinality(shown) = max
<1>. DEFINE D == DOMAIN gs
            leaks == {i \in D : gs[i].state \in {"WAITING", "BLOCKED"} /\ gs[i].wait > LeakNS}
            shown == ToSet(SampleGoroutines(gs, max))
            n == Cardinality(D)
            s == Ranked(D, WorseThan(gs))
<1>0. n \in Nat
  BY FS_CardinalityType
<1>1. CASE max <= 0 \/ n <= max
  <2>1. SampleGoroutines(gs, max) = Ascending(D)
    BY <1>1, WorstFirst
  <2>2. D \subseteq shown
    BY <2>1, AscendingIs DEF ToSet
  <2>. QED
    BY <2>2
<1>2. CASE max > 0 /\ n > max
  <2>1. /\ s \in [1..n -> D] /\ s \in Seq(D) /\ Len(s) = n
        /\ \A j, k \in 1..n : j < k => <<s[j], s[k]>> \in WorseThan(gs)
        /\ \A x \in D : \E k \in 1..n : s[k] = x
    BY RankedIs, WorseOrder
  <2>2. SampleGoroutines(gs, max) = SubSeq(s, 1, max)
    <3>1. ~ (max <= 0 \/ n <= max)
      BY <1>0, <1>2
    <3>2. SampleGoroutines(gs, max) = Keep(s, max)
      BY <3>1, WorstFirst
    <3>. HIDE DEF s, n
    <3>. QED
      BY <1>2, <2>1, <3>2 DEF Keep
  <2>3. shown = {s[k] : k \in 1..max}
    <3>. HIDE DEF s, n
    <3>1. DOMAIN SubSeq(s, 1, max) = 1..max /\ \A k \in 1..max : SubSeq(s, 1, max)[k] = s[k]
      BY <1>0, <1>2, <2>1
    <3>. QED
      BY <2>2, <3>1 DEF ToSet
  <2>4. 1..max \subseteq 1..n
    BY <1>0, <1>2
  <2>5. Cardinality(shown) = max
    <3>. DEFINE f == [k \in 1..max |-> s[k]]
    <3>. HIDE DEF s, n, shown, D
    <3>1. f \in Surjection(1..max, shown)
      BY <2>3 DEF Surjection
    <3>2. \A j, k \in 1..max : j < k => s[j] # s[k]
      <4>1. ASSUME NEW j \in 1..max, NEW k \in 1..max, j < k PROVE s[j] # s[k]
        <5>1. <<s[j], s[k]>> \in WorseThan(gs) /\ s[j] \in D
          BY <2>1, <2>4, <4>1
        <5>2. <<s[j], s[j]>> \notin WorseThan(gs)
          BY <5>1, WorseOrder DEF TotalOrder, D
        <5>. QED
          BY <5>1, <5>2
      <4>. QED
        BY <4>1
    <3>3. \A j, k \in 1..max : s[j] = s[k] => j = k
      <4>. SUFFICES ASSUME NEW j \in 1..max, NEW k \in 1..max, j # k PROVE s[j] # s[k]
        OBVIOUS
      <4>1. j < k \/ k < j
        OBVIOUS
      <4>. QED
        BY <3>2, <4>1
    <3>4. f \in Injection(1..max, shown)
      BY <2>3, <3>3 DEF Injection, IsInjective
    <3>5. IsFiniteSet(1..max) /\ Cardinality(1..max) = max
      BY <1>2, FS_Interval
    <3>6. Cardinality(shown) = Cardinality(1..max)
      <4>. HIDE DEF f
      <4>. QED
        BY <3>1, <3>4, <3>5, FS_Surjection
    <3>. QED
      BY <3>5, <3>6
  <2>6. ASSUME NEW x \in leaks \ shown, NEW y \in shown PROVE y \in leaks
    <3>1. PICK k \in 1..n : s[k] = x
      BY <2>1
    <3>2. PICK j \in 1..max : s[j] = y
      BY <2>3, <2>6
    <3>3. k \notin 1..max
      BY <2>3, <2>6, <3>1
    <3>4. j < k /\ j \in 1..n
      BY <1>0, <2>4, <3>1, <3>2, <3>3
    <3>5. <<y, x>> \in WorseThan(gs)
      BY <2>1, <3>1, <3>2, <3>4
    <3>6. /\ y \in D /\ x \in D
          /\ GoroutineAnomalyScore(gs[y]) >= GoroutineAnomalyScore(gs[x])
      <4>1. /\ GoroutineAnomalyScore(gs[y]) \in Int
            /\ GoroutineAnomalyScore(gs[x]) \in Int
            /\ y \in D
        BY <3>5, ScoreTellsLeaks DEF WorseThan
      <4>2. \/ GoroutineAnomalyScore(gs[y]) > GoroutineAnomalyScore(gs[x])
            \/ GoroutineAnomalyScore(gs[y]) = GoroutineAnomalyScore(gs[x])
        BY <3>5 DEF WorseThan
      <4>. QED
        BY <4>1, <4>2
    <3>7. GoroutineAnomalyScore(gs[x]) >= 90
      BY <2>6, ScoreTellsLeaks
    <3>8. GoroutineAnomalyScore(gs[y]) >= 90
      <4>1. /\ GoroutineAnomalyScore(gs[y]) \in Int
            /\ GoroutineAnomalyScore(gs[x]) \in Int
        BY <3>6, ScoreTellsLeaks
      <4>. QED
        BY <3>6, <3>7, <4>1
    <3>. QED
      BY <3>6, <3>8, ScoreTellsLeaks
  <2>. QED
    BY <2>5, <2>6
<1>. QED
  BY <1>0, <1>1, <1>2

-----------------------------------------------------------------------------
(* The requests *)

\* Every step answers one request or forgets the last answer.
Requests ==
  \/ \E gs \in Snapshots, graph \in Graphs : Check(gs, graph)
  \/ \E read \in Readings : Insights(read)
  \/ \E read \in Readings, params \in ListParams : List(read.gs, params)
  \/ \E segs \in Timelines, resolution \in 0..3, limit \in {0, 1} :
       Heatmap(segs, resolution, limit)
  \/ \E a, b \in Captures, format \in {"text", "json"}, pct \in {0, 50} :
       Compare(a, b, format, pct)
  \/ \E a, b \in StackLists : CompareStacks(a, b)
  \/ \E list \in FlameInputs, state \in {"", "WAITING"}, depth \in 0..2 :
       Flame(list, state, depth)
  \/ \E blocks \in Dumps : ReadDump(blocks)
  \/ job'.kind \in {"none", "groups", "watch"}
  \/ job' = job

LEMMA NextAnswers == [Next]_vars => Requests
<1>. SUFFICES ASSUME [Next]_vars PROVE Requests
  OBVIOUS
<1>1. CASE Answer
  <2>1. ASSUME NEW gs, NEW segs, NEW by, Groups(gs, segs, by) PROVE job'.kind = "groups"
    BY <2>1, Zenon DEF Groups
  <2>. QED
    BY <1>1, <2>1, Zenon DEF Answer, Requests
<1>2. CASE WatchTick
  <2>1. job'.kind = "watch"
    <3>1. PICK gs, opts, alerts, sent :
            job' = [kind |-> "watch", gs |-> gs, opts |-> opts,
                    alerts |-> alerts, sent |-> sent]
      BY <1>2, Zenon DEF WatchTick
    <3>. QED
      BY <3>1
  <2>. QED
    BY <2>1 DEF Requests
<1>3. CASE Forget
  BY <1>3 DEF Forget, Idle, Requests
<1>4. CASE UNCHANGED vars
  BY <1>4 DEF vars, Requests
<1>. QED
  BY <1>1, <1>2, <1>3, <1>4 DEF Next

\* Which kind of answer each request gives.
LEMMA KindOf ==
  /\ \A gs, graph : Check(gs, graph) => job'.kind = "check"
  /\ \A read : Insights(read) => job'.kind = "insights"
  /\ \A gs, params : List(gs, params) => job'.kind = "list"
  /\ \A segs, resolution, limit : Heatmap(segs, resolution, limit) => job'.kind = "heatmap"
  /\ \A a, b, format, pct : Compare(a, b, format, pct) => job'.kind = "compare"
  /\ \A a, b : CompareStacks(a, b) => job'.kind = "stacks"
  /\ \A list, state, depth : Flame(list, state, depth) => job'.kind = "flame"
  /\ \A blocks : ReadDump(blocks) => job'.kind = "dump"
<1>1. ASSUME NEW gs, NEW graph, Check(gs, graph)
      PROVE  job'.kind = "check"
  <2>1. PICK edges, hints, sarif, github, wfg, failed :
          job' = [kind |-> "check", gs |-> gs, graph |-> graph, edges |-> edges,
                  hints |-> hints, sarif |-> sarif, github |-> github,
                  wfg |-> wfg, failed |-> failed]
    BY <1>1, Zenon DEF Check
  <2>. QED
    BY <2>1
<1>2. ASSUME NEW read, Insights(read)
      PROVE  job'.kind = "insights"
  <2>1. PICK insights : job' = [kind |-> "insights", gs |-> read.gs, insights |-> insights]
    BY <1>2, Zenon DEF Insights
  <2>. QED
    BY <2>1
<1>3. ASSUME NEW gs, NEW params, List(gs, params)
      PROVE  job'.kind = "list"
  BY <1>3, Zenon DEF List
<1>4. ASSUME NEW segs, NEW resolution, NEW limit, Heatmap(segs, resolution, limit)
      PROVE  job'.kind = "heatmap"
  BY <1>4, Zenon DEF Heatmap
<1>5. ASSUME NEW a, NEW b, NEW format, NEW pct, Compare(a, b, format, pct)
      PROVE  job'.kind = "compare"
  BY <1>5, Zenon DEF Compare
<1>6. ASSUME NEW a, NEW b, CompareStacks(a, b)
      PROVE  job'.kind = "stacks"
  BY <1>6, Zenon DEF CompareStacks
<1>7. ASSUME NEW list, NEW state, NEW depth, Flame(list, state, depth)
      PROVE  job'.kind = "flame"
  BY <1>7, Zenon DEF Flame
<1>8. ASSUME NEW blocks, ReadDump(blocks)
      PROVE  job'.kind = "dump"
  BY <1>8, Zenon DEF ReadDump
<1>. QED
  BY <1>1, <1>2, <1>3, <1>4, <1>5, <1>6, <1>7, <1>8

LEMMA ListAnswered ==
  ASSUME NEW gs, IsList(gs), NEW params, List(gs, params)
  PROVE  LeaksSurviveSampling'
<1>1. job' = [kind |-> "list", gs |-> gs, params |-> params,
              shown |-> ListGoroutines(gs, params, MaxDisplay)]
  BY DEF List
<1>. SUFFICES ASSUME params.limit = -1, params.offset = 0
     PROVE  LET leaks == {i \in LeakCandidates(gs, LeakNS) : gs[i].wait > LeakNS}
                found == FilterGoroutines(gs, params)
                shown == ToSet(ListGoroutines(gs, params, MaxDisplay))
            IN  (found \cap leaks) \ shown # {} =>
                  shown \subseteq leaks /\ Cardinality(shown) = MaxDisplay
  BY <1>1 DEF LeaksSurviveSampling, Is
<1>. DEFINE leaks == {i \in LeakCandidates(gs, LeakNS) : gs[i].wait > LeakNS}
            found == FilterGoroutines(gs, params)
            page == Restrict(gs, found)
            shown == ToSet(SampleGoroutines(page, MaxDisplay))
            leaking == {i \in DOMAIN page : /\ page[i].state \in {"WAITING", "BLOCKED"}
                                            /\ page[i].wait > LeakNS}
<1>2. ListGoroutines(gs, params, MaxDisplay) = SampleGoroutines(page, MaxDisplay)
  BY DEF ListGoroutines
<1>3. found \subseteq DOMAIN gs
  BY DEF FilterGoroutines
<1>4. DOMAIN page = found /\ \A i \in found : page[i] = gs[i]
  BY DEF Restrict
<1>5. IsFiniteSet(found)
  BY <1>3, FS_Subset DEF IsList
<1>6. /\ IsFiniteSet(DOMAIN page) /\ DOMAIN page \subseteq Nat
      /\ \A i \in DOMAIN page : page[i].wait \in Int
  BY <1>3, <1>4, <1>5 DEF IsList
<1>7. MaxDisplay \in Nat
  BY InputAssumption
<1>8. found \cap leaks = leaking /\ leaking \subseteq leaks
  <2>1. leaks = {i \in DOMAIN gs : /\ gs[i].state \in {"WAITING", "BLOCKED"}
                                   /\ gs[i].wait > LeakNS}
    BY DEF LeakCandidates, LeakNS, IsList
  <2>. QED
    BY <1>3, <1>4, <2>1
<1>9. leaking \ shown # {} => shown \subseteq leaking /\ Cardinality(shown) = MaxDisplay
  <2>. HIDE DEF page
  <2>. QED
    BY <1>6, <1>7, SampleKeepsLeaks
<1>. QED
  BY <1>2, <1>8, <1>9

\* However long the list and whatever the filter: a goroutine that leaked is left
\* out of the sample only when the sample shows leaks and nothing else.
THEOREM LeaksStayShown == Spec => []LeaksSurviveSampling
<1>1. Init => LeaksSurviveSampling
  BY DEF Init, Idle, LeaksSurviveSampling, Is
<1>2. LeaksSurviveSampling /\ [Next]_vars => LeaksSurviveSampling'
  <2>. SUFFICES ASSUME LeaksSurviveSampling, Requests PROVE LeaksSurviveSampling'
    BY NextAnswers
  <2>1. ASSUME NEW read \in Readings, NEW params, List(read.gs, params)
        PROVE  LeaksSurviveSampling'
    BY <2>1, ListAnswered, InputAssumption
  <2>2. CASE job'.kind # "list"
    BY <2>2 DEF LeaksSurviveSampling, Is
  <2>3. CASE job' = job
    BY <2>3 DEF LeaksSurviveSampling, Is
  <2>. QED
    BY <2>1, <2>2, <2>3, KindOf DEF Requests
<1>. QED
  BY <1>1, <1>2, PTL DEF Spec

-----------------------------------------------------------------------------
(* Edges *)

EdgeType == [from : Nat, to : Nat, resource : Nat]

LEMMA SeqOfSeqs ==
  ASSUME NEW T, NEW n \in Nat, NEW f, \A i \in 1..n : f[i] \in Seq(T),
         f = [i \in 1..n |-> f[i]]
  PROVE  f \in Seq(Seq(T))
<1>1. f \in [1..n -> Seq(T)]
  OBVIOUS
<1>. QED
  BY <1>1

LEMMA PairEdgesType ==
  ASSUME NEW ids \in Seq(Nat), NEW r \in Nat
  PROVE  PairEdges(ids, r) \in Seq(EdgeType)
<1>. DEFINE n == Len(ids)
            Both(i, j) == IF i < j
                          THEN <<Edge(ids[i], ids[j], r), Edge(ids[j], ids[i], r)>>
                          ELSE <<>>
            row(i) == [j \in 1..n |-> Both(i, j)]
            rows == [i \in 1..n |-> FlattenSeq(row(i))]
<1>1. n \in Nat /\ DOMAIN ids = 1..n /\ \A i \in 1..n : ids[i] \in Nat
  OBVIOUS
<1>2. ASSUME NEW i \in 1..n, NEW j \in 1..n PROVE Both(i, j) \in Seq(EdgeType)
  <2>1. Edge(ids[i], ids[j], r) \in EdgeType /\ Edge(ids[j], ids[i], r) \in EdgeType
    BY <1>1 DEF Edge, EdgeType
  <2>. DEFINE a == Edge(ids[i], ids[j], r)
              b == Edge(ids[j], ids[i], r)
  <2>2. a \in EdgeType /\ b \in EdgeType
    BY <2>1
  <2>3. <<a, b>> \in Seq(EdgeType) /\ <<>> \in Seq(EdgeType)
    <3>. HIDE DEF a, b
    <3>. QED
      BY <2>2
  <2>. QED
    BY <2>3
<1>. HIDE DEF Both
<1>3. ASSUME NEW i \in 1..n PROVE FlattenSeq(row(i)) \in Seq(EdgeType)
  <2>1. row(i) \in [1..n -> Seq(EdgeType)]
    BY <1>2
  <2>2. row(i) \in Seq(Seq(EdgeType))
    <3>. HIDE DEF row, n
    <3>. QED
      BY <1>1, <2>1
  <2>. QED
    BY <2>2, FlattenSeqType
<1>4. rows \in [1..n -> Seq(EdgeType)]
  BY <1>3
<1>5. rows \in Seq(Seq(EdgeType))
  <2>. HIDE DEF rows, n
  <2>. QED
    BY <1>1, <1>4
<1>6. PairEdges(ids, r) = FlattenSeq(rows)
  BY <1>1 DEF PairEdges, Both
<1>. QED
  BY <1>5, <1>6, FlattenSeqType

LEMMA DerivedType ==
  ASSUME NEW gs, IsList(gs), NEW order \in Seq(Nat)
  PROVE  DeriveCurrentContentionEdges(gs, order) \in Seq(EdgeType)
<1>. DEFINE n == Len(order)
            pairs(k) == PairEdges(Ascending(Contenders(gs, order[k])), order[k])
            rows == [k \in 1..n |-> pairs(k)]
<1>1. n \in Nat /\ DOMAIN order = 1..n /\ \A k \in 1..n : order[k] \in Nat
  OBVIOUS
<1>2. ASSUME NEW k \in 1..n PROVE pairs(k) \in Seq(EdgeType)
  <2>. DEFINE C == Contenders(gs, order[k])
  <2>1. C \subseteq DOMAIN gs
    BY DEF Contenders
  <2>2. C \subseteq Nat /\ IsFiniteSet(C)
    BY <2>1, FS_Subset DEF IsList
  <2>3. Ascending(C) \in Seq(C)
    <3>. HIDE DEF C
    <3>. QED
      BY <2>2, AscendingIs
  <2>4. Ascending(C) \in Seq(Nat)
    <3>. DEFINE a == Ascending(C)
                m == Len(a)
    <3>. HIDE DEF C, a, m
    <3>1. a \in Seq(C) /\ m = Len(a) /\ m \in Nat
      BY <2>3 DEF a, m
    <3>2. a \in [1..m -> C]
      BY <3>1
    <3>3. a \in [1..m -> Nat]
      BY <2>2, <3>2
    <3>4. a \in Seq(Nat)
      BY <3>1, <3>3
    <3>. QED
      BY <3>4 DEF a
  <2>. QED
    BY <1>1, <2>4, PairEdgesType
<1>. HIDE DEF pairs
<1>3. rows \in [1..n -> Seq(EdgeType)]
  BY <1>2
<1>4. rows \in Seq(Seq(EdgeType))
  <2>. HIDE DEF rows, n
  <2>. QED
    BY <1>1, <1>3
<1>5. DeriveCurrentContentionEdges(gs, order) = FlattenSeq(rows)
  BY <1>1 DEF DeriveCurrentContentionEdges, pairs
<1>. QED
  BY <1>4, <1>5, FlattenSeqType

\* The edges of a deadlock search, read or derived.
LEMMA EdgesType ==
  ASSUME NEW gs, IsList(gs), NEW graph, IsGraph(graph), NEW order \in ResourceOrders(gs)
  PROVE  EdgesFor(gs, graph, order) \in Seq(EdgeType)
<1>. DEFINE resource == [i \in DOMAIN gs |-> gs[i].resource]
            R == {gs[i].resource : i \in DOMAIN gs}
            named == R \ {NoResource}
<1>1. R = {resource[i] : i \in DOMAIN gs}
  OBVIOUS
<1>2. IsFiniteSet(R)
  <2>. HIDE DEF resource, R
  <2>. QED
    BY <1>1, ImageFinite DEF IsList
<1>3. R \subseteq Nat
  BY DEF IsList
<1>4. IsFiniteSet(named) /\ Cardinality(named) \in Nat /\ named \subseteq Nat
  BY <1>2, <1>3, FS_Subset, FS_CardinalityType
<1>5. order \in [1..Cardinality(named) -> named]
  BY DEF ResourceOrders, SetToSeqs
<1>6. order \in Seq(Nat)
  <2>. HIDE DEF named
  <2>1. order \in [1..Cardinality(named) -> Nat]
    BY <1>4, <1>5
  <2>. QED
    BY <1>4, <2>1
<1>. QED
  BY <1>6, DerivedType DEF EdgesFor, IsGraph, EdgeType

-----------------------------------------------------------------------------
(* The ranked insights *)

LEMMA HintsFinite ==
  ASSUME NEW edges \in Seq(EdgeType), NEW gs
  PROVE  IsFiniteSet(FindDeadlockHints(edges, gs))
<1>. DEFINE D == DOMAIN edges
            seen == ToSet(edges)
            leading == {f \in seen : f.to # 0}
            from == [e \in leading |-> e.from]
            cycle == [i \in Sources(edges) |-> FindCycleFrom(i, edges)]
            found == {FindCycleFrom(i, edges) : i \in Sources(edges)}
            long == {d \in found : Len(d) >= 2}
            key == [c \in long |-> CycleKey(c)]
            chosen == {d \in CyclesFound(edges) : AllBlocked(d, gs)}
            hint == [c \in chosen |->
                       [cycle |-> c, resources |-> ResourcesInCycle(c, edges),
                        chain |-> BuildBlameChain(c, edges, gs)]]
<1>1. IsFiniteSet(seen)
  <2>1. Len(edges) \in Nat /\ D = 1..Len(edges)
    OBVIOUS
  <2>2. IsFiniteSet(D)
    BY <2>1, FS_Interval
  <2>. QED
    BY <2>2, ImageFinite DEF ToSet
<1>2. IsFiniteSet(Sources(edges))
  <2>1. IsFiniteSet(leading)
    BY <1>1, FS_Subset
  <2>2. Sources(edges) = {from[e] : e \in leading}
    BY DEF Sources
  <2>. HIDE DEF from, leading
  <2>. QED
    BY <2>1, <2>2, ImageFinite
<1>3. IsFiniteSet(found)
  <2>1. found = {cycle[i] : i \in Sources(edges)}
    OBVIOUS
  <2>. HIDE DEF cycle, found
  <2>. QED
    BY <1>2, <2>1, ImageFinite
<1>4. IsFiniteSet(CyclesFound(edges))
  <2>1. IsFiniteSet(long)
    <3>. HIDE DEF found
    <3>. QED
      BY <1>3, FS_Subset
  <2>2. CyclesFound(edges) = {key[c] : c \in long}
    BY DEF CyclesFound
  <2>. HIDE DEF key, long
  <2>. QED
    BY <2>1, <2>2, ImageFinite
<1>5. IsFiniteSet(chosen)
  BY <1>4, FS_Subset
<1>6. FindDeadlockHints(edges, gs) = {hint[c] : c \in chosen}
  BY DEF FindDeadlockHints
<1>. HIDE DEF hint, chosen
<1>. QED
  BY <1>5, <1>6, ImageFinite

\* What severity a score goes with.
Graded(x) ==
  /\ x.score \in Int
  /\ x.id[1] \in Nat /\ x.id[2] \in Int
  /\ \/ x.severity = "critical" /\ x.score >= 78
     \/ x.severity = "warning" /\ x.score >= 55 /\ x.score <= 75
     \/ x.severity = "info" /\ x.score <= 40

\* The insights of one kind: as many as there are indices, each of them graded.
OneKind(S, kind) ==
  /\ IsFiniteSet(S)
  /\ \A x \in S : Graded(x) /\ x.id[1] = kind
  /\ \A x, y \in S : x.id[2] = y.id[2] => x = y

LEMMA InsightIs ==
  ASSUME NEW kind \in Nat, NEW n \in Int, NEW severity, NEW score \in Int, NEW ids, NEW rs,
         \/ severity = "critical" /\ score >= 78
         \/ severity = "warning" /\ score >= 55 /\ score <= 75
         \/ severity = "info" /\ score <= 40
  PROVE  /\ Graded(Insight(kind, n, severity, score, ids, rs))
         /\ Insight(kind, n, severity, score, ids, rs).id[1] = kind
         /\ Insight(kind, n, severity, score, ids, rs).id[2] = n
BY DEF Insight, Graded

\* Keep leaves the first places of a list.
LEMMA KeptPlaces ==
  ASSUME NEW seq, NEW n \in Nat, DOMAIN seq = 1..n, Len(seq) = n
  PROVE  /\ IsFiniteSet(DOMAIN Keep(seq, MaxEntries))
         /\ \A k \in DOMAIN Keep(seq, MaxEntries) : k \in 1..5
<1>1. DOMAIN Keep(seq, MaxEntries) = 1..(IF 5 < n THEN 5 ELSE n)
  BY DEF Keep, MaxEntries
<1>2. (IF 5 < n THEN 5 ELSE n) \in 0..5
  OBVIOUS
<1>3. IsFiniteSet(1..(IF 5 < n THEN 5 ELSE n))
  BY <1>2, FS_Interval
<1>. QED
  BY <1>1, <1>2, <1>3

LEMMA InOrderPlaces ==
  ASSUME NEW S, IsFiniteSet(S), NEW s, DOMAIN s = 1..Cardinality(S),
         s = [k \in DOMAIN s |-> s[k]]
  PROVE  Cardinality(S) \in Nat /\ Len(s) = Cardinality(S)
<1>1. Cardinality(S) \in Nat
  BY FS_CardinalityType
<1>. DEFINE n == Cardinality(S)
<1>2. n \in Nat /\ DOMAIN s = 1..n
  BY <1>1
<1>. HIDE DEF n
<1>3. Len(s) = n
  BY <1>2
<1>. QED
  BY <1>1, <1>3 DEF n

LEMMA DeadlockGraded ==
  ASSUME NEW gs, NEW edges \in Seq(EdgeType)
  PROVE  OneKind(DeadlockInsights(edges, gs), Deadlock)
<1>. DEFINE H == FindDeadlockHints(edges, gs)
            hints == SetToSeq(H)
            D == DOMAIN hints
            x(n) == Insight(Deadlock, n - 1, "critical", 100, ToSet(hints[n].cycle),
                            hints[n].resources)
            f == [n \in D |-> x(n)]
<1>1. IsFiniteSet(H)
  BY HintsFinite
<1>2. IsFiniteSet(D) /\ D \subseteq Nat
  <2>1. hints \in Seq(H)
    BY <1>1, SetToSeqIs
  <2>2. Len(hints) \in Nat /\ D = 1..Len(hints)
    <3>. HIDE DEF hints, H
    <3>. QED
      BY <2>1
  <2>. QED
    BY <2>2, FS_Interval
<1>3. \A n \in D : Graded(x(n)) /\ x(n).id[1] = Deadlock /\ x(n).id[2] = n - 1
  <2>. HIDE DEF hints, D
  <2>. QED
    BY <1>2, InsightIs DEF Deadlock
<1>4. DeadlockInsights(edges, gs) = {f[n] : n \in D} /\ \A n \in D : f[n] = x(n)
  BY DEF DeadlockInsights
<1>. HIDE DEF f, x, D
<1>5. IsFiniteSet({f[n] : n \in D})
  BY <1>2, ImageFinite
<1>6. \A m, n \in D : m - 1 = n - 1 => m = n
  BY <1>2
<1>. QED
  BY <1>3, <1>4, <1>5, <1>6 DEF OneKind

\* A group of goroutines by function, as GroupGoroutines makes it.
GroupOf(gs, ids, key) ==
  LET members == {i \in ids : GroupKey(gs[i], "function") = key}
  IN  [key |-> key, goroutines |-> members,
       states |-> [s \in {gs[i].state : i \in members} |->
                     Cardinality({i \in members : gs[i].state = s})],
       totalWait |-> Total(members, LAMBDA i : gs[i].wait),
       maxWait |-> MaxOf({gs[i].wait : i \in members}),
       totalCPU |-> Total(members, LAMBDA i : CpuTime({}, i))]

GroupsOf(gs, ids) == {GroupOf(gs, ids, GroupKey(gs[i], "function")) : i \in ids}

LEMMA GroupsListed ==
  ASSUME NEW gs, NEW ids, IsFiniteSet(ids)
  PROVE  LET S == GroupsOf(gs, ids)
             Before(a, b) == LET m == Cardinality(a.goroutines)
                                 n == Cardinality(b.goroutines)
                             IN  m > n \/ (m = n /\ a.key < b.key)
         IN  /\ IsFiniteSet(S)
             /\ GroupGoroutines(gs, ids, {}, "function")
                  = [k \in 1..Cardinality(S) |->
                       CHOOSE a \in S : Cardinality({b \in S : Before(b, a)}) = k - 1]
<1>. DEFINE S == GroupsOf(gs, ids)
            g == [i \in ids |-> GroupOf(gs, ids, GroupKey(gs[i], "function"))]
<1>1. S = {g[i] : i \in ids}
  BY DEF GroupsOf
<1>2. IsFiniteSet(S)
  <2>. HIDE DEF S, g
  <2>. QED
    BY <1>1, ImageFinite
<1>. QED
  BY <1>2, Zenon DEF GroupGoroutines, InOrder, GroupsOf, GroupOf

LEMMA LeaksGraded ==
  ASSUME NEW gs, IsList(gs), NEW threshold
  PROVE  OneKind(LeakInsights(gs, threshold), Leak)
<1>. DEFINE ids == LeakCandidates(gs, threshold)
            groups == GroupGoroutines(gs, ids, {}, "function")
            D == DOMAIN Keep(groups, MaxEntries)
            x(n) == Insight(Leak, n - 1, "critical", 90 - 3 * (n - 1),
                            groups[n].goroutines, {})
            f == [n \in D |-> x(n)]
<1>1. IsFiniteSet(ids)
  <2>1. ids \subseteq DOMAIN gs
    BY DEF LeakCandidates
  <2>. QED
    BY <2>1, FS_Subset DEF IsList
<1>2. IsFiniteSet(D) /\ D \subseteq 1..5
  <2>. DEFINE S == GroupsOf(gs, ids)
  <2>1. /\ IsFiniteSet(S) /\ DOMAIN groups = 1..Cardinality(S)
        /\ groups = [k \in DOMAIN groups |-> groups[k]]
    <3>. DEFINE Before(a, b) == LET m == Cardinality(a.goroutines)
                                    n == Cardinality(b.goroutines)
                                IN  m > n \/ (m = n /\ a.key < b.key)
                place(k) == CHOOSE a \in S : Cardinality({b \in S : Before(b, a)}) = k - 1
    <3>1. IsFiniteSet(S) /\ groups = [k \in 1..Cardinality(S) |-> place(k)]
      BY <1>1, GroupsListed, Zenon
    <3>. HIDE DEF groups, S, place
    <3>. QED
      BY <3>1
  <2>. HIDE DEF S
  <2>. HIDE DEF groups
  <2>2. Cardinality(S) \in Nat /\ Len(groups) = Cardinality(S)
    BY <2>1, InOrderPlaces
  <2>. QED
    BY <2>1, <2>2, KeptPlaces
<1>. HIDE DEF groups, D
<1>3. \A n \in D : Graded(x(n)) /\ x(n).id[1] = Leak /\ x(n).id[2] = n - 1
  <2>1. ASSUME NEW n \in D
        PROVE  Graded(x(n)) /\ x(n).id[1] = Leak /\ x(n).id[2] = n - 1
    <3>1. n - 1 \in Int /\ 90 - 3 * (n - 1) \in Int /\ 90 - 3 * (n - 1) >= 78
      BY <1>2
    <3>. QED
      BY <3>1, InsightIs DEF Leak
  <2>. QED
    BY <2>1
<1>4. LeakInsights(gs, threshold) = {f[n] : n \in D} /\ \A n \in D : f[n] = x(n)
  BY DEF LeakInsights, groups, D
<1>. HIDE DEF f, x
<1>5. IsFiniteSet({f[n] : n \in D})
  BY <1>2, ImageFinite
<1>6. \A m, n \in D : m - 1 = n - 1 => m = n
  BY <1>2
<1>. QED
  BY <1>3, <1>4, <1>5, <1>6 DEF OneKind

LEMMA ContentionGraded ==
  ASSUME NEW segs, IsTimeline(segs), NEW minPeak
  PROVE  OneKind(ContentionInsights(segs, minPeak), Contention)
<1>. DEFINE R == ResourcesOf(segs)
            entry == [r \in R |-> [resource |-> r, peak |-> PeakConcurrent(OnResource(segs, r)),
                                   count |-> Cardinality(OnResource(segs, r)),
                                   totalWait |-> Total(OnResource(segs, r), Duration)]]
            all == ComputeResourceContention(segs)
            S == {c \in all : c.peak >= minPeak}
            Before(a, b) == a.peak > b.peak \/ (a.peak = b.peak /\ a.resource < b.resource)
            place(k) == CHOOSE a \in S : Cardinality({b \in S : Before(b, a)}) = k - 1
            high == [k \in 1..Cardinality(S) |-> place(k)]
            D == DOMAIN Keep(high, MaxEntries)
            x(n) == Insight(Contention, n - 1, "warning", 75 - 5 * (n - 1), {},
                            {high[n].resource})
            f == [n \in D |-> x(n)]
<1>1. IsFiniteSet(R)
  <2>. DEFINE resource == [s \in segs |-> s.resource]
              T == {s.resource : s \in segs}
  <2>1. T = {resource[s] : s \in segs}
    OBVIOUS
  <2>2. IsFiniteSet(T)
    <3>. HIDE DEF resource, T
    <3>. QED
      BY <2>1, ImageFinite DEF IsTimeline
  <2>3. R \in SUBSET T
    BY DEF ResourcesOf
  <2>. HIDE DEF T
  <2>. QED
    BY <2>2, <2>3, FS_Subset
<1>2. IsFiniteSet(S)
  <2>1. all = {entry[r] : r \in R}
    BY DEF ComputeResourceContention
  <2>2. IsFiniteSet(all)
    <3>. HIDE DEF entry, R, all
    <3>. QED
      BY <1>1, <2>1, ImageFinite
  <2>. HIDE DEF all
  <2>. QED
    BY <2>2, FS_Subset
<1>3. IsFiniteSet(D) /\ D \subseteq 1..5
  <2>1. /\ DOMAIN high = 1..Cardinality(S)
        /\ high = [k \in DOMAIN high |-> high[k]]
    <3>. HIDE DEF place, S
    <3>. QED
      OBVIOUS
  <2>. HIDE DEF high, S
  <2>2. Cardinality(S) \in Nat /\ Len(high) = Cardinality(S)
    BY <1>2, <2>1, InOrderPlaces
  <2>. QED
    BY <2>1, <2>2, KeptPlaces
<1>4. ContentionInsights(segs, minPeak) = {f[n] : n \in D} /\ \A n \in D : f[n] = x(n)
  BY DEF ContentionInsights, InOrder
<1>. HIDE DEF high, D, f
<1>5. \A n \in D : Graded(x(n)) /\ x(n).id[1] = Contention /\ x(n).id[2] = n - 1
  <2>1. ASSUME NEW n \in D
        PROVE  Graded(x(n)) /\ x(n).id[1] = Contention /\ x(n).id[2] = n - 1
    <3>1. /\ n - 1 \in Int /\ 75 - 5 * (n - 1) \in Int
          /\ 75 - 5 * (n - 1) >= 55 /\ 75 - 5 * (n - 1) <= 75
      BY <1>3
    <3>. QED
      BY <3>1, InsightIs DEF Contention
  <2>. QED
    BY <2>1
<1>. HIDE DEF x
<1>6. IsFiniteSet({f[n] : n \in D})
  BY <1>3, ImageFinite
<1>7. \A m, n \in D : m - 1 = n - 1 => m = n
  BY <1>3
<1>. QED
  BY <1>4, <1>5, <1>6, <1>7 DEF OneKind

LEMMA BlockingGraded ==
  ASSUME NEW gs, NEW block, NEW leak
  PROVE  OneKind(BlockingInsights(gs, block, leak), Blocking)
<1>. DEFINE long == {i \in DOMAIN gs : gs[i].wait < leak /\ IsBlockedState(gs[i].state)
                                       /\ gs[i].wait >= block}
            score == IF Cardinality(long) > ManyBlocked THEN 70 ELSE 60
            x == Insight(Blocking, 0, "warning", score,
                         ToSet(Keep(Ascending(long), MaxReported)), {})
<1>1. BlockingInsights(gs, block, leak) \in {{}, {x}}
  BY DEF BlockingInsights
<1>2. score \in {60, 70}
  OBVIOUS
<1>3. Graded(x) /\ x.id[1] = Blocking
  <2>. HIDE DEF score, long
  <2>. QED
    BY <1>2, InsightIs DEF Blocking
<1>. HIDE DEF x
<1>. QED
  BY <1>1, <1>3, FS_EmptySet, FS_Singleton DEF OneKind

LEMMA CountGraded ==
  ASSUME NEW gs, NEW minCount
  PROVE  OneKind(GoroutineCountInsight(gs, minCount), Count)
<1>. DEFINE n == Cardinality(DOMAIN gs)
            score == IF n > ManyGoroutines THEN 40 ELSE 30
            x == Insight(Count, 0, "info", score, {}, {})
<1>1. GoroutineCountInsight(gs, minCount) \in {{}, {x}}
  BY DEF GoroutineCountInsight
<1>2. score \in {30, 40}
  OBVIOUS
<1>3. Graded(x) /\ x.id[1] = Count
  <2>. HIDE DEF score
  <2>. QED
    BY <1>2, InsightIs DEF Count
<1>. HIDE DEF x
<1>. QED
  BY <1>1, <1>3, FS_EmptySet, FS_Singleton DEF OneKind

\* The order of the ranked list.
HigherThan(S) ==
  {p \in S \X S : \/ p[1].score > p[2].score
                  \/ (p[1].score = p[2].score /\ p[1].id[1] < p[2].id[1])
                  \/ (p[1].score = p[2].score /\ p[1].id[1] = p[2].id[1]
                      /\ p[1].id[2] < p[2].id[2])}

LEMMA HigherOrder ==
  ASSUME NEW S, \A x \in S : Graded(x),
         \A x, y \in S : x.id[1] = y.id[1] /\ x.id[2] = y.id[2] => x = y
  PROVE  TotalOrder(HigherThan(S), S)
<1>1. \A x \in S : x.score \in Int /\ x.id[1] \in Int /\ x.id[2] \in Int
  BY DEF Graded
<1>2. \A x, y \in S : <<x, y>> \in HigherThan(S)
                        <=> \/ x.score > y.score
                            \/ (x.score = y.score /\ x.id[1] < y.id[1])
                            \/ (x.score = y.score /\ x.id[1] = y.id[1] /\ x.id[2] < y.id[2])
  BY DEF HigherThan
<1>. QED
  BY <1>1, <1>2 DEF TotalOrder

AllInsights(gs, segs, edges, minPeak, minCount) ==
  DeadlockInsights(edges, gs) \cup LeakInsights(gs, LeakNS)
    \cup ContentionInsights(segs, minPeak) \cup BlockingInsights(gs, BlockNS, LeakNS)
    \cup GoroutineCountInsight(gs, minCount)

Listed(list) == {list[k] : k \in DOMAIN list}

\* The list is sorted by score, and the scores of the severities do not overlap.
LEMMA InsightsRanked ==
  ASSUME NEW gs, IsList(gs), NEW segs, IsTimeline(segs),
         NEW edges \in Seq(EdgeType), NEW minPeak, NEW minCount
  PROVE  LET s == GenerateInsights(gs, segs, edges, minPeak, minCount)
         IN  /\ \A j, k \in DOMAIN s :
                  j < k => Graded(s[j]) /\ Graded(s[k]) /\ s[j].score >= s[k].score
             /\ Listed(s) = AllInsights(gs, segs, edges, minPeak, minCount)
<1>. DEFINE S1 == DeadlockInsights(edges, gs)
            S2 == LeakInsights(gs, LeakNS)
            S3 == ContentionInsights(segs, minPeak)
            S4 == BlockingInsights(gs, BlockNS, LeakNS)
            S5 == GoroutineCountInsight(gs, minCount)
            S == S1 \cup S2 \cup S3 \cup S4 \cup S5
            s == GenerateInsights(gs, segs, edges, minPeak, minCount)
<1>1. /\ OneKind(S1, 3) /\ OneKind(S2, 5) /\ OneKind(S3, 2) /\ OneKind(S4, 1)
      /\ OneKind(S5, 4)
  BY DeadlockGraded, LeaksGraded, ContentionGraded, BlockingGraded, CountGraded
     DEF Deadlock, Leak, Contention, Blocking, Count
<1>. DEFINE Before(a, b) == \/ a.score > b.score
                            \/ (a.score = b.score /\ a.id[1] < b.id[1])
                            \/ (a.score = b.score /\ a.id[1] = b.id[1] /\ a.id[2] < b.id[2])
            before(x) == Cardinality({y \in S : Before(y, x)})
            below(x) == Cardinality(Below(HigherThan(S), S, x))
<1>2. s = [k \in 1..Cardinality(S) |-> CHOOSE x \in S : before(x) = k - 1]
  BY DEF GenerateInsights, InOrder
<1>. HIDE DEF S1, S2, S3, S4, S5, s
<1>3. IsFiniteSet(S)
  BY <1>1, FS_Union DEF OneKind
<1>4. \A x \in S : Graded(x)
  BY <1>1 DEF OneKind
<1>5. \A x, y \in S : x.id[1] = y.id[1] /\ x.id[2] = y.id[2] => x = y
  BY <1>1 DEF OneKind
<1>. HIDE DEF S
<1>6. TotalOrder(HigherThan(S), S)
  BY <1>4, <1>5, HigherOrder
<1>7. s = Ranked(S, HigherThan(S))
  <2>1. \A x \in S : before(x) = below(x)
    <3>1. \A x, y \in S : Before(y, x) <=> <<y, x>> \in HigherThan(S)
      BY DEF HigherThan
    <3>2. ASSUME NEW x \in S
          PROVE  {y \in S : Before(y, x)} = {y \in S : <<y, x>> \in HigherThan(S)}
      <4>. HIDE DEF Before
      <4>. QED
        BY <3>1
    <3>3. ASSUME NEW x \in S PROVE before(x) = below(x)
      <4>1. {y \in S : Before(y, x)} = Below(HigherThan(S), S, x)
        BY <3>2, <3>3, Zenon DEF Below
      <4>. HIDE DEF Before
      <4>. QED
        BY <4>1
    <3>. HIDE DEF before, below
    <3>. QED
      BY <3>3
  <2>2. ASSUME NEW k
        PROVE  (CHOOSE x \in S : before(x) = k - 1) = (CHOOSE x \in S : below(x) = k - 1)
    <3>. HIDE DEF before, below
    <3>. QED
      BY <2>1
  <2>3. s = [k \in 1..Cardinality(S) |-> CHOOSE x \in S : below(x) = k - 1]
    <3>. HIDE DEF before, below
    <3>1. [k \in 1..Cardinality(S) |-> CHOOSE x \in S : before(x) = k - 1]
          = [k \in 1..Cardinality(S) |-> CHOOSE x \in S : below(x) = k - 1]
      BY <2>2
    <3>. QED
      BY <1>2, <3>1, Zenon
  <2>. QED
    BY <2>3 DEF Ranked
<1>8. /\ Cardinality(S) \in Nat /\ s \in [1..Cardinality(S) -> S]
      /\ \A j, k \in 1..Cardinality(S) : j < k => <<s[j], s[k]>> \in HigherThan(S)
      /\ \A x \in S : \E k \in 1..Cardinality(S) : s[k] = x
  BY <1>3, <1>6, <1>7, RankedIs
<1>9. ASSUME NEW j \in DOMAIN s, NEW k \in DOMAIN s, j < k
      PROVE  Graded(s[j]) /\ Graded(s[k]) /\ s[j].score >= s[k].score
  <2>1. s[j] \in S /\ s[k] \in S /\ <<s[j], s[k]>> \in HigherThan(S)
    BY <1>8, <1>9
  <2>2. Graded(s[j]) /\ Graded(s[k])
    BY <1>4, <2>1
  <2>3. s[j].score > s[k].score \/ s[j].score = s[k].score
    BY <2>1 DEF HigherThan
  <2>4. s[j].score \in Int /\ s[k].score \in Int
    BY <2>2 DEF Graded
  <2>. QED
    BY <2>2, <2>3, <2>4
<1>10. Listed(s) = S
  BY <1>8 DEF Listed
<1>11. S = AllInsights(gs, segs, edges, minPeak, minCount)
  BY Zenon DEF S, S1, S2, S3, S4, S5, AllInsights
<1>. QED
  BY <1>9, <1>10, <1>11 DEF s

LEMMA InsightsAnswered ==
  ASSUME NEW read \in Readings, Insights(read)
  PROVE  SeverityRanked'
<1>1. PICK order \in ResourceOrders(read.gs) :
        job' = [kind |-> "insights", gs |-> read.gs,
                insights |-> GenerateInsights(read.gs, read.segs,
                               EdgesFor(read.gs, read.graph, order), MinPeak, MinCount)]
  BY Zenon DEF Insights
<1>. DEFINE edges == EdgesFor(read.gs, read.graph, order)
            s == GenerateInsights(read.gs, read.segs, edges, MinPeak, MinCount)
            Rank(x) == CASE x.severity = "critical" -> 3
                         [] x.severity = "warning" -> 2
                         [] OTHER -> 1
<1>2. IsList(read.gs) /\ IsTimeline(read.segs) /\ IsGraph(read.graph)
  BY InputAssumption
<1>3. edges \in Seq(EdgeType)
  BY <1>2, EdgesType
<1>. HIDE DEF edges
<1>4. \A j, k \in DOMAIN s :
        j < k => Graded(s[j]) /\ Graded(s[k]) /\ s[j].score >= s[k].score
  BY <1>2, <1>3, InsightsRanked
<1>5. job'.kind = "insights" /\ job'.insights = s
  BY <1>1 DEF edges
<1>. HIDE DEF s
<1>6. ASSUME NEW j \in DOMAIN s, NEW k \in DOMAIN s, j < k PROVE Rank(s[j]) >= Rank(s[k])
  <2>1. Graded(s[j]) /\ Graded(s[k]) /\ s[j].score >= s[k].score
    BY <1>4, <1>6
  <2>2. \/ s[j].severity = "critical"
        \/ s[j].severity = "warning" /\ s[k].severity # "critical"
        \/ s[j].severity = "info" /\ s[k].severity = "info"
    BY <2>1 DEF Graded
  <2>3. Rank(s[k]) \in {1, 2, 3}
    OBVIOUS
  <2>. QED
    BY <2>2, <2>3
<1>. QED
  BY <1>5, <1>6 DEF SeverityRanked, Is

\* However many findings of each kind there are, the list never puts a less severe
\* one above a more severe one: the scores of a kind sink place by place, but
\* never into those of the next severity.
THEOREM SeveritiesDescend == Spec => []SeverityRanked
<1>1. Init => SeverityRanked
  BY DEF Init, Idle, SeverityRanked, Is
<1>2. SeverityRanked /\ [Next]_vars => SeverityRanked'
  <2>. SUFFICES ASSUME SeverityRanked, Requests PROVE SeverityRanked'
    BY NextAnswers
  <2>1. ASSUME NEW read \in Readings, Insights(read) PROVE SeverityRanked'
    BY <2>1, InsightsAnswered
  <2>2. CASE job'.kind # "insights"
    BY <2>2 DEF SeverityRanked, Is
  <2>3. CASE job' = job
    BY <2>3 DEF SeverityRanked, Is
  <2>. QED
    BY <2>1, <2>2, <2>3, KindOf DEF Requests
<1>. QED
  BY <1>1, <1>2, PTL DEF Spec

-----------------------------------------------------------------------------
(* The deadlock search *)

Leads(edges, a, b) == \E e \in ToSet(edges) : e.from = a /\ e.to = b

Targets(edges) == {e.to : e \in ToSet(edges)}

\* A path of the search: different goroutines, each waiting for the next.
Walk(path, edges) ==
  /\ path \in Seq(Nat) /\ Len(path) >= 1
  /\ \A i, j \in 1..Len(path) : path[i] = path[j] => i = j
  /\ \A k \in 1..(Len(path) - 1) : Leads(edges, path[k], path[k + 1])

Closed(c, edges) == Walk(c, edges) /\ Leads(edges, c[Len(c)], c[1])

LEMMA MinIn ==
  ASSUME NEW S, S \subseteq Nat, S # {}
  PROVE  Min(S) \in S /\ \A y \in S : Min(S) <= y
<1>1. PICK m \in S : \A k \in S : ~ (<<k, m>> \in OpToRel(<, Nat))
  BY NatLessThanWellFounded, WFMin, Zenon
<1>2. \A y \in S : m <= y
  <2>1. \A y \in S : ~ (y < m)
    BY <1>1 DEF OpToRel
  <2>. QED
    BY <2>1
<1>3. \E x \in S : \A y \in S : x <= y
  BY <1>2
<1>4. Min(S) = CHOOSE x \in S : \A y \in S : x <= y
  BY DEF Min
<1>. QED
  BY <1>3, <1>4, Zenon

LEMMA SuccessorsLead ==
  ASSUME NEW edges \in Seq(EdgeType), NEW a
  PROVE  Successors(edges, a) \in Seq({b \in Nat : Leads(edges, a, b)})
<1>. DEFINE T == {b \in Nat : Leads(edges, a, b)}
            n == Len(edges)
            row(k) == IF edges[k].from = a /\ edges[k].to # 0 THEN <<edges[k].to>> ELSE <<>>
            rows == [k \in 1..n |-> row(k)]
<1>1. /\ n \in Nat /\ DOMAIN edges = 1..n
      /\ \A k \in 1..n : edges[k] \in EdgeType /\ edges[k] \in ToSet(edges)
  BY DEF ToSet
<1>2. ASSUME NEW k \in 1..n PROVE row(k) \in Seq(T)
  <2>1. CASE edges[k].from = a /\ edges[k].to # 0
    <3>1. edges[k].to \in T
      BY <1>1, <2>1 DEF Leads, EdgeType
    <3>2. row(k) = <<edges[k].to>>
      BY <2>1
    <3>. HIDE DEF T
    <3>. QED
      BY <3>1, <3>2
  <2>2. CASE ~ (edges[k].from = a /\ edges[k].to # 0)
    <3>1. row(k) = <<>>
      BY <2>2, Zenon
    <3>. QED
      BY <3>1
  <2>. QED
    BY <2>1, <2>2
<1>. HIDE DEF row, T
<1>3. rows \in [1..n -> Seq(T)]
  BY <1>2
<1>4. rows \in Seq(Seq(T))
  <2>. HIDE DEF rows, n
  <2>. QED
    BY <1>1, <1>3
<1>5. Successors(edges, a) = FlattenSeq(rows)
  BY <1>1 DEF Successors, row
<1>. QED
  BY <1>4, <1>5, FlattenSeqType DEF T

PlaceOf(path, b) == SelectInSeq(path, LAMBDA i : i = b)

\* One step of the search, with f for the deeper ones.
Tries(f, path, edges) ==
  LET nexts == Successors(edges, Last(path))
  IN  [k \in DOMAIN nexts |->
         IF nexts[k] \in ToSet(path)
         THEN SubSeq(path, PlaceOf(path, nexts[k]), Len(path))
         ELSE f[Append(path, nexts[k])]]

FirstHit(tries) ==
  LET hit == SelectInSeq(tries, LAMBDA c : c # <<>>)
  IN  IF hit = 0 THEN <<>> ELSE tries[hit]

Searches(f, edges) == f = [path \in Seq(Nat) |-> FirstHit(Tries(f, path, edges))]

LEMMA FindCycleIs ==
  ASSUME NEW start, NEW edges
  PROVE  FindCycleFrom(start, edges) = (CHOOSE f : Searches(f, edges))[<<start>>]
BY DEF FindCycleFrom, Searches, FirstHit, Tries, PlaceOf

LEMMA PlaceIs ==
  ASSUME NEW path \in Seq(Nat), NEW b \in ToSet(path)
  PROVE  PlaceOf(path, b) \in 1..Len(path) /\ path[PlaceOf(path, b)] = b
<1>. DEFINE I == {i \in 1..Len(path) : path[i] = b}
<1>1. I \subseteq Nat /\ I # {}
  BY DEF ToSet
<1>2. Min(I) \in I
  BY <1>1, MinIn
<1>3. PlaceOf(path, b) = Min(I)
  BY <1>1 DEF PlaceOf, SelectInSeq
<1>. QED
  BY <1>2, <1>3

LEMMA FirstHitIs ==
  ASSUME NEW tries, NEW n \in Nat, DOMAIN tries = 1..n, Len(tries) = n
  PROVE  FirstHit(tries) = <<>> \/ \E k \in 1..n : FirstHit(tries) = tries[k]
<1>. DEFINE I == {i \in 1..n : tries[i] # <<>>}
            hit == SelectInSeq(tries, LAMBDA c : c # <<>>)
<1>1. hit = IF I # {} THEN Min(I) ELSE 0
  BY DEF SelectInSeq
<1>2. I # {} => Min(I) \in I
  <2>1. I \subseteq Nat
    OBVIOUS
  <2>. HIDE DEF I
  <2>. QED
    BY <2>1, MinIn
<1>3. hit = 0 \/ hit \in 1..n
  BY <1>1, <1>2
<1>4. FirstHit(tries) = IF hit = 0 THEN <<>> ELSE tries[hit]
  BY DEF FirstHit
<1>. HIDE DEF hit
<1>. QED
  BY <1>3, <1>4

LEMMA TriesIs ==
  ASSUME NEW edges \in Seq(EdgeType), NEW path, NEW f
  PROVE  \E n \in Nat :
           /\ DOMAIN Tries(f, path, edges) = 1..n /\ Len(Tries(f, path, edges)) = n
           /\ \A k \in 1..n : \E b \in Nat :
                /\ Leads(edges, Last(path), b)
                /\ Tries(f, path, edges)[k] =
                     IF b \in ToSet(path)
                     THEN SubSeq(path, PlaceOf(path, b), Len(path))
                     ELSE f[Append(path, b)]
<1>. DEFINE nexts == Successors(edges, Last(path))
            n == Len(nexts)
            try(b) == IF b \in ToSet(path)
                      THEN SubSeq(path, PlaceOf(path, b), Len(path))
                      ELSE f[Append(path, b)]
            T == {b \in Nat : Leads(edges, Last(path), b)}
<1>1. nexts \in Seq(T)
  BY SuccessorsLead
<1>2. Tries(f, path, edges) = [k \in DOMAIN nexts |-> try(nexts[k])]
  BY DEF Tries
<1>. HIDE DEF nexts, try
<1>3. n \in Nat /\ DOMAIN nexts = 1..n /\ \A k \in 1..n : nexts[k] \in T
  <2>. HIDE DEF T
  <2>. QED
    BY <1>1
<1>. HIDE DEF n
<1>4. DOMAIN Tries(f, path, edges) = 1..n /\ Len(Tries(f, path, edges)) = n
  BY <1>2, <1>3
<1>5. \A k \in 1..n : Tries(f, path, edges)[k] = try(nexts[k])
  BY <1>2, <1>3
<1>. QED
  BY <1>3, <1>4, <1>5 DEF try

LEMMA TargetsFinite ==
  ASSUME NEW edges \in Seq(EdgeType)
  PROVE  /\ IsFiniteSet(Targets(edges))
         /\ \A a, b : Leads(edges, a, b) => b \in Targets(edges)
<1>. DEFINE seen == ToSet(edges)
            to == [e \in seen |-> e.to]
<1>1. IsFiniteSet(seen)
  <2>1. Len(edges) \in Nat /\ DOMAIN edges = 1..Len(edges)
    OBVIOUS
  <2>2. IsFiniteSet(DOMAIN edges)
    BY <2>1, FS_Interval
  <2>. QED
    BY <2>2, ImageFinite DEF ToSet
<1>2. Targets(edges) = {to[e] : e \in seen}
  BY DEF Targets
<1>. HIDE DEF to
<1>3. IsFiniteSet(Targets(edges))
  <2>. HIDE DEF seen
  <2>. QED
    BY <1>1, <1>2, ImageFinite
<1>. QED
  BY <1>3 DEF Leads, Targets

\* How many goroutines the path can still reach; it falls with every step.
Open(path, edges) == Cardinality(Targets(edges) \ ToSet(path))

LEMMA OpenFalls ==
  ASSUME NEW edges \in Seq(EdgeType), NEW path \in Seq(Nat)
  PROVE  /\ Open(path, edges) \in Nat
         /\ Open(path, edges) <= Cardinality(Targets(edges))
         /\ \A b \in Nat : b \in Targets(edges) /\ b \notin ToSet(path) =>
              /\ Append(path, b) \in Seq(Nat)
              /\ Open(Append(path, b), edges) < Open(path, edges)
<1>. DEFINE T == Targets(edges)
<1>1. IsFiniteSet(T)
  BY TargetsFinite
<1>2. ASSUME NEW p
      PROVE  /\ IsFiniteSet(T \ ToSet(p)) /\ Cardinality(T \ ToSet(p)) \in Nat
             /\ Cardinality(T \ ToSet(p)) <= Cardinality(T)
  <2>1. (T \ ToSet(p)) \in SUBSET T
    OBVIOUS
  <2>. QED
    BY <1>1, <2>1, FS_Subset, FS_CardinalityType
<1>3. ASSUME NEW b \in Nat, b \in T, b \notin ToSet(path)
      PROVE  /\ Append(path, b) \in Seq(Nat)
             /\ Open(Append(path, b), edges) < Open(path, edges)
  <2>1. Append(path, b) \in Seq(Nat)
    OBVIOUS
  <2>2. ToSet(Append(path, b)) = ToSet(path) \cup {b}
    <3>1. /\ Len(path) \in Nat /\ DOMAIN path = 1..Len(path)
          /\ DOMAIN Append(path, b) = 1..(Len(path) + 1)
          /\ \A i \in 1..Len(path) : Append(path, b)[i] = path[i]
          /\ Append(path, b)[Len(path) + 1] = b
      OBVIOUS
    <3>. QED
      BY <3>1 DEF ToSet
  <2>3. T \ ToSet(Append(path, b)) = (T \ ToSet(path)) \ {b}
    BY <2>2
  <2>4. Cardinality((T \ ToSet(path)) \ {b}) = Cardinality(T \ ToSet(path)) - 1
    BY <1>2, <1>3, FS_RemoveElement
  <2>5. Open(path, edges) \in Nat
    BY <1>2 DEF Open
  <2>6. Open(Append(path, b), edges) = Cardinality((T \ ToSet(path)) \ {b})
    BY <2>3, Zenon DEF Open
  <2>7. Open(Append(path, b), edges) = Open(path, edges) - 1
    BY <2>4, <2>6, Zenon DEF Open
  <2>. QED
    BY <2>1, <2>5, <2>7
<1>. QED
  BY <1>2, <1>3 DEF Open

\* One step of the search looks at longer paths only.
LEMMA TriesSame ==
  ASSUME NEW edges \in Seq(EdgeType), NEW path, NEW f, NEW g,
         \A b \in Nat : b \in Targets(edges) /\ b \notin ToSet(path) =>
           f[Append(path, b)] = g[Append(path, b)]
  PROVE  Tries(f, path, edges) = Tries(g, path, edges)
<1>. DEFINE nexts == Successors(edges, Last(path))
            T == {b \in Nat : Leads(edges, Last(path), b)}
<1>1. nexts \in Seq(T)
  BY SuccessorsLead
<1>2. \A k \in DOMAIN nexts : nexts[k] \in T
  <2>. HIDE DEF nexts, T
  <2>. QED
    BY <1>1
<1>3. \A k \in DOMAIN nexts : nexts[k] \in Nat /\ nexts[k] \in Targets(edges)
  BY <1>2, TargetsFinite
<1>. HIDE DEF nexts
<1>4. \A k \in DOMAIN nexts : nexts[k] \notin ToSet(path) =>
        f[Append(path, nexts[k])] = g[Append(path, nexts[k])]
  BY <1>3
<1>. QED
  BY <1>4 DEF Tries, nexts

LEMMA SearchesExists ==
  ASSUME NEW edges \in Seq(EdgeType)
  PROVE  \E f : Searches(f, edges)
<1>. DEFINE Answers(f, path) == f[path] = FirstHit(Tries(f, path, edges))
            Upto(f, n) == \A path \in Seq(Nat) : Open(path, edges) < n => Answers(f, path)
            X == {n \in Nat : \E f : Upto(f, n)}
<1>1. 0 \in X
  <2>1. Upto([path \in Seq(Nat) |-> <<>>], 0)
    BY OpenFalls
  <2>. HIDE DEF Upto
  <2>. QED
    BY <2>1
<1>2. ASSUME NEW n \in Nat, n \in X PROVE n + 1 \in X
  <2>1. PICK f : Upto(f, n)
    BY <1>2
  <2>. DEFINE g == [path \in Seq(Nat) |-> FirstHit(Tries(f, path, edges))]
  <2>2. ASSUME NEW path \in Seq(Nat), Open(path, edges) < n + 1 PROVE Answers(g, path)
    <3>1. ASSUME NEW b \in Nat, b \in Targets(edges), b \notin ToSet(path)
          PROVE  f[Append(path, b)] = g[Append(path, b)]
      <4>1. /\ Append(path, b) \in Seq(Nat)
            /\ Open(Append(path, b), edges) < Open(path, edges)
            /\ Open(path, edges) \in Nat
        BY <3>1, OpenFalls
      <4>2. Open(Append(path, b), edges) < n
        <5>1. Open(Append(path, b), edges) \in Nat
          BY <4>1, OpenFalls
        <5>. QED
          BY <2>2, <4>1, <5>1
      <4>3. Answers(f, Append(path, b))
        BY <2>1, <4>1, <4>2
      <4>. QED
        BY <4>1, <4>3
    <3>2. g[path] = FirstHit(Tries(f, path, edges))
      OBVIOUS
    <3>. HIDE DEF g
    <3>3. Tries(f, path, edges) = Tries(g, path, edges)
      BY <3>1, TriesSame
    <3>. QED
      BY <3>2, <3>3
  <2>. HIDE DEF g, Answers
  <2>3. Upto(g, n + 1)
    BY <2>2
  <2>. HIDE DEF Upto
  <2>. QED
    BY <2>3
<1>3. \A n \in Nat : n \in X
  <2>. HIDE DEF X
  <2>. QED
    BY <1>1, <1>2, NatSetInduction
<1>. DEFINE N == Cardinality(Targets(edges))
<1>4. N \in Nat /\ N + 1 \in Nat
  BY TargetsFinite, FS_CardinalityType
<1>5. PICK f : Upto(f, N + 1)
  <2>. HIDE DEF Upto, N
  <2>. QED
    BY <1>3, <1>4
<1>6. ASSUME NEW path \in Seq(Nat) PROVE Answers(f, path)
  <2>1. Open(path, edges) \in Nat /\ Open(path, edges) <= N
    BY OpenFalls
  <2>2. Open(path, edges) < N + 1
    <3>. HIDE DEF N
    <3>. QED
      BY <1>4, <2>1
  <2>. QED
    BY <1>5, <2>2
<1>. DEFINE g == [path \in Seq(Nat) |-> f[path]]
<1>7. ASSUME NEW path \in Seq(Nat) PROVE g[path] = FirstHit(Tries(g, path, edges))
  <2>1. ASSUME NEW b \in Nat, b \in Targets(edges), b \notin ToSet(path)
        PROVE  f[Append(path, b)] = g[Append(path, b)]
    <3>1. Append(path, b) \in Seq(Nat)
      BY <2>1, OpenFalls
    <3>. QED
      BY <3>1
  <2>2. g[path] = f[path]
    OBVIOUS
  <2>. HIDE DEF g
  <2>3. Tries(f, path, edges) = Tries(g, path, edges)
    BY <2>1, TriesSame
  <2>. QED
    BY <1>6, <2>2, <2>3
<1>8. g = [path \in Seq(Nat) |-> g[path]]
  OBVIOUS
<1>. HIDE DEF g
<1>9. g = [path \in Seq(Nat) |-> FirstHit(Tries(g, path, edges))]
  BY <1>7, <1>8
<1>. QED
  BY <1>9 DEF Searches

LEMMA WalkGrows ==
  ASSUME NEW edges, NEW path, Walk(path, edges), NEW b \in Nat, b \notin ToSet(path),
         Leads(edges, path[Len(path)], b)
  PROVE  Walk(Append(path, b), edges)
<1>. DEFINE n == Len(path)
            longer == Append(path, b)
<1>1. path \in Seq(Nat) /\ n \in Nat /\ n >= 1 /\ DOMAIN path = 1..n
  BY DEF Walk
<1>2. /\ longer \in Seq(Nat) /\ Len(longer) = n + 1
      /\ \A i \in 1..n : longer[i] = path[i]
      /\ longer[n + 1] = b
  BY <1>1
<1>3. /\ \A i, j \in 1..n : path[i] = path[j] => i = j
      /\ \A k \in 1..(n - 1) : Leads(edges, path[k], path[k + 1])
  BY DEF Walk
<1>4. \A i \in 1..n : path[i] # b
  BY <1>1 DEF ToSet
<1>. HIDE DEF n, longer
<1>5. ASSUME NEW i \in 1..(n + 1), NEW j \in 1..(n + 1), longer[i] = longer[j]
      PROVE  i = j
  <2>1. (i \in 1..n \/ i = n + 1) /\ (j \in 1..n \/ j = n + 1)
    BY <1>1
  <2>. QED
    BY <1>2, <1>3, <1>4, <1>5, <2>1
<1>6. ASSUME NEW k \in 1..n PROVE Leads(edges, longer[k], longer[k + 1])
  <2>1. CASE k = n
    BY <1>1, <1>2, <2>1 DEF n
  <2>2. CASE k # n
    <3>1. k \in 1..(n - 1) /\ k + 1 \in 1..n
      BY <1>1, <2>2
    <3>. QED
      BY <1>2, <1>3, <3>1
  <2>. QED
    BY <2>1, <2>2
<1>7. Len(longer) >= 1 /\ Len(longer) - 1 = n
  BY <1>1, <1>2
<1>8. Walk(longer, edges)
  BY <1>2, <1>5, <1>6, <1>7 DEF Walk
<1>. QED
  BY <1>8 DEF longer

LEMMA WalkCloses ==
  ASSUME NEW edges, NEW path, Walk(path, edges), NEW p \in 1..Len(path),
         Leads(edges, path[Len(path)], path[p])
  PROVE  Closed(SubSeq(path, p, Len(path)), edges)
<1>. DEFINE n == Len(path)
            c == SubSeq(path, p, n)
            m == n - p + 1
<1>1. path \in Seq(Nat) /\ n \in Nat /\ n >= 1 /\ p \in 1..n
  BY DEF Walk
<1>2. /\ \A i, j \in 1..n : path[i] = path[j] => i = j
      /\ \A k \in 1..(n - 1) : Leads(edges, path[k], path[k + 1])
  BY DEF Walk
<1>3. /\ c \in Seq(Nat) /\ Len(c) = m /\ m \in Nat /\ m >= 1
      /\ \A i \in 1..m : c[i] = path[p + i - 1]
  BY <1>1
<1>4. \A i \in 1..m : p + i - 1 \in 1..n
  BY <1>1
<1>5. p + m - 1 = n /\ p + 1 - 1 = p /\ 1 \in 1..m /\ m \in 1..m
  BY <1>1
<1>6. c[m] = path[n] /\ c[1] = path[p]
  BY <1>3, <1>5
<1>7. Leads(edges, path[n], path[p])
  OBVIOUS
<1>. HIDE DEF n, c
<1>8. ASSUME NEW i \in 1..m, NEW j \in 1..m, c[i] = c[j] PROVE i = j
  <2>1. p + i - 1 = p + j - 1
    BY <1>2, <1>3, <1>4, <1>8
  <2>. QED
    BY <1>1, <2>1
<1>9. ASSUME NEW k \in 1..(m - 1) PROVE Leads(edges, c[k], c[k + 1])
  <2>1. /\ k \in 1..m /\ k + 1 \in 1..m /\ p + k - 1 \in 1..(n - 1)
        /\ (p + k - 1) + 1 = p + (k + 1) - 1
    BY <1>1
  <2>2. c[k] = path[p + k - 1] /\ c[k + 1] = path[(p + k - 1) + 1]
    <3>1. c[k + 1] = path[p + (k + 1) - 1]
      BY <1>3, <2>1
    <3>. QED
      BY <1>3, <2>1, <3>1
  <2>. QED
    BY <1>2, <2>1, <2>2
<1>. HIDE DEF m
<1>10. Walk(c, edges)
  BY <1>3, <1>8, <1>9 DEF Walk
<1>11. Leads(edges, c[Len(c)], c[1])
  BY <1>3, <1>6, <1>7
<1>. QED
  BY <1>10, <1>11 DEF Closed, c, n

\* What the search returns is nothing or a cycle.
LEMMA CycleFound ==
  ASSUME NEW edges \in Seq(EdgeType), NEW start \in Nat
  PROVE  FindCycleFrom(start, edges) = <<>> \/ Closed(FindCycleFrom(start, edges), edges)
<1>. DEFINE f == CHOOSE f : Searches(f, edges)
<1>1. Searches(f, edges)
  BY SearchesExists
<1>2. FindCycleFrom(start, edges) = f[<<start>>]
  BY FindCycleIs
<1>. HIDE DEF f
<1>3. \A path \in Seq(Nat) : f[path] = FirstHit(Tries(f, path, edges))
  BY <1>1 DEF Searches
<1>. DEFINE Right(path) == f[path] = <<>> \/ Closed(f[path], edges)
            X == {n \in Nat : \A path : Walk(path, edges) /\ Open(path, edges) < n
                                          => Right(path)}
<1>4. 0 \in X
  BY OpenFalls DEF Walk
<1>5. ASSUME NEW n \in Nat, n \in X PROVE n + 1 \in X
  <2>. SUFFICES ASSUME NEW path, Walk(path, edges), Open(path, edges) < n + 1
       PROVE  Right(path)
    OBVIOUS
  <2>1. path \in Seq(Nat) /\ Len(path) >= 1 /\ Last(path) = path[Len(path)]
    BY DEF Walk, Last
  <2>2. PICK m \in Nat :
          /\ DOMAIN Tries(f, path, edges) = 1..m /\ Len(Tries(f, path, edges)) = m
          /\ \A k \in 1..m : \E b \in Nat :
               /\ Leads(edges, Last(path), b)
               /\ Tries(f, path, edges)[k] =
                    IF b \in ToSet(path)
                    THEN SubSeq(path, PlaceOf(path, b), Len(path))
                    ELSE f[Append(path, b)]
    BY TriesIs
  <2>3. CASE f[path] = <<>>
    BY <2>3
  <2>4. CASE f[path] # <<>>
    <3>1. PICK k \in 1..m : f[path] = Tries(f, path, edges)[k]
      BY <1>3, <2>1, <2>2, <2>4, FirstHitIs
    <3>2. PICK b \in Nat :
            /\ Leads(edges, Last(path), b)
            /\ f[path] = IF b \in ToSet(path)
                         THEN SubSeq(path, PlaceOf(path, b), Len(path))
                         ELSE f[Append(path, b)]
      BY <2>2, <3>1
    <3>3. CASE b \in ToSet(path)
      <4>1. PlaceOf(path, b) \in 1..Len(path) /\ path[PlaceOf(path, b)] = b
        BY <2>1, <3>3, PlaceIs
      <4>2. Closed(SubSeq(path, PlaceOf(path, b), Len(path)), edges)
        BY <2>1, <3>2, <4>1, WalkCloses
      <4>. QED
        BY <3>2, <3>3, <4>2
    <3>4. CASE b \notin ToSet(path)
      <4>1. Walk(Append(path, b), edges)
        BY <2>1, <3>2, <3>4, WalkGrows
      <4>2. Open(Append(path, b), edges) < n
        <5>1. b \in Targets(edges)
          BY <3>2, TargetsFinite
        <5>2. /\ Open(Append(path, b), edges) < Open(path, edges)
              /\ Open(path, edges) \in Nat
              /\ Append(path, b) \in Seq(Nat)
          BY <2>1, <3>4, <5>1, OpenFalls
        <5>3. Open(Append(path, b), edges) \in Nat
          BY <5>2, OpenFalls
        <5>. QED
          BY <5>2, <5>3
      <4>3. Right(Append(path, b))
        BY <1>5, <4>1, <4>2
      <4>. QED
        BY <3>2, <3>4, <4>3
    <3>. QED
      BY <3>3, <3>4
  <2>. QED
    BY <2>3, <2>4
<1>6. \A n \in Nat : n \in X
  <2>. HIDE DEF X
  <2>. QED
    BY <1>4, <1>5, NatSetInduction
<1>7. Walk(<<start>>, edges)
  BY DEF Walk
<1>8. Right(<<start>>)
  <2>. DEFINE N == Open(<<start>>, edges)
  <2>0. <<start>> \in Seq(Nat)
    OBVIOUS
  <2>1. N \in Nat
    BY <2>0, OpenFalls
  <2>. HIDE DEF N
  <2>2. N + 1 \in Nat /\ N < N + 1
    BY <2>1
  <2>. HIDE DEF Right
  <2>3. \A path : Walk(path, edges) /\ Open(path, edges) < N + 1 => Right(path)
    BY <1>6, <2>2
  <2>. QED
    BY <1>7, <2>2, <2>3 DEF N
<1>. QED
  BY <1>2, <1>8

\* Going round a cycle of n goroutines.
NextOf(k, n) == IF k = n THEN 1 ELSE k + 1

LEMMA ModIs ==
  ASSUME NEW n \in Nat, n >= 1, NEW m \in 0..(2 * n - 1)
  PROVE  m % n = IF m < n THEN m ELSE m - n
<1>1. CASE m < n
  BY <1>1
<1>2. CASE m >= n
  <2>1. m - n \in 0..(n - 1)
    BY <1>2
  <2>. QED
    BY <1>2, <2>1
<1>. QED
  BY <1>1, <1>2

LEMMA ClosedIs ==
  ASSUME NEW edges, NEW c
  PROVE  Closed(c, edges)
           <=> /\ c \in Seq(Nat) /\ Len(c) >= 1
               /\ \A i, j \in 1..Len(c) : c[i] = c[j] => i = j
               /\ \A k \in 1..Len(c) : Leads(edges, c[k], c[NextOf(k, Len(c))])
<1>1. ASSUME c \in Seq(Nat), Len(c) >= 1
      PROVE  /\ \A k \in 1..(Len(c) - 1) : Leads(edges, c[k], c[k + 1])
             /\ Leads(edges, c[Len(c)], c[1])
             <=> \A k \in 1..Len(c) : Leads(edges, c[k], c[NextOf(k, Len(c))])
  <2>. DEFINE n == Len(c)
  <2>1. n \in Nat /\ n >= 1
    BY <1>1
  <2>. HIDE DEF n
  <2>2. /\ \A k \in 1..n : k = n \/ k \in 1..(n - 1)
        /\ n \in 1..n /\ NextOf(n, n) = 1
        /\ \A k \in 1..(n - 1) : k \in 1..n /\ NextOf(k, n) = k + 1
    BY <2>1 DEF NextOf
  <2>3. /\ \A k \in 1..(n - 1) : Leads(edges, c[k], c[k + 1])
        /\ Leads(edges, c[n], c[1])
        <=> \A k \in 1..n : Leads(edges, c[k], c[NextOf(k, n)])
    BY <2>2
  <2>. QED
    BY <2>3 DEF n
<1>. QED
  BY <1>1 DEF Closed, Walk

\* Reading a cycle from another of its goroutines gives the same cycle.
LEMMA KeyCloses ==
  ASSUME NEW edges, NEW c, Closed(c, edges)
  PROVE  /\ Closed(CycleKey(c), edges) /\ Len(CycleKey(c)) = Len(c)
         /\ ToSet(CycleKey(c)) \subseteq ToSet(c)
<1>. DEFINE n == Len(c)
            IsFirst(k) == \A j \in DOMAIN c : c[k] <= c[j]
            first == CHOOSE k \in DOMAIN c : IsFirst(k)
            at(k) == 1 + ((first + k - 2) % n)
            place(k) == IF first + k - 1 <= n THEN first + k - 1 ELSE first + k - 1 - n
            key == [k \in 1..n |-> c[place(k)]]
<1>1. /\ c \in Seq(Nat) /\ n \in Nat /\ n >= 1 /\ DOMAIN c = 1..n
      /\ \A i \in 1..n : c[i] \in Nat
  BY ClosedIs
<1>2. /\ \A i, j \in 1..n : c[i] = c[j] => i = j
      /\ \A k \in 1..n : Leads(edges, c[k], c[NextOf(k, n)])
  BY ClosedIs
<1>3. first \in 1..n
  <2>. DEFINE V == {c[k] : k \in 1..n}
  <2>1. V \subseteq Nat /\ V # {}
    <3>1. V \subseteq Nat
      BY <1>1
    <3>2. 1 \in 1..n
      BY <1>1
    <3>. QED
      BY <3>1, <3>2
  <2>2. Min(V) \in V /\ \A y \in V : Min(V) <= y
    <3>. HIDE DEF V
    <3>. QED
      BY <2>1, MinIn
  <2>3. PICK k \in 1..n : c[k] = Min(V)
    BY <2>2
  <2>4. \A j \in 1..n : c[k] <= c[j]
    BY <2>2, <2>3
  <2>5. \E i \in DOMAIN c : IsFirst(i)
    BY <1>1, <2>4
  <2>. HIDE DEF IsFirst
  <2>. QED
    BY <1>1, <2>5
<1>4. CycleKey(c) = [k \in DOMAIN c |-> c[at(k)]]
  BY DEF CycleKey
<1>. HIDE DEF first, n
<1>5. \A k \in 1..n : at(k) = place(k) /\ place(k) \in 1..n
  <2>1. ASSUME NEW k \in 1..n PROVE at(k) = place(k) /\ place(k) \in 1..n
    <3>. DEFINE m == first + k - 2
    <3>1. m \in 0..(2 * n - 1)
      BY <1>1, <1>3
    <3>2. m % n = IF m < n THEN m ELSE m - n
      <4>. HIDE DEF m
      <4>. QED
        BY <1>1, <3>1, ModIs
    <3>3. at(k) = 1 + (m % n)
      OBVIOUS
    <3>4. place(k) = 1 + (IF m < n THEN m ELSE m - n)
      BY <1>1, <1>3
    <3>5. place(k) \in 1..n
      BY <1>1, <1>3
    <3>. HIDE DEF m, at, place
    <3>. QED
      BY <3>2, <3>3, <3>4, <3>5
  <2>. QED
    BY <2>1
<1>6. CycleKey(c) = key
  <2>. HIDE DEF at, place
  <2>. QED
    BY <1>1, <1>4, <1>5
<1>7. \A i, j \in 1..n : place(i) = place(j) => i = j
  BY <1>1, <1>3
<1>8. \A k \in 1..n : NextOf(k, n) \in 1..n /\ place(NextOf(k, n)) = NextOf(place(k), n)
  BY <1>1, <1>3 DEF NextOf
<1>9. \A k \in 1..n : place(k) \in 1..n /\ key[k] = c[place(k)]
  BY <1>5
<1>10. key \in [1..n -> Nat]
  <2>. HIDE DEF place
  <2>. QED
    BY <1>1, <1>9
<1>. HIDE DEF place, key
<1>11. key \in Seq(Nat) /\ Len(key) = n
  BY <1>1, <1>10
<1>12. \A i, j \in 1..n : key[i] = key[j] => i = j
  BY <1>2, <1>7, <1>9
<1>13. ASSUME NEW k \in 1..n PROVE Leads(edges, key[k], key[NextOf(k, n)])
  <2>1. place(k) \in 1..n /\ key[k] = c[place(k)]
    BY <1>9
  <2>2. key[NextOf(k, n)] = c[NextOf(place(k), n)]
    BY <1>8, <1>9
  <2>. QED
    BY <1>2, <2>1, <2>2
<1>14. Closed(key, edges)
  BY <1>1, <1>11, <1>12, <1>13, ClosedIs
<1>15. ToSet(key) \subseteq ToSet(c)
  <2>1. DOMAIN key = 1..n
    BY <1>11
  <2>. QED
    BY <1>1, <1>9, <2>1 DEF ToSet
<1>. QED
  BY <1>6, <1>11, <1>14, <1>15 DEF n

\* Every hint is a cycle of blocked goroutines, each waiting for the next.
LEMMA HintsAreCycles ==
  ASSUME NEW edges \in Seq(EdgeType), NEW gs, NEW h \in FindDeadlockHints(edges, gs)
  PROVE  /\ Closed(h.cycle, edges) /\ Len(h.cycle) >= 2
         /\ AllBlocked(h.cycle, gs)
         /\ h.chain = BuildBlameChain(h.cycle, edges, gs)
<1>1. PICK c \in CyclesFound(edges) :
        /\ AllBlocked(c, gs)
        /\ h = [cycle |-> c, resources |-> ResourcesInCycle(c, edges),
                chain |-> BuildBlameChain(c, edges, gs)]
  BY Zenon DEF FindDeadlockHints
<1>2. PICK i \in Sources(edges) :
        /\ Len(FindCycleFrom(i, edges)) >= 2
        /\ c = CycleKey(FindCycleFrom(i, edges))
  BY Zenon DEF CyclesFound
<1>3. i \in Nat
  <2>1. PICK e \in ToSet(edges) : i = e.from
    BY DEF Sources
  <2>2. e \in EdgeType
    BY <2>1 DEF ToSet
  <2>. QED
    BY <2>1, <2>2 DEF EdgeType
<1>. DEFINE d == FindCycleFrom(i, edges)
<1>4. d = <<>> \/ Closed(d, edges)
  BY <1>3, CycleFound
<1>. HIDE DEF d
<1>5. Closed(d, edges)
  BY <1>2, <1>4 DEF d
<1>6. Closed(c, edges) /\ Len(c) >= 2
  BY <1>2, <1>5, KeyCloses DEF d
<1>. QED
  BY <1>1, <1>6

LEMMA CheckAnswered ==
  ASSUME NEW gs \in Snapshots, NEW graph \in Graphs, Check(gs, graph)
  PROVE  HintsAreDeadlocks'
<1>1. PICK order \in ResourceOrders(gs) :
        LET edges == EdgesFor(gs, graph, order)
            hints == FindDeadlockHints(edges, gs)
        IN  \E github, wfg, failed :
              job' = [kind |-> "check", gs |-> gs, graph |-> graph, edges |-> edges,
                      hints |-> hints,
                      sarif |-> WriteSARIF(BuildDeadlockReport(hints, gs)),
                      github |-> github, wfg |-> wfg, failed |-> failed]
  BY Zenon DEF Check
<1>. DEFINE edges == EdgesFor(gs, graph, order)
            hints == FindDeadlockHints(edges, gs)
            sarif == WriteSARIF(BuildDeadlockReport(hints, gs))
<1>2. edges \in Seq(EdgeType)
  BY InputAssumption, EdgesType
<1>3. /\ job'.gs = gs /\ job'.edges = edges /\ job'.hints = hints
      /\ job'.sarif = sarif
  <2>. HIDE DEF edges, hints, sarif
  <2>1. PICK github, wfg, failed :
          job' = [kind |-> "check", gs |-> gs, graph |-> graph, edges |-> edges,
                  hints |-> hints, sarif |-> sarif,
                  github |-> github, wfg |-> wfg, failed |-> failed]
    BY <1>1, Zenon DEF edges, hints, sarif
  <2>. QED
    BY <2>1
<1>. HIDE DEF edges
<1>4. ASSUME NEW h \in hints
      PROVE  /\ Len(h.cycle) >= 2 /\ IsInjective(h.cycle)
             /\ \A k \in DOMAIN h.cycle :
                  /\ h.cycle[k] \in DOMAIN gs /\ IsBlockedState(gs[h.cycle[k]].state)
                  /\ \E e \in ToSet(edges) :
                       e.from = h.cycle[k] /\ e.to = h.chain[k].waitsFor
             /\ \E at \in sarif : at.cycle = h.cycle
  <2>. DEFINE c == h.cycle
              n == Len(c)
  <2>1. /\ Closed(c, edges) /\ n >= 2 /\ AllBlocked(c, gs)
        /\ h.chain = BuildBlameChain(c, edges, gs)
    BY <1>2, <1>4, HintsAreCycles
  <2>2. /\ c \in Seq(Nat) /\ n \in Nat /\ DOMAIN c = 1..n
        /\ \A i, j \in 1..n : c[i] = c[j] => i = j
        /\ \A k \in 1..n : Leads(edges, c[k], c[NextOf(k, n)])
    BY <2>1, ClosedIs
  <2>3. IsInjective(c)
    BY <2>2 DEF IsInjective
  <2>4. ASSUME NEW k \in 1..n PROVE c[k] \in DOMAIN gs /\ IsBlockedState(gs[c[k]].state)
    <3>1. c[k] \in ToSet(c)
      BY <2>2 DEF ToSet
    <3>. QED
      BY <2>1, <3>1 DEF AllBlocked
  <2>5. ASSUME NEW k \in 1..n
        PROVE  \E e \in ToSet(edges) : e.from = c[k] /\ e.to = h.chain[k].waitsFor
    <3>1. h.chain[k].waitsFor = c[1 + (k % n)]
      <4>1. h.chain[k].waitsFor = BuildBlameChain(c, edges, gs)[k].waitsFor
        BY <2>1, Zenon
      <4>2. BuildBlameChain(c, edges, gs)[k].waitsFor = c[1 + (k % Len(c))]
        BY <2>2, <2>5 DEF BuildBlameChain
      <4>. QED
        BY <4>1, <4>2
    <3>2. k % n = IF k < n THEN k ELSE k - n
      <4>. HIDE DEF n
      <4>1. k \in 0..(2 * n - 1) /\ n >= 1
        BY <2>1, <2>2
      <4>. QED
        BY <2>2, <4>1, ModIs
    <3>3. 1 + (k % n) = NextOf(k, n)
      <4>. HIDE DEF n
      <4>. QED
        BY <2>2, <3>2 DEF NextOf
    <3>. QED
      BY <2>2, <3>1, <3>3 DEF Leads
  <2>6. \E at \in sarif : at.cycle = c
    <3>. HIDE DEF hints
    <3>1. PICK resources, chain, rows :
            [cycle |-> c, resources |-> resources, chain |-> chain, rows |-> rows]
              \in BuildDeadlockReport(hints, gs)
      BY <1>4, Zenon DEF BuildDeadlockReport
    <3>. DEFINE r == [cycle |-> c, resources |-> resources, chain |-> chain,
                      rows |-> rows]
    <3>2. r \in BuildDeadlockReport(hints, gs) /\ r.cycle = c
      BY <3>1
    <3>. HIDE DEF r
    <3>3. PICK place : [cycle |-> r.cycle, at |-> place] \in sarif
      BY <3>2, Zenon DEF WriteSARIF
    <3>4. [cycle |-> r.cycle, at |-> place].cycle = c
      BY <3>2
    <3>. HIDE DEF sarif
    <3>. QED
      BY <3>3, <3>4
  <2>. HIDE DEF hints, sarif
  <2>. QED
    BY <2>1, <2>2, <2>3, <2>4, <2>5, <2>6
<1>. QED
  BY <1>3, <1>4 DEF HintsAreDeadlocks, Is

\* However long the list and the edges, in whatever order the resources come: no
\* hint is made up by the search, by its reduction of rotations or by the two
\* acquisitions, and the report names each one.
THEOREM HintsAreReal == Spec => []HintsAreDeadlocks
<1>1. Init => HintsAreDeadlocks
  BY DEF Init, Idle, HintsAreDeadlocks, Is
<1>2. HintsAreDeadlocks /\ [Next]_vars => HintsAreDeadlocks'
  <2>. SUFFICES ASSUME HintsAreDeadlocks, Requests PROVE HintsAreDeadlocks'
    BY NextAnswers
  <2>1. ASSUME NEW gs \in Snapshots, NEW graph \in Graphs, Check(gs, graph)
        PROVE  HintsAreDeadlocks'
    BY <2>1, CheckAnswered
  <2>2. CASE job'.kind # "check"
    BY <2>2 DEF HintsAreDeadlocks, Is
  <2>3. CASE job' = job
    BY <2>3 DEF HintsAreDeadlocks, Is
  <2>. QED
    BY <2>1, <2>2, <2>3, KindOf DEF Requests
<1>. QED
  BY <1>1, <1>2, PTL DEF Spec

-----------------------------------------------------------------------------
(* Every group of contenders is found *)

\* Goroutines that wait for each other, over one resource, and for nobody else.
Ring(edges, C, r) ==
  /\ C \subseteq Nat \ {0}
  /\ \A e \in ToSet(edges) :
       e.from \in C => e.to \in C /\ e.to # e.from /\ e.resource = r
  /\ \A a \in C : \E b \in C : Leads(edges, a, b)

LEMMA SuccessorsAll ==
  ASSUME NEW edges \in Seq(EdgeType), NEW a, NEW b, Leads(edges, a, b), b # 0
  PROVE  b \in ToSet(Successors(edges, a))
<1>. DEFINE n == Len(edges)
            row(k) == IF edges[k].from = a /\ edges[k].to # 0 THEN <<edges[k].to>> ELSE <<>>
            rows == [k \in 1..n |-> row(k)]
<1>1. /\ n \in Nat /\ DOMAIN edges = 1..n
      /\ \A k \in 1..n : edges[k].to \in Nat
  <2>1. \A k \in 1..n : edges[k] \in EdgeType
    OBVIOUS
  <2>. QED
    BY <2>1 DEF EdgeType
<1>2. \A k \in 1..n : row(k) \in Seq(Nat)
  BY <1>1
<1>3. PICK k \in 1..n : edges[k].from = a /\ edges[k].to = b
  BY <1>1 DEF Leads, ToSet
<1>4. row(k) = <<b>>
  BY <1>3
<1>. HIDE DEF row
<1>5. rows \in [1..n -> Seq(Nat)]
  BY <1>2
<1>6. rows \in Seq(Seq(Nat)) /\ Len(rows) = n
  <2>. HIDE DEF rows, n
  <2>. QED
    BY <1>1, <1>5
<1>7. Successors(edges, a) = FlattenSeq(rows)
  BY <1>1 DEF Successors, row
<1>8. b \in ToSet(rows[k])
  BY <1>4 DEF ToSet
<1>. HIDE DEF rows
<1>9. b \in ElementsOf(rows)
  BY <1>6, <1>8 DEF ElementsOf
<1>. QED
  BY <1>6, <1>7, <1>9, FlattenedSet

LEMMA FirstHitFound ==
  ASSUME NEW tries, NEW n \in Nat, DOMAIN tries = 1..n, Len(tries) = n,
         NEW k \in 1..n, tries[k] # <<>>
  PROVE  \E j \in 1..n : FirstHit(tries) = tries[j] /\ tries[j] # <<>>
<1>. DEFINE I == {i \in 1..n : tries[i] # <<>>}
            hit == SelectInSeq(tries, LAMBDA c : c # <<>>)
<1>1. hit = IF I # {} THEN Min(I) ELSE 0
  BY DEF SelectInSeq
<1>2. I # {}
  OBVIOUS
<1>3. Min(I) \in I
  <2>1. I \subseteq Nat
    OBVIOUS
  <2>. HIDE DEF I
  <2>. QED
    BY <1>2, <2>1, MinIn
<1>4. hit \in 1..n /\ tries[hit] # <<>> /\ hit # 0
  BY <1>1, <1>2, <1>3
<1>5. FirstHit(tries) = IF hit = 0 THEN <<>> ELSE tries[hit]
  BY DEF FirstHit
<1>. HIDE DEF hit
<1>. QED
  BY <1>4, <1>5

\* A search that starts in a ring ends, with a cycle of the ring.
LEMMA SearchStays ==
  ASSUME NEW edges \in Seq(EdgeType), NEW C, NEW r, Ring(edges, C, r), NEW start \in C
  PROVE  LET c == FindCycleFrom(start, edges)
         IN  Closed(c, edges) /\ Len(c) >= 2 /\ ToSet(c) \subseteq C
<1>. DEFINE f == CHOOSE f : Searches(f, edges)
<1>1. Searches(f, edges)
  BY SearchesExists
<1>2. FindCycleFrom(start, edges) = f[<<start>>]
  BY FindCycleIs
<1>. HIDE DEF f
<1>3. \A path \in Seq(Nat) : f[path] = FirstHit(Tries(f, path, edges))
  BY <1>1 DEF Searches
<1>. DEFINE Stays(c) == c # <<>> /\ ToSet(c) \subseteq C
            Inside(path) == Walk(path, edges) /\ ToSet(path) \subseteq C
            X == {n \in Nat : \A path : Inside(path) /\ Open(path, edges) < n
                                          => Stays(f[path])}
<1>4. 0 \in X
  BY OpenFalls DEF Walk
<1>5. ASSUME NEW n \in Nat, n \in X PROVE n + 1 \in X
  <2>. SUFFICES ASSUME NEW path, Inside(path), Open(path, edges) < n + 1
       PROVE  Stays(f[path])
    OBVIOUS
  <2>1. /\ path \in Seq(Nat) /\ Len(path) \in Nat /\ Len(path) >= 1
        /\ DOMAIN path = 1..Len(path) /\ Last(path) = path[Len(path)]
        /\ Walk(path, edges)
    BY DEF Walk, Last
  <2>2. Last(path) \in C
    <3>1. Len(path) \in 1..Len(path)
      BY <2>1
    <3>. QED
      BY <2>1, <3>1 DEF ToSet
  <2>3. PICK m \in Nat :
          /\ DOMAIN Tries(f, path, edges) = 1..m /\ Len(Tries(f, path, edges)) = m
          /\ \A k \in 1..m : \E b \in Nat :
               /\ Leads(edges, Last(path), b)
               /\ Tries(f, path, edges)[k] =
                    IF b \in ToSet(path)
                    THEN SubSeq(path, PlaceOf(path, b), Len(path))
                    ELSE f[Append(path, b)]
    BY TriesIs
  <2>4. 1..m # {}
    <3>1. PICK b \in C : Leads(edges, Last(path), b)
      BY <2>2 DEF Ring
    <3>2. b \in ToSet(Successors(edges, Last(path)))
      BY <3>1, SuccessorsAll DEF Ring
    <3>3. DOMAIN Tries(f, path, edges) = DOMAIN Successors(edges, Last(path))
      BY DEF Tries
    <3>. QED
      BY <2>3, <3>2, <3>3 DEF ToSet
  <2>5. ASSUME NEW k \in 1..m PROVE Stays(Tries(f, path, edges)[k])
    <3>1. PICK b \in Nat :
            /\ Leads(edges, Last(path), b)
            /\ Tries(f, path, edges)[k] =
                 IF b \in ToSet(path)
                 THEN SubSeq(path, PlaceOf(path, b), Len(path))
                 ELSE f[Append(path, b)]
      BY <2>3, <2>5
    <3>2. b \in C
      BY <2>2, <3>1 DEF Ring, Leads
    <3>3. CASE b \in ToSet(path)
      <4>. DEFINE p == PlaceOf(path, b)
                  c == SubSeq(path, p, Len(path))
      <4>1. p \in 1..Len(path)
        BY <2>1, <3>3, PlaceIs
      <4>. HIDE DEF p
      <4>2. /\ Len(c) = Len(path) - p + 1 /\ DOMAIN c = 1..(Len(path) - p + 1)
            /\ \A i \in 1..(Len(path) - p + 1) : c[i] = path[p + i - 1]
        BY <2>1, <4>1
      <4>3. \A i \in 1..(Len(path) - p + 1) : p + i - 1 \in 1..Len(path)
        BY <2>1, <4>1
      <4>4. Len(c) # 0 /\ ToSet(c) \subseteq ToSet(path)
        BY <2>1, <4>1, <4>2, <4>3 DEF ToSet
      <4>5. c # <<>>
        <5>. HIDE DEF c
        <5>. QED
          BY <4>4
      <4>. QED
        BY <3>1, <3>3, <4>4, <4>5 DEF p
    <3>4. CASE b \notin ToSet(path)
      <4>1. Walk(Append(path, b), edges)
        BY <2>1, <3>1, <3>4, WalkGrows
      <4>2. ToSet(Append(path, b)) \subseteq C
        <5>1. /\ DOMAIN Append(path, b) = 1..(Len(path) + 1)
              /\ \A i \in 1..Len(path) : Append(path, b)[i] = path[i]
              /\ Append(path, b)[Len(path) + 1] = b
          BY <2>1
        <5>2. ToSet(Append(path, b)) = ToSet(path) \cup {b}
          <6>1. 1..(Len(path) + 1) = 1..Len(path) \cup {Len(path) + 1}
            BY <2>1
          <6>. QED
            BY <2>1, <5>1, <6>1 DEF ToSet
        <5>. QED
          BY <3>2, <5>2
      <4>3. Open(Append(path, b), edges) < n
        <5>1. b \in Targets(edges)
          BY <3>1, TargetsFinite
        <5>2. /\ Open(Append(path, b), edges) < Open(path, edges)
              /\ Open(path, edges) \in Nat
              /\ Append(path, b) \in Seq(Nat)
          BY <2>1, <3>4, <5>1, OpenFalls
        <5>3. Open(Append(path, b), edges) \in Nat
          BY <5>2, OpenFalls
        <5>. QED
          BY <5>2, <5>3
      <4>4. Stays(f[Append(path, b)])
        BY <1>5, <4>1, <4>2, <4>3
      <4>. QED
        BY <3>1, <3>4, <4>4
    <3>. QED
      BY <3>3, <3>4
  <2>6. PICK k \in 1..m : f[path] = Tries(f, path, edges)[k]
    <3>1. PICK k \in 1..m : TRUE
      BY <2>4
    <3>2. Tries(f, path, edges)[k] # <<>>
      BY <2>5
    <3>3. \E j \in 1..m : FirstHit(Tries(f, path, edges)) = Tries(f, path, edges)[j]
      BY <2>3, <3>2, FirstHitFound
    <3>. QED
      BY <1>3, <2>1, <3>3
  <2>. QED
    BY <2>5, <2>6
<1>6. \A n \in Nat : n \in X
  <2>. HIDE DEF X
  <2>. QED
    BY <1>4, <1>5, NatSetInduction
<1>7. start \in Nat /\ start # 0
  BY DEF Ring
<1>8. Inside(<<start>>)
  <2>1. ToSet(<<start>>) = {start}
    BY DEF ToSet
  <2>2. Walk(<<start>>, edges)
    BY <1>7 DEF Walk
  <2>. QED
    BY <2>1, <2>2
<1>9. Stays(f[<<start>>])
  <2>. DEFINE N == Open(<<start>>, edges)
  <2>0. <<start>> \in Seq(Nat)
    BY <1>7
  <2>1. N \in Nat
    BY <2>0, OpenFalls
  <2>. HIDE DEF N
  <2>2. N + 1 \in Nat /\ N < N + 1
    BY <2>1
  <2>. HIDE DEF Stays, Inside
  <2>3. \A path : Inside(path) /\ Open(path, edges) < N + 1 => Stays(f[path])
    BY <1>6, <2>2
  <2>. QED
    BY <1>8, <2>2, <2>3 DEF N
<1>. DEFINE c == FindCycleFrom(start, edges)
<1>10. Closed(c, edges) /\ ToSet(c) \subseteq C
  BY <1>2, <1>7, <1>9, CycleFound
<1>. HIDE DEF c
<1>11. Len(c) >= 2
  <2>1. /\ c \in Seq(Nat) /\ Len(c) \in Nat /\ Len(c) >= 1 /\ DOMAIN c = 1..Len(c)
        /\ Leads(edges, c[Len(c)], c[1])
    BY <1>10 DEF Closed, Walk
  <2>2. c[1] \in C
    <3>1. 1 \in 1..Len(c)
      BY <2>1
    <3>. QED
      BY <1>10, <2>1, <3>1 DEF ToSet
  <2>3. ~ Leads(edges, c[1], c[1])
    BY <2>2 DEF Ring, Leads
  <2>4. Len(c) # 1
    BY <2>1, <2>3
  <2>. QED
    BY <2>1, <2>4
<1>. QED
  BY <1>10, <1>11 DEF c

\* So every ring has its cycle among those found.
LEMMA RingFound ==
  ASSUME NEW edges \in Seq(EdgeType), NEW C, NEW r, Ring(edges, C, r), C # {}
  PROVE  \E c \in CyclesFound(edges) :
           Closed(c, edges) /\ Len(c) >= 2 /\ ToSet(c) \subseteq C
<1>1. PICK start \in C : TRUE
  OBVIOUS
<1>. DEFINE d == FindCycleFrom(start, edges)
<1>2. Closed(d, edges) /\ Len(d) >= 2 /\ ToSet(d) \subseteq C
  BY SearchStays
<1>3. start \in Sources(edges)
  <2>1. PICK b \in C : Leads(edges, start, b)
    BY DEF Ring
  <2>2. b # 0
    BY DEF Ring
  <2>. QED
    BY <2>1, <2>2 DEF Leads, Sources
<1>4. CycleKey(d) \in CyclesFound(edges)
  <2>. DEFINE found == {FindCycleFrom(i, edges) : i \in Sources(edges)}
  <2>1. d \in found
    BY <1>3
  <2>2. CyclesFound(edges) = {CycleKey(c) : c \in {x \in found : Len(x) >= 2}}
    BY DEF CyclesFound
  <2>. HIDE DEF found, d
  <2>. QED
    BY <1>2, <2>1, <2>2
<1>5. /\ Closed(CycleKey(d), edges) /\ Len(CycleKey(d)) = Len(d)
      /\ ToSet(CycleKey(d)) \subseteq ToSet(d)
  <2>. HIDE DEF d
  <2>. QED
    BY <1>2, KeyCloses
<1>. HIDE DEF d
<1>. QED
  BY <1>2, <1>4, <1>5

\* Edges between different contenders for the resource they name.
Proper(edges, gs) ==
  \A e \in ToSet(edges) :
    /\ e.resource # NoResource /\ e.from # e.to
    /\ {e.from, e.to} \subseteq Contenders(gs, e.resource)

LEMMA FlattenedIn ==
  ASSUME NEW T, NEW n \in Nat, NEW rows, rows = [k \in 1..n |-> rows[k]],
         \A k \in 1..n : rows[k] \in Seq(T)
  PROVE  /\ FlattenSeq(rows) \in Seq(T)
         /\ \A x : x \in ToSet(FlattenSeq(rows)) <=> \E k \in 1..n : x \in ToSet(rows[k])
<1>1. rows \in [1..n -> Seq(T)]
  OBVIOUS
<1>2. rows \in Seq(Seq(T)) /\ Len(rows) = n
  BY <1>1
<1>3. FlattenSeq(rows) \in Seq(T) /\ ToSet(FlattenSeq(rows)) = ElementsOf(rows)
  BY <1>2, FlattenSeqType, FlattenedSet
<1>4. ElementsOf(rows) = UNION {ToSet(rows[k]) : k \in 1..n}
  BY <1>2 DEF ElementsOf
<1>. QED
  BY <1>3, <1>4

\* The edges of one group join every two of its members.
LEMMA PairEdgesSet ==
  ASSUME NEW ids \in Seq(Nat), NEW r \in Nat, NEW e
  PROVE  e \in ToSet(PairEdges(ids, r))
           <=> \E i, j \in 1..Len(ids) : i # j /\ e = Edge(ids[i], ids[j], r)
<1>. DEFINE n == Len(ids)
            Both(i, j) == IF i < j
                          THEN <<Edge(ids[i], ids[j], r), Edge(ids[j], ids[i], r)>>
                          ELSE <<>>
            row(i) == [j \in 1..n |-> Both(i, j)]
            rows == [i \in 1..n |-> FlattenSeq(row(i))]
<1>1. n \in Nat /\ DOMAIN ids = 1..n /\ \A i \in 1..n : ids[i] \in Nat
  OBVIOUS
<1>2. ASSUME NEW i \in 1..n, NEW j \in 1..n
      PROVE  /\ Both(i, j) \in Seq(EdgeType)
             /\ \A x : x \in ToSet(Both(i, j)) <=>
                  i < j /\ (x = Edge(ids[i], ids[j], r) \/ x = Edge(ids[j], ids[i], r))
  <2>. DEFINE a == Edge(ids[i], ids[j], r)
              b == Edge(ids[j], ids[i], r)
  <2>1. a \in EdgeType /\ b \in EdgeType
    BY <1>1 DEF Edge, EdgeType
  <2>. HIDE DEF a, b
  <2>2. /\ <<a, b>> \in Seq(EdgeType) /\ <<>> \in Seq(EdgeType)
        /\ ToSet(<<a, b>>) = {a, b} /\ ToSet(<<>>) = {}
    BY <2>1 DEF ToSet
  <2>3. Both(i, j) = IF i < j THEN <<a, b>> ELSE <<>>
    BY DEF a, b
  <2>. HIDE DEF Both
  <2>4. /\ Both(i, j) \in Seq(EdgeType)
        /\ \A x : x \in ToSet(Both(i, j)) <=> i < j /\ (x = a \/ x = b)
    BY <2>2, <2>3
  <2>. QED
    BY <2>4 DEF a, b
<1>. HIDE DEF Both
<1>3. ASSUME NEW i \in 1..n
      PROVE  /\ FlattenSeq(row(i)) \in Seq(EdgeType)
             /\ \A x : x \in ToSet(FlattenSeq(row(i)))
                         <=> \E j \in 1..n : x \in ToSet(Both(i, j))
  <2>. DEFINE q == row(i)
  <2>1. q = [j \in 1..n |-> q[j]] /\ \A j \in 1..n : q[j] = Both(i, j)
    OBVIOUS
  <2>2. \A j \in 1..n : q[j] \in Seq(EdgeType)
    BY <1>2
  <2>. HIDE DEF q, n
  <2>3. /\ FlattenSeq(q) \in Seq(EdgeType)
        /\ \A x : x \in ToSet(FlattenSeq(q)) <=> \E j \in 1..n : x \in ToSet(q[j])
    BY <1>1, <2>1, <2>2, FlattenedIn
  <2>. QED
    BY <2>1, <2>3 DEF q
<1>. HIDE DEF row
<1>4. /\ \A i \in 1..n : rows[i] = FlattenSeq(row(i))
      /\ rows = [i \in 1..n |-> rows[i]]
      /\ \A i \in 1..n : rows[i] \in Seq(EdgeType)
  BY <1>3
<1>5. PairEdges(ids, r) = FlattenSeq(rows)
  BY <1>1 DEF PairEdges, Both, row
<1>. HIDE DEF rows
<1>6. e \in ToSet(FlattenSeq(rows)) <=> \E i \in 1..n : e \in ToSet(rows[i])
  <2>. HIDE DEF n
  <2>. QED
    BY <1>1, <1>4, FlattenedIn
<1>7. e \in ToSet(FlattenSeq(rows))
        <=> \E i, j \in 1..n :
              i < j /\ (e = Edge(ids[i], ids[j], r) \/ e = Edge(ids[j], ids[i], r))
  <2>. HIDE DEF n
  <2>. QED
    BY <1>2, <1>3, <1>4, <1>6
<1>8. (\E i, j \in 1..n :
              i < j /\ (e = Edge(ids[i], ids[j], r) \/ e = Edge(ids[j], ids[i], r)))
        <=> \E i, j \in 1..n : i # j /\ e = Edge(ids[i], ids[j], r)
  <2>. HIDE DEF n
  <2>1. \A i, j \in 1..n : i # j => i < j \/ j < i
    BY <1>1
  <2>2. \A i, j \in 1..n : i < j => i # j
    BY <1>1
  <2>. QED
    BY <2>1, <2>2
<1>. QED
  BY <1>5, <1>7, <1>8

LEMMA ContendersFinite ==
  ASSUME NEW gs, IsList(gs), NEW r
  PROVE  /\ Contenders(gs, r) \subseteq Nat \ {0} /\ IsFiniteSet(Contenders(gs, r))
         /\ Ascending(Contenders(gs, r)) \in Seq(Nat)
         /\ \A i, j \in 1..Len(Ascending(Contenders(gs, r))) :
              i # j => Ascending(Contenders(gs, r))[i] # Ascending(Contenders(gs, r))[j]
         /\ \A a : a \in Contenders(gs, r) <=>
              \E i \in 1..Len(Ascending(Contenders(gs, r))) :
                a = Ascending(Contenders(gs, r))[i]
<1>. DEFINE C == Contenders(gs, r)
            s == Ascending(C)
            m == Len(s)
<1>1. C \subseteq DOMAIN gs
  BY DEF Contenders
<1>2. C \subseteq Nat \ {0} /\ IsFiniteSet(C)
  BY <1>1, FS_Subset DEF IsList
<1>. HIDE DEF C
<1>3. /\ s \in Seq(C) /\ m = Cardinality(C)
      /\ \A x \in C : \E k \in 1..m : s[k] = x
      /\ \A j, k \in 1..m : j < k => s[j] < s[k]
  BY <1>2, AscendingIs
<1>. HIDE DEF s, m
<1>4. m = Len(s) /\ m \in Nat /\ \A k \in 1..m : s[k] \in C
  BY <1>3 DEF m
<1>5. s \in [1..m -> C]
  BY <1>3, <1>4
<1>6. s \in [1..m -> Nat]
  BY <1>2, <1>5
<1>7. s \in Seq(Nat)
  BY <1>4, <1>6
<1>8. ASSUME NEW i \in 1..m, NEW j \in 1..m, i # j PROVE s[i] # s[j]
  <2>1. i < j \/ j < i
    BY <1>4, <1>8
  <2>2. s[i] < s[j] \/ s[j] < s[i]
    BY <1>3, <2>1
  <2>3. s[i] \in Nat /\ s[j] \in Nat
    BY <1>2, <1>4
  <2>. QED
    BY <2>2, <2>3
<1>9. \A a : a \in C <=> \E i \in 1..m : a = s[i]
  BY <1>3, <1>4
<1>. QED
  BY <1>2, <1>7, <1>8, <1>9 DEF C, s, m

\* Without a graph: every two contenders for a resource are joined both ways.
LEMMA DerivedEdges ==
  ASSUME NEW gs, IsList(gs), NEW order \in ResourceOrders(gs)
  PROVE  LET edges == DeriveCurrentContentionEdges(gs, order)
         IN  /\ edges \in Seq(EdgeType) /\ Proper(edges, gs)
             /\ \A r \in {gs[i].resource : i \in DOMAIN gs} \ {NoResource} :
                  \A a, b \in Contenders(gs, r) : a # b => Leads(edges, a, b)
<1>. DEFINE resource == [i \in DOMAIN gs |-> gs[i].resource]
            R == {gs[i].resource : i \in DOMAIN gs}
            named == R \ {NoResource}
            N == Cardinality(named)
<1>1. R = {resource[i] : i \in DOMAIN gs}
  OBVIOUS
<1>2. IsFiniteSet(R)
  <2>. HIDE DEF resource, R
  <2>. QED
    BY <1>1, ImageFinite DEF IsList
<1>3. R \subseteq Nat
  BY DEF IsList
<1>4. IsFiniteSet(named) /\ N \in Nat /\ named \subseteq Nat
  BY <1>2, <1>3, FS_Subset, FS_CardinalityType
<1>5. order \in [1..N -> named] /\ \A i, j \in 1..N : i # j => order[i] # order[j]
  BY DEF ResourceOrders, SetToSeqs
<1>. HIDE DEF named, N
<1>6. order \in Surjection(1..N, named)
  <2>1. order \in Injection(1..N, named)
    BY <1>5 DEF Injection, IsInjective
  <2>2. Cardinality(1..N) = N
    BY <1>4, FS_Interval
  <2>. QED
    BY <1>4, <2>1, <2>2, FS_Injection DEF N
<1>. DEFINE C(k) == Contenders(gs, order[k])
            ids(k) == Ascending(C(k))
            rows == [k \in 1..N |-> PairEdges(ids(k), order[k])]
<1>7. \A k \in 1..N : order[k] \in named /\ order[k] \in Nat
  BY <1>4, <1>5
<1>8. ASSUME NEW k \in 1..N
      PROVE  /\ ids(k) \in Seq(Nat)
             /\ \A i, j \in 1..Len(ids(k)) : i # j => ids(k)[i] # ids(k)[j]
             /\ \A a : a \in C(k) <=> \E i \in 1..Len(ids(k)) : a = ids(k)[i]
  BY ContendersFinite
<1>. HIDE DEF ids
<1>9. ASSUME NEW k \in 1..N
      PROVE  /\ PairEdges(ids(k), order[k]) \in Seq(EdgeType)
             /\ \A e : e \in ToSet(PairEdges(ids(k), order[k]))
                         <=> \E a, b \in C(k) : a # b /\ e = Edge(a, b, order[k])
  <2>1. PairEdges(ids(k), order[k]) \in Seq(EdgeType)
    BY <1>7, <1>8, PairEdgesType
  <2>2. ASSUME NEW e
        PROVE  e \in ToSet(PairEdges(ids(k), order[k]))
                 <=> \E a, b \in C(k) : a # b /\ e = Edge(a, b, order[k])
    <3>1. e \in ToSet(PairEdges(ids(k), order[k]))
            <=> \E i, j \in 1..Len(ids(k)) : i # j /\ e = Edge(ids(k)[i], ids(k)[j], order[k])
      BY <1>7, <1>8, PairEdgesSet
    <3>. HIDE DEF C
    <3>2. \A i \in 1..Len(ids(k)) : ids(k)[i] \in C(k)
      BY <1>8
    <3>3. \A a \in C(k) : \E i \in 1..Len(ids(k)) : a = ids(k)[i]
      BY <1>8
    <3>4. \A i, j \in 1..Len(ids(k)) : i # j => ids(k)[i] # ids(k)[j]
      BY <1>8
    <3>5. ASSUME NEW i \in 1..Len(ids(k)), NEW j \in 1..Len(ids(k)), i # j,
                 e = Edge(ids(k)[i], ids(k)[j], order[k])
          PROVE  \E a, b \in C(k) : a # b /\ e = Edge(a, b, order[k])
      BY <3>2, <3>4, <3>5, Zenon
    <3>6. ASSUME NEW a \in C(k), NEW b \in C(k), a # b, e = Edge(a, b, order[k])
          PROVE  \E i, j \in 1..Len(ids(k)) :
                   i # j /\ e = Edge(ids(k)[i], ids(k)[j], order[k])
      <4>1. PICK i \in 1..Len(ids(k)), j \in 1..Len(ids(k)) : a = ids(k)[i] /\ b = ids(k)[j]
        BY <3>3
      <4>. QED
        BY <3>6, <4>1
    <3>. QED
      BY <3>1, <3>5, <3>6
  <2>. QED
    BY <2>1, <2>2
<1>10. /\ rows = [k \in 1..N |-> rows[k]] /\ \A k \in 1..N : rows[k] \in Seq(EdgeType)
       /\ \A k \in 1..N : rows[k] = PairEdges(ids(k), order[k])
  BY <1>9
<1>11. DeriveCurrentContentionEdges(gs, order) = FlattenSeq(rows)
  BY <1>5 DEF DeriveCurrentContentionEdges, ids
<1>. HIDE DEF rows
<1>. DEFINE edges == FlattenSeq(rows)
<1>12. /\ edges \in Seq(EdgeType)
       /\ \A x : x \in ToSet(edges) <=> \E k \in 1..N : x \in ToSet(rows[k])
  BY <1>4, <1>10, FlattenedIn
<1>. HIDE DEF C
<1>13. \A x : x \in ToSet(edges)
               <=> \E k \in 1..N : \E a, b \in C(k) : a # b /\ x = Edge(a, b, order[k])
  <2>. DEFINE Joined(k, x) == \E a, b \in C(k) : a # b /\ x = Edge(a, b, order[k])
  <2>1. \A k \in 1..N : \A x : x \in ToSet(rows[k]) <=> Joined(k, x)
    BY <1>9, <1>10
  <2>. HIDE DEF Joined
  <2>2. \A x : x \in ToSet(edges) <=> \E k \in 1..N : Joined(k, x)
    BY <1>12, <2>1 DEF edges
  <2>. QED
    BY <2>2 DEF Joined
<1>. HIDE DEF edges
<1>14. Proper(edges, gs)
  <2>. SUFFICES ASSUME NEW e \in ToSet(edges)
       PROVE  /\ e.resource # NoResource /\ e.from # e.to
              /\ {e.from, e.to} \subseteq Contenders(gs, e.resource)
    BY DEF Proper
  <2>1. PICK k \in 1..N : \E a, b \in C(k) : a # b /\ e = Edge(a, b, order[k])
    BY <1>13
  <2>. QED
    BY <1>7, <2>1 DEF C, Edge, named
<1>15. ASSUME NEW r \in named, NEW a \in Contenders(gs, r), NEW b \in Contenders(gs, r), a # b
       PROVE  Leads(edges, a, b)
  <2>1. PICK k \in 1..N : order[k] = r
    BY <1>6 DEF Surjection
  <2>2. Edge(a, b, order[k]) \in ToSet(edges)
    BY <1>13, <1>15, <2>1 DEF C
  <2>. QED
    BY <2>2 DEF Leads, Edge
<1>. QED
  BY <1>11, <1>12, <1>14, <1>15 DEF edges, named

\* So the contenders for one resource are a ring.
LEMMA ProperRing ==
  ASSUME NEW gs, IsList(gs), NEW edges, Proper(edges, gs), NEW r,
         \A a, b \in Contenders(gs, r) : a # b => Leads(edges, a, b),
         Cardinality(Contenders(gs, r)) >= 2
  PROVE  Ring(edges, Contenders(gs, r), r) /\ Contenders(gs, r) # {}
<1>. DEFINE C == Contenders(gs, r)
<1>1. C \subseteq Nat \ {0} /\ IsFiniteSet(C)
  BY ContendersFinite
<1>2. ASSUME NEW e \in ToSet(edges), e.from \in C
      PROVE  e.to \in C /\ e.to # e.from /\ e.resource = r
  BY <1>2 DEF Proper, Contenders
<1>. HIDE DEF C
<1>3. C # {} /\ \A a \in C : \E b \in C : b # a
  <2>1. C # {}
    BY FS_EmptySet DEF C
  <2>2. ASSUME NEW a \in C, \A b \in C : b = a PROVE FALSE
    <3>1. C = {a}
      BY <2>2
    <3>2. Cardinality({a}) = 1
      BY FS_Singleton
    <3>. QED
      BY <3>1, <3>2 DEF C
  <2>. QED
    BY <2>1, <2>2
<1>4. \A a \in C : \E b \in C : Leads(edges, a, b)
  BY <1>3 DEF C
<1>. QED
  BY <1>1, <1>2, <1>3, <1>4 DEF Ring, C

\* A ring of blocked goroutines gives a hint of its resource.
LEMMA RingHinted ==
  ASSUME NEW gs, NEW edges \in Seq(EdgeType), NEW r, r # NoResource,
         Ring(edges, Contenders(gs, r), r), Contenders(gs, r) # {}
  PROVE  \E h \in FindDeadlockHints(edges, gs) :
           h.resources = {r} /\ ToSet(h.cycle) \subseteq Contenders(gs, r)
<1>. DEFINE C == Contenders(gs, r)
<1>1. PICK c \in CyclesFound(edges) : Closed(c, edges) /\ Len(c) >= 2 /\ ToSet(c) \subseteq C
  BY RingFound
<1>2. AllBlocked(c, gs)
  BY <1>1 DEF AllBlocked, Contenders
<1>3. ResourcesInCycle(c, edges) = {r}
  <2>. DEFINE inside == {e \in ToSet(edges) : {e.from, e.to} \subseteq ToSet(c)}
  <2>1. \A e \in inside : e.resource = r
    BY <1>1 DEF Ring
  <2>2. inside # {}
    <3>1. /\ c \in Seq(Nat) /\ Len(c) \in Nat /\ DOMAIN c = 1..Len(c)
          /\ Leads(edges, c[Len(c)], c[1])
      BY <1>1 DEF Closed, Walk
    <3>2. c[1] \in ToSet(c) /\ c[Len(c)] \in ToSet(c)
      <4>1. 1 \in 1..Len(c) /\ Len(c) \in 1..Len(c)
        BY <1>1, <3>1
      <4>. QED
        BY <3>1, <4>1 DEF ToSet
    <3>. QED
      BY <3>1, <3>2 DEF Leads
  <2>. HIDE DEF inside
  <2>3. {e.resource : e \in inside} \ {NoResource} = {r}
    BY <2>1, <2>2
  <2>. QED
    BY <2>3 DEF ResourcesInCycle, inside
<1>. DEFINE h == [cycle |-> c, resources |-> ResourcesInCycle(c, edges),
                  chain |-> BuildBlameChain(c, edges, gs)]
<1>4. h \in FindDeadlockHints(edges, gs)
  BY <1>1, <1>2, Zenon DEF FindDeadlockHints
<1>5. h.resources = {r} /\ h.cycle = c
  BY <1>3
<1>. HIDE DEF h
<1>. QED
  BY <1>1, <1>4, <1>5

\* The graph that is drawn keeps the edges; those it adds lead from a blocked
\* goroutine to others that contend for its resource.
LEMMA DrawnEdges ==
  ASSUME NEW gs, IsList(gs), NEW edges \in Seq(EdgeType), Proper(edges, gs)
  PROVE  \E all \in Seq(EdgeType) :
           /\ Proper(all, gs) /\ ToSet(edges) \subseteq ToSet(all)
           /\ BuildWaitForGraph(edges, gs).cycles = CyclesFound(all)
<1>. DEFINE blocked == {i \in DOMAIN gs : /\ IsBlockedState(gs[i].state)
                                          /\ gs[i].resource # NoResource}
            directed == {e \in EdgeType : e.to # 0 /\ e.from # e.to}
            explicit == Chosen(edges, directed)
            user(k, r) == IF edges[k].resource # r THEN <<>>
                          ELSE IF edges[k].to = 0 THEN <<edges[k].from>>
                          ELSE <<edges[k].from, edges[k].to>>
            Users(r) == FlattenSeq([k \in DOMAIN edges |-> user(k, r)])
            others(i) == Chosen(Users(gs[i].resource), Nat \ {i})
            Shared(i) == [k \in DOMAIN others(i) |->
                            Edge(i, others(i)[k], gs[i].resource)]
            ids == Ascending(blocked)
            rows == [k \in DOMAIN ids |-> Shared(ids[k])]
            waits == FlattenSeq(rows)
            all == explicit \o waits
            n == Len(edges)
<1>1. /\ n \in Nat /\ DOMAIN edges = 1..n
      /\ \A k \in 1..n : edges[k] \in EdgeType /\ edges[k] \in ToSet(edges)
  BY DEF ToSet
<1>2. \A k \in 1..n : /\ edges[k].from \in Nat /\ edges[k].to \in Nat
                      /\ edges[k].resource \in Nat
  BY <1>1 DEF EdgeType
<1>3. ASSUME NEW e \in ToSet(edges) PROVE e \in directed
  <2>1. e \in EdgeType
    BY <1>1, <1>3 DEF ToSet
  <2>2. e.to \in Contenders(gs, e.resource) /\ e.from # e.to
    BY DEF Proper
  <2>3. e.to # 0
    BY <2>2, ContendersFinite
  <2>. QED
    BY <2>1, <2>2, <2>3
<1>4. explicit \in Seq(EdgeType) /\ ToSet(explicit) = ToSet(edges)
  <2>1. explicit \in Seq(EdgeType) /\ ToSet(explicit) = ToSet(edges) \cap directed
    <3>. HIDE DEF directed
    <3>. QED
      BY ChosenType, ChosenSet
  <2>. QED
    BY <1>3, <2>1
<1>5. explicit = Where(edges, LAMBDA e : e.to # 0 /\ e.from # e.to)
  <2>1. \A k \in DOMAIN edges :
          edges[k] \in directed <=> edges[k].to # 0 /\ edges[k].from # edges[k].to
    BY <1>1
  <2>. HIDE DEF directed
  <2>. QED
    BY <2>1 DEF Where, Chosen, PickOf
<1>6. ASSUME NEW r
      PROVE  /\ Users(r) \in Seq(Nat)
             /\ \A j \in ToSet(Users(r)) : j \in Contenders(gs, r)
  <2>1. ASSUME NEW k \in 1..n
        PROVE  user(k, r) \in Seq(Nat) /\ ToSet(user(k, r)) \subseteq Contenders(gs, r)
    <3>1. {edges[k].from, edges[k].to} \subseteq Contenders(gs, edges[k].resource)
      BY <1>1, <2>1 DEF Proper
    <3>. DEFINE a == edges[k].from
                b == edges[k].to
    <3>2. a \in Nat /\ b \in Nat
      BY <1>2, <2>1
    <3>3. CASE edges[k].resource # r
      <4>1. user(k, r) = <<>> /\ ToSet(<<>>) = {}
        BY <3>3 DEF ToSet
      <4>. QED
        BY <4>1
    <3>4. CASE edges[k].resource = r
      <4>. HIDE DEF a, b
      <4>1. a \in Contenders(gs, r) /\ b \in Contenders(gs, r)
        BY <3>1, <3>4 DEF a, b
      <4>2. /\ <<a>> \in Seq(Nat) /\ <<a, b>> \in Seq(Nat)
            /\ ToSet(<<a>>) = {a} /\ ToSet(<<a, b>>) = {a, b}
        BY <3>2 DEF ToSet
      <4>3. user(k, r) = <<a>> \/ user(k, r) = <<a, b>>
        BY <3>4 DEF a, b
      <4>. HIDE DEF user
      <4>. QED
        BY <4>1, <4>2, <4>3
    <3>. QED
      BY <3>3, <3>4
  <2>. HIDE DEF user
  <2>. DEFINE q == [k \in 1..n |-> user(k, r)]
  <2>2. q = [k \in 1..n |-> q[k]] /\ \A k \in 1..n : q[k] = user(k, r)
    OBVIOUS
  <2>3. Users(r) = FlattenSeq(q)
    BY <1>1
  <2>. HIDE DEF q, n
  <2>4. \A k \in 1..n : q[k] \in Seq(Nat)
    BY <2>1, <2>2
  <2>5. /\ FlattenSeq(q) \in Seq(Nat)
        /\ \A x : x \in ToSet(FlattenSeq(q)) <=> \E k \in 1..n : x \in ToSet(q[k])
    BY <1>1, <2>2, <2>4, FlattenedIn
  <2>. HIDE DEF Users
  <2>. QED
    BY <2>1, <2>2, <2>3, <2>5
<1>7. ASSUME NEW i
      PROVE  /\ Where(Users(gs[i].resource), LAMBDA j : j # i) = others(i)
             /\ others(i) \in Seq(Nat)
             /\ ToSet(others(i)) \subseteq Contenders(gs, gs[i].resource) \ {i}
  <2>. DEFINE u == Users(gs[i].resource)
  <2>1. u \in Seq(Nat) /\ \A j \in ToSet(u) : j \in Contenders(gs, gs[i].resource)
    BY <1>6
  <2>. HIDE DEF u
  <2>2. Where(u, LAMBDA j : j # i) = Chosen(u, Nat \ {i})
    <3>1. \A k \in DOMAIN u : u[k] \in Nat \ {i} <=> u[k] # i
      BY <2>1
    <3>. QED
      BY <3>1 DEF Where, Chosen, PickOf
  <2>3. /\ Chosen(u, Nat \ {i}) \in Seq(Nat)
        /\ ToSet(Chosen(u, Nat \ {i})) = ToSet(u) \cap (Nat \ {i})
    BY <2>1, ChosenType, ChosenSet
  <2>. QED
    BY <2>1, <2>2, <2>3 DEF u
<1>8. IsFiniteSet(blocked) /\ blocked \subseteq Nat \ {0}
  <2>1. blocked \subseteq DOMAIN gs
    OBVIOUS
  <2>. HIDE DEF blocked
  <2>. QED
    BY <2>1, FS_Subset DEF IsList
<1>9. PICK m \in Nat : /\ m = Len(ids) /\ DOMAIN ids = 1..m
                       /\ \A k \in 1..m : ids[k] \in blocked
  <2>. HIDE DEF blocked
  <2>1. Cardinality(blocked) \in Nat /\ ids \in Seq(blocked)
    BY <1>8, AscendingIs
  <2>. HIDE DEF ids
  <2>. QED
    BY <2>1
<1>. DEFINE all2 == Where(edges, LAMBDA e : e.to # 0 /\ e.from # e.to)
                     \o FlattenSeq([k \in DOMAIN ids |->
                          LET o == Where(Users(gs[ids[k]].resource), LAMBDA j : j # ids[k])
                          IN  [l \in DOMAIN o |-> Edge(ids[k], o[l], gs[ids[k]].resource)]])
<1>10. BuildWaitForGraph(edges, gs).cycles = CyclesFound(all2)
  BY DEF BuildWaitForGraph
<1>11. all2 = all
  <2>. HIDE DEF Users, ids
  <2>1. \A k \in DOMAIN ids :
          Where(Users(gs[ids[k]].resource), LAMBDA j : j # ids[k]) = others(ids[k])
    BY <1>7
  <2>. HIDE DEF others
  <2>2. \A k \in DOMAIN ids :
          (LET o == Where(Users(gs[ids[k]].resource), LAMBDA j : j # ids[k])
           IN  [l \in DOMAIN o |-> Edge(ids[k], o[l], gs[ids[k]].resource)])
          = Shared(ids[k])
    BY <2>1
  <2>. QED
    BY <1>5, <2>2
<1>. HIDE DEF all2, ids, Users, blocked
<1>12. ASSUME NEW i \in blocked
       PROVE  /\ Shared(i) \in Seq(EdgeType)
              /\ \A e \in ToSet(Shared(i)) :
                   /\ e.resource # NoResource /\ e.from # e.to
                   /\ {e.from, e.to} \subseteq Contenders(gs, e.resource)
  <2>1. /\ i \in Nat /\ gs[i].resource \in Nat /\ gs[i].resource # NoResource
        /\ i \in Contenders(gs, gs[i].resource)
    BY DEF blocked, Contenders, IsList
  <2>. DEFINE o == others(i)
              l == Len(o)
              C == Contenders(gs, gs[i].resource)
  <2>2. o \in Seq(Nat) /\ ToSet(o) \subseteq C \ {i}
    BY <1>7
  <2>. HIDE DEF others
  <2>3. Shared(i) = [k \in DOMAIN o |-> Edge(i, o[k], gs[i].resource)]
    OBVIOUS
  <2>. HIDE DEF o, Shared, C
  <2>4. l \in Nat /\ DOMAIN o = 1..l /\ \A k \in 1..l : o[k] \in Nat /\ o[k] \in C \ {i}
    BY <2>2 DEF ToSet
  <2>. HIDE DEF l
  <2>5. \A k \in 1..l : /\ Shared(i)[k] = Edge(i, o[k], gs[i].resource)
                        /\ Shared(i)[k] \in EdgeType
    BY <2>1, <2>3, <2>4 DEF Edge, EdgeType
  <2>6. Shared(i) \in [1..l -> EdgeType]
    BY <2>3, <2>4, <2>5
  <2>7. Shared(i) \in Seq(EdgeType) /\ DOMAIN Shared(i) = 1..l
    BY <2>4, <2>6
  <2>8. ASSUME NEW e \in ToSet(Shared(i))
        PROVE  /\ e.resource # NoResource /\ e.from # e.to
               /\ {e.from, e.to} \subseteq Contenders(gs, e.resource)
    <3>1. PICK k \in 1..l : e = Edge(i, o[k], gs[i].resource)
      BY <2>5, <2>7 DEF ToSet
    <3>2. e.from = i /\ e.to = o[k] /\ e.resource = gs[i].resource
      BY <3>1 DEF Edge
    <3>. QED
      BY <2>1, <2>4, <3>2 DEF C
  <2>. QED
    BY <2>7, <2>8
<1>. HIDE DEF Shared
<1>13. /\ rows = [k \in 1..m |-> rows[k]]
       /\ \A k \in 1..m : rows[k] = Shared(ids[k]) /\ rows[k] \in Seq(EdgeType)
  BY <1>9, <1>12
<1>. HIDE DEF rows
<1>14. /\ waits \in Seq(EdgeType)
       /\ \A x : x \in ToSet(waits) <=> \E k \in 1..m : x \in ToSet(rows[k])
  BY <1>13, FlattenedIn
<1>. HIDE DEF waits, explicit
<1>15. all \in Seq(EdgeType) /\ ToSet(all) = ToSet(explicit) \cup ToSet(waits)
  BY <1>4, <1>14, ConcatSet
<1>. HIDE DEF all
<1>16. Proper(all, gs)
  <2>. SUFFICES ASSUME NEW e \in ToSet(all)
       PROVE  /\ e.resource # NoResource /\ e.from # e.to
              /\ {e.from, e.to} \subseteq Contenders(gs, e.resource)
    BY DEF Proper
  <2>1. CASE e \in ToSet(edges)
    BY <2>1 DEF Proper
  <2>2. CASE e \in ToSet(waits)
    <3>1. PICK k \in 1..m : e \in ToSet(Shared(ids[k]))
      BY <1>13, <1>14, <2>2
    <3>. QED
      BY <1>9, <1>12, <3>1
  <2>. QED
    BY <1>4, <1>15, <2>1, <2>2
<1>. QED
  BY <1>4, <1>10, <1>11, <1>15, <1>16

LEMMA ContendersAnswered ==
  ASSUME NEW gs \in Snapshots, NEW graph \in Graphs, Check(gs, graph)
  PROVE  ContendersHinted'
<1>1. PICK order \in ResourceOrders(gs) :
        LET edges == EdgesFor(gs, graph, order)
            hints == FindDeadlockHints(edges, gs)
        IN  \E sarif, github, failed :
              job' = [kind |-> "check", gs |-> gs, graph |-> graph, edges |-> edges,
                      hints |-> hints, sarif |-> sarif, github |-> github,
                      wfg |-> BuildWaitForGraph(edges, gs), failed |-> failed]
  BY Zenon DEF Check
<1>. DEFINE edges == EdgesFor(gs, graph, order)
            hints == FindDeadlockHints(edges, gs)
            wfg == BuildWaitForGraph(edges, gs)
<1>2. /\ job'.gs = gs /\ job'.graph = graph /\ job'.hints = hints
      /\ job'.wfg = wfg
  <2>. HIDE DEF edges, hints, wfg
  <2>1. PICK sarif, github, failed :
          job' = [kind |-> "check", gs |-> gs, graph |-> graph, edges |-> edges,
                  hints |-> hints, sarif |-> sarif, github |-> github,
                  wfg |-> wfg, failed |-> failed]
    BY <1>1, Zenon DEF edges, hints, wfg
  <2>. QED
    BY <2>1
<1>3. IsList(gs)
  BY InputAssumption
<1>4. ASSUME graph = <<>>, NEW r \in {gs[i].resource : i \in DOMAIN gs} \ {NoResource},
             Cardinality(Contenders(gs, r)) >= 2
      PROVE  /\ \E h \in hints :
                  h.resources = {r} /\ ToSet(h.cycle) \subseteq Contenders(gs, r)
             /\ Cardinality(Contenders(gs, r) \cap DrawnRed(wfg)) >= 2
  <2>. DEFINE C == Contenders(gs, r)
  <2>1. edges = DeriveCurrentContentionEdges(gs, order)
    BY <1>4 DEF EdgesFor
  <2>2. /\ edges \in Seq(EdgeType) /\ Proper(edges, gs)
        /\ \A a, b \in C : a # b => Leads(edges, a, b)
    <3>. HIDE DEF edges, C
    <3>. QED
      BY <1>3, <1>4, <2>1, DerivedEdges DEF C
  <2>. HIDE DEF edges
  <2>3. Ring(edges, C, r) /\ C # {}
    BY <1>3, <1>4, <2>2, ProperRing
  <2>4. \E h \in hints : h.resources = {r} /\ ToSet(h.cycle) \subseteq C
    BY <1>4, <2>2, <2>3, RingHinted
  <2>5. PICK all \in Seq(EdgeType) :
          /\ Proper(all, gs) /\ ToSet(edges) \subseteq ToSet(all)
          /\ wfg.cycles = CyclesFound(all)
    BY <1>3, <2>2, DrawnEdges
  <2>6. \A a, b \in C : a # b => Leads(all, a, b)
    BY <2>2, <2>5 DEF Leads
  <2>7. Ring(all, C, r) /\ C # {}
    BY <1>3, <1>4, <2>5, <2>6, ProperRing
  <2>8. PICK c \in wfg.cycles : Closed(c, all) /\ Len(c) >= 2 /\ ToSet(c) \subseteq C
    BY <2>5, <2>7, RingFound
  <2>9. /\ Len(c) \in Nat /\ DOMAIN c = 1..Len(c)
        /\ \A i, j \in 1..Len(c) : c[i] = c[j] => i = j
    BY <2>8 DEF Closed, Walk
  <2>10. c[1] \in ToSet(c) /\ c[2] \in ToSet(c) /\ c[1] # c[2]
    <3>1. 1 \in 1..Len(c) /\ 2 \in 1..Len(c)
      BY <2>8, <2>9
    <3>. QED
      BY <2>9, <3>1 DEF ToSet
  <2>. DEFINE red == C \cap DrawnRed(wfg)
  <2>11. {c[1], c[2]} \in SUBSET red
    BY <2>8, <2>10 DEF DrawnRed
  <2>12. IsFiniteSet(red)
    <3>1. red \in SUBSET C
      OBVIOUS
    <3>. QED
      BY <1>3, <3>1, ContendersFinite, FS_Subset
  <2>13. Cardinality({c[1], c[2]}) = 2
    <3>. DEFINE a == c[1]
                b == c[2]
    <3>1. a # b
      BY <2>10
    <3>. HIDE DEF a, b
    <3>2. Cardinality({a}) = 1 /\ IsFiniteSet({a})
      BY FS_Singleton
    <3>3. Cardinality({a} \cup {b}) = Cardinality({a}) + 1
      BY <3>1, <3>2, FS_AddElement
    <3>4. {a} \cup {b} = {a, b}
      OBVIOUS
    <3>5. Cardinality({a, b}) = 1 + 1
      BY ONLY <3>2, <3>3, <3>4, Zenon
    <3>. QED
      BY <3>5 DEF a, b
  <2>14. Cardinality(red) >= 2
    <3>. HIDE DEF red
    <3>1. Cardinality({c[1], c[2]}) <= Cardinality(red) /\ Cardinality(red) \in Nat
      BY <2>11, <2>12, FS_Subset, FS_CardinalityType
    <3>. QED
      BY <2>13, <3>1
  <2>. QED
    BY <2>4, <2>14
<1>. HIDE DEF hints, wfg
<1>. QED
  BY <1>2, <1>4 DEF ContendersHinted, Is

\* However many goroutines and resources, in whatever order those come: where no
\* graph was captured, every group of contenders has its hint and its red nodes.
THEOREM ContendersAreHinted == Spec => []ContendersHinted
<1>1. Init => ContendersHinted
  BY DEF Init, Idle, ContendersHinted, Is
<1>2. ContendersHinted /\ [Next]_vars => ContendersHinted'
  <2>. SUFFICES ASSUME ContendersHinted, Requests PROVE ContendersHinted'
    BY NextAnswers
  <2>1. ASSUME NEW gs \in Snapshots, NEW graph \in Graphs, Check(gs, graph)
        PROVE  ContendersHinted'
    BY <2>1, ContendersAnswered
  <2>2. CASE job'.kind # "check"
    BY <2>2 DEF ContendersHinted, Is
  <2>3. CASE job' = job
    BY <2>3 DEF ContendersHinted, Is
  <2>. QED
    BY <2>1, <2>2, <2>3, KindOf DEF Requests
<1>. QED
  BY <1>1, <1>2, PTL DEF Spec

-----------------------------------------------------------------------------
(* Comparing captures *)

\* A sum of durations, as BlockedTime spells it.
DurationOf(S) == [s \in S |-> s.end - s.start]

LEMMA SumOfDurations ==
  ASSUME NEW S, IsFiniteSet(S)
  PROVE  MapThenSumSet(LAMBDA s : s.end - s.start, S) = SumOver(DurationOf(S), S)
<1>. DEFINE StepDur(it, s) == IF s = {} THEN 0
                              ELSE LET x == CHOOSE x \in s : TRUE
                                   IN  (x.end - x.start) + it[s \ {x}]
            Solves(it) == it = [s \in SUBSET S |-> StepDur(it, s)]
<1>1. MapThenSumSet(LAMBDA s : s.end - s.start, S) = (CHOOSE it : Solves(it))[S]
  BY DEF MapThenSumSet, MapThenFoldSet
<1>2. ASSUME NEW it, NEW s \in SUBSET S
      PROVE  StepDur(it, s) = StepOf(it, DurationOf(S), s)
  <2>1. CASE s = {}
    BY <2>1 DEF StepOf
  <2>2. CASE s # {}
    <3>1. (CHOOSE x \in s : TRUE) \in S
      BY <2>2
    <3>. QED
      BY <2>2, <3>1 DEF StepOf, DurationOf
  <2>. QED
    BY <2>1, <2>2
<1>. HIDE DEF StepDur
<1>3. ASSUME NEW it PROVE Solves(it) <=> Unfolds(it, DurationOf(S), S)
  BY <1>2 DEF Unfolds
<1>. HIDE DEF Solves
<1>4. \E it : Solves(it)
  BY <1>3, UnfoldsExists
<1>5. Unfolds((CHOOSE it : Solves(it)), DurationOf(S), S)
  BY <1>3, <1>4
<1>. QED
  BY <1>1, <1>5, SumUnfolds

LEMMA BlockedTimeType ==
  ASSUME NEW segs, IsTimeline(segs), NEW i
  PROVE  BlockedTime(segs, i) \in Int
<1>. DEFINE S == {s \in segs : s.goroutine = i /\ s.state = "BLOCKED"}
<1>1. IsFiniteSet(S) /\ \A s \in S : s.start \in Int /\ s.end \in Int
  BY FS_Subset DEF IsTimeline
<1>2. BlockedTime(segs, i) = MapThenSumSet(LAMBDA s : s.end - s.start, S)
  BY DEF BlockedTime
<1>. HIDE DEF S
<1>3. DurationOf(S) \in [S -> Int]
  BY <1>1 DEF DurationOf
<1>. QED
  BY <1>1, <1>2, <1>3, SumOfDurations, SumType

\* Two differences that did not move apart, and the status they give.
StatusOf(wait, blocked) ==
  IF wait < 0 \/ blocked < 0 THEN "improved"
  ELSE IF wait > 0 \/ blocked > 0 THEN "regressed" ELSE "unchanged"

OppositeOf(status) == CASE status = "improved" -> "regressed"
                        [] status = "regressed" -> "improved"
                        [] OTHER -> status

LEMMA SignsAgree ==
  ASSUME NEW a \in Int, NEW b \in Int, a * b >= 0
  PROVE  (a < 0 => b <= 0) /\ (a > 0 => b >= 0)
<1>1. a < 0 /\ b > 0 => a * b < 0
  OBVIOUS
<1>2. a > 0 /\ b < 0 => a * b < 0
  OBVIOUS
<1>3. a * b \in Int
  OBVIOUS
<1>. QED
  BY <1>1, <1>2, <1>3

LEMMA StatusMirrors ==
  ASSUME NEW a \in Int, NEW b \in Int, a * b >= 0
  PROVE  StatusOf(-a, -b) = OppositeOf(StatusOf(a, b))
<1>1. (a < 0 => b <= 0) /\ (a > 0 => b >= 0)
  BY SignsAgree
<1>2. CASE a < 0 \/ b < 0
  <2>1. a <= 0 /\ b <= 0
    BY <1>1, <1>2
  <2>2. StatusOf(a, b) = "improved" /\ StatusOf(-a, -b) = "regressed"
    BY <1>2, <2>1 DEF StatusOf
  <2>. QED
    BY <2>2 DEF OppositeOf
<1>3. CASE ~ (a < 0 \/ b < 0) /\ (a > 0 \/ b > 0)
  <2>1. StatusOf(a, b) = "regressed" /\ StatusOf(-a, -b) = "improved"
    BY <1>3 DEF StatusOf
  <2>. QED
    BY <2>1 DEF OppositeOf
<1>4. CASE a = 0 /\ b = 0
  <2>1. StatusOf(a, b) = "unchanged" /\ StatusOf(-a, -b) = "unchanged"
    BY <1>4 DEF StatusOf
  <2>. QED
    BY <2>1 DEF OppositeOf
<1>. QED
  BY <1>2, <1>3, <1>4

LEMMA DeltaMirrors ==
  ASSUME NEW a \in Captures, NEW b \in Captures,
         NEW i \in DOMAIN a.gs \cap DOMAIN b.gs
  PROVE  LET d == GoroutineDelta(i, a, b)
             e == GoroutineDelta(i, b, a)
         IN  /\ e.wait = -d.wait /\ e.blocked = -d.blocked
             /\ d.wait * d.blocked >= 0 => e.status = OppositeOf(d.status)
<1>. DEFINE w == b.gs[i].wait - a.gs[i].wait
            t == BlockedTime(b.segs, i) - BlockedTime(a.segs, i)
            v == a.gs[i].wait - b.gs[i].wait
            u == BlockedTime(a.segs, i) - BlockedTime(b.segs, i)
            d == GoroutineDelta(i, a, b)
            e == GoroutineDelta(i, b, a)
<1>1. a.gs[i].wait \in Int /\ b.gs[i].wait \in Int
  BY InputAssumption DEF IsList
<1>2. BlockedTime(a.segs, i) \in Int /\ BlockedTime(b.segs, i) \in Int
  BY InputAssumption, BlockedTimeType
<1>3. w \in Int /\ t \in Int /\ v = -w /\ u = -t
  BY <1>1, <1>2
<1>4. /\ d.wait = w /\ d.blocked = t /\ d.status = StatusOf(w, t)
      /\ e.wait = v /\ e.blocked = u /\ e.status = StatusOf(v, u)
  BY DEF GoroutineDelta, StatusOf
<1>. HIDE DEF d, e, w, t, u, v
<1>5. /\ e.wait = -d.wait /\ e.blocked = -d.blocked
      /\ d.wait * d.blocked >= 0 => e.status = OppositeOf(d.status)
  BY <1>3, <1>4, StatusMirrors
<1>. QED
  BY <1>5 DEF d, e

LEMMA CompareAnswered ==
  ASSUME NEW a \in Captures, NEW b \in Captures, NEW format, NEW pct,
         Compare(a, b, format, pct)
  PROVE  DiffMirrors'
<1>1. PICK exit : job' = [kind |-> "compare", baseline |-> a, compare |-> b,
                          diff |-> ComputeCaptureDiff(a, b), exit |-> exit]
  BY Zenon DEF Compare
<1>. DEFINE diff == ComputeCaptureDiff(a, b)
            back == ComputeCaptureDiff(b, a)
            both == DOMAIN a.gs \cap DOMAIN b.gs
<1>2. /\ job'.kind = "compare" /\ job'.baseline = a /\ job'.compare = b
      /\ job'.diff = diff
  <2>. HIDE DEF diff
  <2>1. job' = [kind |-> "compare", baseline |-> a, compare |-> b,
                diff |-> diff, exit |-> exit]
    BY <1>1, Zenon DEF diff
  <2>. QED
    BY <2>1
<1>3. /\ back.onlyInBaseline = diff.onlyInCompare
      /\ DOMAIN diff.deltas = both
      /\ \A i \in both : /\ diff.deltas[i] = GoroutineDelta(i, a, b)
                         /\ back.deltas[i] = GoroutineDelta(i, b, a)
  BY DEF ComputeCaptureDiff
<1>. HIDE DEF diff, back
<1>4. ASSUME NEW i \in DOMAIN diff.deltas
      PROVE  /\ back.deltas[i].wait = -diff.deltas[i].wait
             /\ back.deltas[i].blocked = -diff.deltas[i].blocked
             /\ diff.deltas[i].wait * diff.deltas[i].blocked >= 0 =>
                  back.deltas[i].status = OppositeOf(diff.deltas[i].status)
  BY <1>3, <1>4, DeltaMirrors
<1>5. job'.kind # "stacks"
  BY <1>2
<1>6. back = ComputeCaptureDiff(job'.compare, job'.baseline)
  BY <1>2 DEF back
<1>. QED
  BY <1>2, <1>3, <1>4, <1>5, <1>6 DEF DiffMirrors, Is, OppositeOf

LEMMA StacksAnswered ==
  ASSUME NEW a, NEW b, CompareStacks(a, b)
  PROVE  DiffMirrors'
<1>. DEFINE diff == StackPatternDiff(a, b)
            back == StackPatternDiff(b, a)
<1>1. /\ job'.kind = "stacks" /\ job'.baseline = a /\ job'.compare = b
      /\ job'.diff = diff
  <2>. HIDE DEF diff
  <2>1. job' = [kind |-> "stacks", baseline |-> a, compare |-> b, diff |-> diff]
    BY Zenon DEF CompareStacks, diff
  <2>. QED
    BY <2>1
<1>2. back.appeared = diff.disappeared /\ back.disappeared = diff.appeared
  BY DEF StackPatternDiff
<1>. HIDE DEF diff, back
<1>3. back = StackPatternDiff(job'.compare, job'.baseline)
  BY <1>1 DEF back
<1>. QED
  BY <1>1, <1>2, <1>3 DEF DiffMirrors, Is

\* Any two captures, with whatever waits and segments: the comparison read from the
\* other side says the opposite.
THEOREM ComparisonsMirror == Spec => []DiffMirrors
<1>1. Init => DiffMirrors
  BY DEF Init, Idle, DiffMirrors, Is
<1>2. DiffMirrors /\ [Next]_vars => DiffMirrors'
  <2>. SUFFICES ASSUME DiffMirrors, Requests PROVE DiffMirrors'
    BY NextAnswers
  <2>1. ASSUME NEW a \in Captures, NEW b \in Captures, NEW format, NEW pct,
               Compare(a, b, format, pct)
        PROVE  DiffMirrors'
    BY <2>1, CompareAnswered
  <2>2. ASSUME NEW a, NEW b, CompareStacks(a, b) PROVE DiffMirrors'
    BY <2>2, StacksAnswered
  <2>3. CASE job'.kind \notin {"compare", "stacks"}
    BY <2>3 DEF DiffMirrors, Is
  <2>4. CASE job' = job
    BY <2>4 DEF DiffMirrors, Is
  <2>. QED
    BY <2>1, <2>2, <2>3, <2>4, KindOf DEF Requests
<1>. QED
  BY <1>1, <1>2, PTL DEF Spec

-----------------------------------------------------------------------------
(* The heatmap *)

LEMMA ExtremesIn ==
  ASSUME NEW S, S \subseteq Int, IsFiniteSet(S), S # {}
  PROVE  /\ Max(S) \in S /\ \A y \in S : y <= Max(S)
         /\ Min(S) \in S /\ \A y \in S : Min(S) <= y
<1>. DEFINE Highest(s, x) == x \in s /\ \A y \in s : y <= x
            Lowest(s, x) == x \in s /\ \A y \in s : x <= y
            P == {s \in SUBSET S : s = {} \/ ((\E x : Highest(s, x)) /\ (\E x : Lowest(s, x)))}
<1>1. {} \in P
  OBVIOUS
<1>2. ASSUME NEW s \in SUBSET S, \A x \in s : s \ {x} \in P PROVE s \in P
  <2>1. CASE s = {}
    BY <2>1
  <2>2. CASE s # {}
    <3>1. PICK x : x \in s
      BY <2>2
    <3>2. CASE s \ {x} = {}
      <4>1. s = {x} /\ x \in Int
        BY <3>1, <3>2
      <4>2. Highest(s, x) /\ Lowest(s, x)
        BY <4>1
      <4>. HIDE DEF Highest, Lowest
      <4>. QED
        BY <4>2
    <3>3. CASE s \ {x} # {}
      <4>1. /\ \E h : Highest(s \ {x}, h)
            /\ \E l : Lowest(s \ {x}, l)
        BY <1>2, <3>1, <3>3
      <4>2. PICK h : Highest(s \ {x}, h)
        BY <4>1
      <4>3. PICK l : Lowest(s \ {x}, l)
        BY <4>1
      <4>4. h \in Int /\ l \in Int /\ x \in Int /\ s \subseteq Int
        BY <3>1, <4>2, <4>3
      <4>5. Highest(s, IF x <= h THEN h ELSE x)
        BY <3>1, <4>2, <4>4
      <4>6. Lowest(s, IF l <= x THEN l ELSE x)
        BY <3>1, <4>3, <4>4
      <4>. HIDE DEF Highest, Lowest
      <4>. QED
        BY <4>5, <4>6
    <3>. QED
      BY <3>2, <3>3
  <2>. QED
    BY <2>1, <2>2
<1>3. S \in P
  <2>. HIDE DEF P
  <2>. QED
    BY <1>1, <1>2, SubsetInduction
<1>4. (\E x \in S : \A y \in S : x >= y) /\ (\E x \in S : \A y \in S : x <= y)
  <2>1. (\E x : Highest(S, x)) /\ (\E x : Lowest(S, x))
    BY <1>3
  <2>2. PICK h : Highest(S, h)
    BY <2>1
  <2>3. PICK l : Lowest(S, l)
    BY <2>1
  <2>4. \A y \in S : h >= y
    BY <2>2
  <2>. QED
    BY <2>2, <2>3, <2>4
<1>5. /\ Max(S) = CHOOSE x \in S : \A y \in S : x >= y
      /\ Min(S) = CHOOSE x \in S : \A y \in S : x <= y
  BY DEF Max, Min
<1>6. Max(S) \in S /\ \A y \in S : Max(S) >= y
  BY <1>4, <1>5, Zenon
<1>7. Min(S) \in S /\ \A y \in S : Min(S) <= y
  BY <1>4, <1>5, Zenon
<1>8. \A y \in S : y <= Max(S)
  BY <1>6
<1>. QED
  BY <1>6, <1>7, <1>8

\* The prefix sums of the delta array count what is between its two ends.
DeltaAt(T, first, last, b) ==
  Cardinality({s \in T : first[s] = b}) - Cardinality({s \in T : last[s] + 1 = b})

RunStep(run, T, first, last, b) ==
  DeltaAt(T, first, last, b) + (IF b = 0 THEN 0 ELSE run[b - 1])

Runs(run, T, first, last, n) ==
  run = [b \in 0..(n - 1) |-> RunStep(run, T, first, last, b)]

Between(T, first, last, b) == {s \in T : first[s] <= b /\ b <= last[s]}

LEMMA BetweenIs ==
  ASSUME NEW T, IsFiniteSet(T), NEW first \in [T -> Nat], NEW last \in [T -> Nat],
         \A s \in T : first[s] <= last[s], NEW b \in Nat
  PROVE  LET before == Cardinality(Between(T, first, last, b - 1))
         IN  /\ before \in Nat /\ Cardinality(Between(T, first, last, b)) \in Nat
             /\ b = 0 => before = 0
             /\ Cardinality(Between(T, first, last, b)) = before + DeltaAt(T, first, last, b)
<1>. DEFINE old == Between(T, first, last, b - 1)
            new == Between(T, first, last, b)
            come == {s \in T : first[s] = b}
            gone == {s \in T : last[s] + 1 = b}
            stay == old \ gone
<1>1. /\ IsFiniteSet(old) /\ IsFiniteSet(new) /\ IsFiniteSet(come) /\ IsFiniteSet(gone)
      /\ IsFiniteSet(stay)
  <2>1. /\ old \in SUBSET T /\ new \in SUBSET T /\ come \in SUBSET T
        /\ gone \in SUBSET T /\ stay \in SUBSET T
    BY DEF Between
  <2>. HIDE DEF old, new, come, gone, stay
  <2>. QED
    BY <2>1, FS_Subset
<1>2. /\ Cardinality(old) \in Nat /\ Cardinality(new) \in Nat /\ Cardinality(come) \in Nat
      /\ Cardinality(gone) \in Nat /\ Cardinality(stay) \in Nat
  <2>. HIDE DEF old, new, come, gone, stay
  <2>. QED
    BY <1>1, FS_CardinalityType
<1>3. old \cap gone = gone
  BY DEF Between
<1>4. new = stay \cup come /\ stay \cap come = {}
  BY DEF Between
<1>5. b = 0 => old = {}
  BY DEF Between
<1>6. DeltaAt(T, first, last, b) = Cardinality(come) - Cardinality(gone)
  BY DEF DeltaAt
<1>. HIDE DEF old, new, come, gone
<1>7. Cardinality(stay) = Cardinality(old) - Cardinality(gone)
  BY <1>1, <1>3, FS_Difference
<1>. HIDE DEF stay
<1>8. Cardinality(new) = Cardinality(stay) + Cardinality(come) - Cardinality({})
  BY <1>1, <1>4, FS_Union
<1>9. Cardinality({}) = 0
  BY FS_EmptySet
<1>10. Cardinality(new) = Cardinality(old) + DeltaAt(T, first, last, b)
  BY <1>2, <1>6, <1>7, <1>8, <1>9
<1>11. b = 0 => Cardinality(old) = 0
  BY <1>5, <1>9
<1>. QED
  BY <1>2, <1>10, <1>11 DEF old, new

RunsCount(T, first, last, n) ==
  /\ \E run : Runs(run, T, first, last, n)
  /\ \A run : Runs(run, T, first, last, n) =>
       /\ DOMAIN run = 0..(n - 1)
       /\ \A b \in 0..(n - 1) : run[b] = Cardinality(Between(T, first, last, b))

LEMMA RunsAre ==
  ASSUME NEW T, IsFiniteSet(T), NEW first \in [T -> Nat], NEW last \in [T -> Nat],
         \A s \in T : first[s] <= last[s], NEW n \in Nat
  PROVE  RunsCount(T, first, last, n)
<1>. DEFINE count(b) == Cardinality(Between(T, first, last, b))
            delta(b) == DeltaAt(T, first, last, b)
            sums == [b \in 0..(n - 1) |-> count(b)]
<1>1. \A b \in Nat : /\ count(b) \in Nat /\ count(b - 1) \in Nat
                     /\ b = 0 => count(b - 1) = 0
                     /\ count(b) = count(b - 1) + delta(b)
  BY BetweenIs
<1>2. \A b \in Nat : delta(b) \in Int
  <2>1. ASSUME NEW b \in Nat PROVE delta(b) \in Int
    <3>1. \A U \in SUBSET T : Cardinality(U) \in Nat
      BY FS_Subset, FS_CardinalityType
    <3>2. /\ Cardinality({s \in T : first[s] = b}) \in Nat
          /\ Cardinality({s \in T : last[s] + 1 = b}) \in Nat
      BY <3>1
    <3>. QED
      BY <3>2 DEF DeltaAt
  <2>. QED
    BY <2>1
<1>. HIDE DEF count, delta
<1>3. ASSUME NEW b \in 0..(n - 1) PROVE sums[b] = RunStep(sums, T, first, last, b)
  <2>1. RunStep(sums, T, first, last, b) = delta(b) + (IF b = 0 THEN 0 ELSE sums[b - 1])
    BY DEF RunStep, delta
  <2>2. b \in Nat /\ (b # 0 => b - 1 \in 0..(n - 1))
    OBVIOUS
  <2>3. /\ count(b) \in Nat /\ count(b - 1) \in Nat /\ delta(b) \in Int
        /\ b = 0 => count(b - 1) = 0
        /\ count(b) = count(b - 1) + delta(b)
    BY <1>1, <1>2, <2>2
  <2>4. sums[b] = count(b) /\ (b # 0 => sums[b - 1] = count(b - 1))
    BY <2>2
  <2>. HIDE DEF sums
  <2>. QED
    BY <2>1, <2>3, <2>4
<1>4. Runs(sums, T, first, last, n)
  <2>1. sums = [b \in 0..(n - 1) |-> sums[b]]
    OBVIOUS
  <2>. HIDE DEF sums
  <2>. QED
    BY <1>3, <2>1 DEF Runs
<1>5. ASSUME NEW run, Runs(run, T, first, last, n)
      PROVE  /\ DOMAIN run = 0..(n - 1)
             /\ \A b \in 0..(n - 1) : run[b] = count(b)
  <2>1. \A b \in 0..(n - 1) : run[b] = delta(b) + (IF b = 0 THEN 0 ELSE run[b - 1])
    BY <1>5 DEF Runs, RunStep, delta
  <2>. DEFINE X == {b \in Nat : b \in 0..(n - 1) => run[b] = count(b)}
  <2>2. 0 \in X
    <3>1. 0 \in 0..(n - 1) => run[0] = delta(0) + 0
      BY <2>1
    <3>2. /\ count(0) = count(0 - 1) + delta(0) /\ count(0 - 1) = 0 /\ delta(0) \in Int
      BY <1>1, <1>2
    <3>. QED
      BY <3>1, <3>2
  <2>3. ASSUME NEW b \in Nat, b \in X PROVE b + 1 \in X
    <3>. SUFFICES ASSUME b + 1 \in 0..(n - 1) PROVE run[b + 1] = count(b + 1)
      OBVIOUS
    <3>1. b \in 0..(n - 1) /\ b + 1 # 0 /\ (b + 1) - 1 = b
      OBVIOUS
    <3>2. run[b + 1] = delta(b + 1) + run[b]
      BY <2>1, <3>1
    <3>3. run[b] = count(b)
      BY <2>3, <3>1
    <3>4. count(b + 1) = count(b) + delta(b + 1)
      <4>1. count(b + 1) = count((b + 1) - 1) + delta(b + 1)
        BY <1>1
      <4>. QED
        BY <3>1, <4>1
    <3>5. count(b) \in Nat /\ delta(b + 1) \in Int
      BY <1>1, <1>2
    <3>. QED
      BY <3>2, <3>3, <3>4, <3>5
  <2>4. \A b \in Nat : b \in X
    <3>. HIDE DEF X
    <3>. QED
      BY <2>2, <2>3, NatSetInduction
  <2>5. \A b \in 0..(n - 1) : run[b] = count(b)
    BY <2>4
  <2>. QED
    BY <1>5, <2>5 DEF Runs
<1>6. /\ \E run : Runs(run, T, first, last, n)
      /\ \A run : Runs(run, T, first, last, n) =>
           /\ DOMAIN run = 0..(n - 1)
           /\ \A b \in 0..(n - 1) : run[b] = Cardinality(Between(T, first, last, b))
  BY <1>4, <1>5 DEF count
<1>. QED
  BY <1>6, Zenon DEF RunsCount

LEMMA DivIs ==
  ASSUME NEW x \in Nat, NEW d \in 1..3
  PROVE  /\ x \div d \in Nat
         /\ \A b \in Nat : (x \div d <= b <=> x < (b + 1) * d) /\ (b <= x \div d <=> b * d <= x)
<1>1. CASE d = 1
  BY <1>1
<1>2. CASE d = 2
  BY <1>2
<1>3. CASE d = 3
  BY <1>3
<1>. QED
  BY <1>1, <1>2, <1>3

\* The segments that the heatmap shows, and its bins.
Shown(segs) == {s \in segs : s.resource # NoResource /\ s.end > s.start}

StartOf(segs) == Min({s.start : s \in Shown(segs)})

EndOf(segs) == Max({s.end : s \in Shown(segs)})

BinsOf(segs, d) == ((EndOf(segs) - StartOf(segs)) \div d) + 1

LEMMA ShownIs ==
  ASSUME NEW segs, IsTimeline(segs), Shown(segs) # {}, NEW d \in 1..3
  PROVE  /\ IsFiniteSet(Shown(segs))
         /\ StartOf(segs) \in Int /\ EndOf(segs) \in Int
         /\ StartOf(segs) < EndOf(segs)
         /\ \A s \in Shown(segs) :
              /\ s.start \in Int /\ s.end \in Int /\ s.resource \in Nat
              /\ StartOf(segs) <= s.start /\ s.start < s.end /\ s.end <= EndOf(segs)
         /\ BinsOf(segs, d) \in Nat /\ BinsOf(segs, d) >= 1
<1>. DEFINE real == Shown(segs)
            start == [s \in real |-> s.start]
            end == [s \in real |-> s.end]
            starts == {s.start : s \in real}
            ends == {s.end : s \in real}
<1>1. IsFiniteSet(real) /\ real # {}
  BY FS_Subset DEF IsTimeline, Shown
<1>2. \A s \in real : /\ s.start \in Int /\ s.end \in Int /\ s.resource \in Nat
                      /\ s.start < s.end
  BY DEF IsTimeline, Shown
<1>3. starts = {start[s] : s \in real} /\ ends = {end[s] : s \in real}
  OBVIOUS
<1>4. starts \subseteq Int /\ starts # {} /\ ends \subseteq Int /\ ends # {}
  BY <1>1, <1>2
<1>5. IsFiniteSet(starts) /\ IsFiniteSet(ends)
  <2>. HIDE DEF start, end, starts, ends, real
  <2>. QED
    BY <1>1, <1>3, ImageFinite
<1>6. /\ StartOf(segs) \in starts /\ \A y \in starts : StartOf(segs) <= y
      /\ EndOf(segs) \in ends /\ \A y \in ends : y <= EndOf(segs)
  <2>1. StartOf(segs) = Min(starts) /\ EndOf(segs) = Max(ends)
    BY DEF StartOf, EndOf
  <2>. HIDE DEF starts, ends
  <2>. QED
    BY <1>4, <1>5, <2>1, ExtremesIn
<1>7. StartOf(segs) \in Int /\ EndOf(segs) \in Int
  BY <1>4, <1>6
<1>8. \A s \in real : StartOf(segs) <= s.start /\ s.end <= EndOf(segs)
  BY <1>6
<1>9. StartOf(segs) < EndOf(segs)
  <2>1. PICK s \in real : TRUE
    BY <1>1
  <2>2. /\ s.start \in Int /\ s.end \in Int /\ s.start < s.end
        /\ StartOf(segs) <= s.start /\ s.end <= EndOf(segs)
    BY <1>2, <1>8
  <2>. QED
    BY <1>7, <2>2
<1>10. BinsOf(segs, d) \in Nat /\ BinsOf(segs, d) >= 1
  <2>1. EndOf(segs) - StartOf(segs) \in Nat
    BY <1>7, <1>9
  <2>2. (EndOf(segs) - StartOf(segs)) \div d \in Nat
    BY <2>1, DivIs
  <2>. QED
    BY <2>2 DEF BinsOf
<1>. QED
  BY <1>1, <1>2, <1>7, <1>8, <1>9, <1>10

TouchesBin(s, segs, d, b) ==
  s.start < StartOf(segs) + (b + 1) * d /\ s.end > StartOf(segs) + b * d

\* The order of the rows.
MoreSegments(real) ==
  {p \in ResourcesOf(real) \X ResourcesOf(real) :
     LET m == Cardinality(OnResource(real, p[1]))
         n == Cardinality(OnResource(real, p[2]))
     IN  m > n \/ (m = n /\ p[1] < p[2])}

LEMMA RowsRanked ==
  ASSUME NEW segs, IsTimeline(segs), Shown(segs) # {}
  PROVE  LET R == ResourcesOf(Shown(segs))
             Before(q, r) == LET m == Cardinality(OnResource(Shown(segs), q))
                                 n == Cardinality(OnResource(Shown(segs), r))
                             IN  m > n \/ (m = n /\ q < r)
             ranked == [k \in 1..Cardinality(R) |->
                          CHOOSE x \in R : Cardinality({y \in R : Before(y, x)}) = k - 1]
         IN  /\ Cardinality(R) \in Nat
             /\ ranked \in [1..Cardinality(R) -> R] /\ Len(ranked) = Cardinality(R)
<1>. DEFINE real == Shown(segs)
            R == ResourcesOf(real)
            count(r) == Cardinality(OnResource(real, r))
            Before(q, r) == LET m == Cardinality(OnResource(real, q))
                                n == Cardinality(OnResource(real, r))
                            IN  m > n \/ (m = n /\ q < r)
            before(x) == Cardinality({y \in R : Before(y, x)})
            below(x) == Cardinality(Below(MoreSegments(real), R, x))
            ranked == [k \in 1..Cardinality(R) |-> CHOOSE x \in R : before(x) = k - 1]
<1>1. /\ IsFiniteSet(real)
      /\ \A s \in real : s.resource \in Nat
  <2>1. 1 \in 1..3
    OBVIOUS
  <2>. QED
    BY <2>1, ShownIs
<1>2. IsFiniteSet(R) /\ R \subseteq Nat
  <2>. DEFINE resource == [s \in real |-> s.resource]
              V == {s.resource : s \in real}
  <2>1. V = {resource[s] : s \in real} /\ V \subseteq Nat
    BY <1>1
  <2>2. IsFiniteSet(V)
    <3>. HIDE DEF V, resource, real
    <3>. QED
      BY <1>1, <2>1, ImageFinite
  <2>3. R \in SUBSET V
    BY DEF ResourcesOf
  <2>. HIDE DEF V, R
  <2>. QED
    BY <2>1, <2>2, <2>3, FS_Subset
<1>3. \A r : count(r) \in Nat
  <2>1. ASSUME NEW r PROVE count(r) \in Nat
    <3>1. OnResource(real, r) \in SUBSET real
      BY DEF OnResource
    <3>. HIDE DEF real
    <3>. QED
      BY <1>1, <3>1, FS_Subset, FS_CardinalityType
  <2>. QED
    BY <2>1
<1>4. \A x, y \in R : Before(y, x) <=> <<y, x>> \in MoreSegments(real)
  BY DEF MoreSegments
<1>5. TotalOrder(MoreSegments(real), R)
  <2>1. \A x, y \in R : <<x, y>> \in MoreSegments(real)
                          <=> count(x) > count(y) \/ (count(x) = count(y) /\ x < y)
    BY DEF MoreSegments
  <2>2. \A x \in R : x \in Nat /\ count(x) \in Nat
    BY <1>2, <1>3
  <2>. HIDE DEF R, count
  <2>. QED
    BY <2>1, <2>2 DEF TotalOrder
<1>6. ranked = Ranked(R, MoreSegments(real))
  <2>1. ASSUME NEW x \in R PROVE before(x) = below(x)
    <3>1. {y \in R : Before(y, x)} = {y \in R : <<y, x>> \in MoreSegments(real)}
      <4>. HIDE DEF Before, R
      <4>. QED
        BY <1>4, <2>1
    <3>2. {y \in R : Before(y, x)} = Below(MoreSegments(real), R, x)
      BY <3>1, Zenon DEF Below
    <3>. HIDE DEF Before
    <3>. QED
      BY <3>2
  <2>2. ASSUME NEW k
        PROVE  (CHOOSE x \in R : before(x) = k - 1) = (CHOOSE x \in R : below(x) = k - 1)
    <3>. HIDE DEF before, below, R
    <3>. QED
      BY <2>1
  <2>3. ranked = [k \in 1..Cardinality(R) |-> CHOOSE x \in R : below(x) = k - 1]
    <3>. HIDE DEF before, below, R
    <3>. QED
      BY <2>2
  <2>. QED
    BY <2>3 DEF Ranked
<1>7. /\ Cardinality(R) \in Nat
      /\ ranked \in [1..Cardinality(R) -> R] /\ Len(ranked) = Cardinality(R)
  <2>. HIDE DEF ranked, R
  <2>. QED
    BY <1>2, <1>5, <1>6, RankedIs
<1>. QED
  BY <1>7

\* A bin counts the segments that touch it.
LEMMA CountsAre ==
  ASSUME NEW segs, IsTimeline(segs), Shown(segs) # {}, NEW d \in 1..3, NEW r
  PROVE  LET real == Shown(segs)
             minNS == StartOf(segs)
             Begun(b) == {s \in OnResource(real, r) : FirstBin(s, minNS, d) = b}
             Ended(b) == {s \in OnResource(real, r) : LastBin(s, minNS, d) + 1 = b}
             run == CHOOSE run : run = [b \in 0..(BinsOf(segs, d) - 1) |->
                      (Cardinality(Begun(b)) - Cardinality(Ended(b)))
                      + (IF b = 0 THEN 0 ELSE run[b - 1])]
         IN  /\ DOMAIN run = 0..(BinsOf(segs, d) - 1)
             /\ \A b \in 0..(BinsOf(segs, d) - 1) :
                  run[b] = Cardinality({s \in OnResource(real, r) :
                                          TouchesBin(s, segs, d, b)})
<1>. DEFINE T == OnResource(Shown(segs), r)
            minNS == StartOf(segs)
            n == BinsOf(segs, d)
            first == [s \in T |-> FirstBin(s, minNS, d)]
            last == [s \in T |-> LastBin(s, minNS, d)]
            Begun(b) == {s \in T : FirstBin(s, minNS, d) = b}
            Ended(b) == {s \in T : LastBin(s, minNS, d) + 1 = b}
            step(run, b) == (Cardinality(Begun(b)) - Cardinality(Ended(b)))
                            + (IF b = 0 THEN 0 ELSE run[b - 1])
            Solves(run) == run = [b \in 0..(n - 1) |-> step(run, b)]
<1>1. /\ IsFiniteSet(Shown(segs)) /\ minNS \in Int /\ n \in Nat
      /\ \A s \in Shown(segs) : /\ s.start \in Int /\ s.end \in Int
                                /\ minNS <= s.start /\ s.start < s.end
  BY ShownIs
<1>2. /\ IsFiniteSet(T)
      /\ \A s \in T : /\ s.start \in Int /\ s.end \in Int
                      /\ minNS <= s.start /\ s.start < s.end
  BY <1>1, FS_Subset DEF OnResource
<1>. HIDE DEF T, minNS, n
<1>3. ASSUME NEW s \in T
      PROVE  /\ FirstBin(s, minNS, d) \in Nat /\ LastBin(s, minNS, d) \in Nat
             /\ FirstBin(s, minNS, d) <= LastBin(s, minNS, d)
             /\ \A b \in Nat : FirstBin(s, minNS, d) <= b /\ b <= LastBin(s, minNS, d)
                                 <=> s.start < minNS + (b + 1) * d /\ s.end > minNS + b * d
  <2>. DEFINE x == s.start - minNS
              y == s.end - 1 - minNS
  <2>1. s.start \in Int /\ s.end \in Int /\ minNS \in Int /\ d \in Nat
    BY <1>1, <1>2
  <2>2. x \in Nat /\ y \in Nat /\ x <= y
    BY <1>1, <1>2
  <2>3. FirstBin(s, minNS, d) = x \div d /\ LastBin(s, minNS, d) = y \div d
    BY DEF FirstBin, LastBin
  <2>4. /\ x \div d \in Nat /\ y \div d \in Nat
        /\ \A b \in Nat : (x \div d <= b <=> x < (b + 1) * d)
        /\ \A b \in Nat : (b <= y \div d <=> b * d <= y)
        /\ \A b \in Nat : (y \div d <= b <=> y < (b + 1) * d)
    <3>. HIDE DEF x, y
    <3>. QED
      BY <2>2, DivIs
  <2>5. x \div d <= y \div d
    <3>. DEFINE q == y \div d
                p == x \div d
                z == (q + 1) * d
    <3>1. q \in Nat /\ q <= q
      BY <2>4
    <3>2. y < z
      BY <2>4, <3>1
    <3>3. x < z
      <4>1. z \in Int
        BY <2>1, <3>1
      <4>. HIDE DEF x, y, z
      <4>. QED
        BY <2>2, <3>2, <4>1
    <3>. QED
      BY <2>4, <3>1, <3>3
  <2>6. ASSUME NEW b \in Nat
        PROVE  x \div d <= b /\ b <= y \div d
                 <=> s.start < minNS + (b + 1) * d /\ s.end > minNS + b * d
    <3>. DEFINE hi == (b + 1) * d
                lo == b * d
    <3>1. hi \in Int /\ lo \in Int
      BY <2>1
    <3>2. (x \div d <= b <=> x < hi) /\ (b <= y \div d <=> lo <= y)
      BY <2>4
    <3>. HIDE DEF hi, lo
    <3>3. (x < hi <=> s.start < minNS + hi) /\ (lo <= y <=> s.end > minNS + lo)
      BY <2>1, <3>1
    <3>. QED
      BY <3>2, <3>3 DEF hi, lo
  <2>. QED
    BY <2>3, <2>4, <2>5, <2>6
<1>4. /\ first \in [T -> Nat] /\ last \in [T -> Nat]
      /\ \A s \in T : first[s] <= last[s]
  BY <1>3
<1>5. \A b : Begun(b) = {s \in T : first[s] = b} /\ Ended(b) = {s \in T : last[s] + 1 = b}
  OBVIOUS
<1>6. \A run, b : step(run, b) = RunStep(run, T, first, last, b)
  BY <1>5 DEF RunStep, DeltaAt
<1>. HIDE DEF step
<1>7. \A run : Solves(run) <=> Runs(run, T, first, last, n)
  BY <1>6 DEF Runs
<1>8. RunsCount(T, first, last, n)
  <2>1. IsFiniteSet(T) /\ n \in Nat
    BY <1>1, <1>2
  <2>. HIDE DEF first, last
  <2>. QED
    BY <2>1, <1>4, RunsAre
<1>9. ASSUME NEW b \in 0..(n - 1)
      PROVE  Between(T, first, last, b) = {s \in T : TouchesBin(s, segs, d, b)}
  <2>1. b \in Nat
    OBVIOUS
  <2>2. \A s \in T : first[s] <= b /\ b <= last[s] <=> TouchesBin(s, segs, d, b)
    BY <1>3, <2>1 DEF TouchesBin, minNS
  <2>. HIDE DEF first, last
  <2>. QED
    BY <2>2 DEF Between
<1>. DEFINE run == CHOOSE run : Solves(run)
<1>10. Solves(run)
  <2>1. \E f : Runs(f, T, first, last, n)
    <3>. HIDE DEF first, last
    <3>. QED
      BY <1>8, Zenon DEF RunsCount
  <2>2. \E f : Solves(f)
    <3>. HIDE DEF first, last, Solves
    <3>. QED
      BY <1>7, <2>1
  <2>. HIDE DEF Solves
  <2>. QED
    BY <2>2
<1>11. Runs(run, T, first, last, n)
  <2>. HIDE DEF run, Solves
  <2>. QED
    BY <1>7, <1>10
<1>12. /\ DOMAIN run = 0..(n - 1)
       /\ \A b \in 0..(n - 1) : run[b] = Cardinality({s \in T : TouchesBin(s, segs, d, b)})
  <2>1. /\ DOMAIN run = 0..(n - 1)
        /\ \A b \in 0..(n - 1) : run[b] = Cardinality(Between(T, first, last, b))
    <3>. HIDE DEF run, first, last
    <3>. QED
      BY <1>8, <1>11, Zenon DEF RunsCount
  <2>. HIDE DEF run, first, last
  <2>. QED
    BY <1>9, <2>1
<1>. QED
  BY <1>12, Zenon DEF T, minNS, n, step

\* What runs at once is seen by some bin: the one in which the sweep was at its
\* highest.
LEMMA PeakTouches ==
  ASSUME NEW segs, IsTimeline(segs), Shown(segs) # {}, NEW d \in 1..3,
         NEW r, r # NoResource
  PROVE  \E b \in 0..(BinsOf(segs, d) - 1) :
           PeakConcurrent(OnResource(segs, r))
             <= Cardinality({s \in OnResource(Shown(segs), r) : TouchesBin(s, segs, d, b)})
<1>. DEFINE Q == OnResource(segs, r)
            T == OnResource(Shown(segs), r)
            lo == StartOf(segs)
            hi == EndOf(segs)
            n == BinsOf(segs, d)
            begun(t) == {s \in Q : s.start <= t}
            over(t) == {s \in Q : s.end <= t}
            Running(t) == Cardinality(begun(t)) - Cardinality(over(t))
            heights == {Running(s.start) : s \in Q}
            touching(b) == {s \in T : TouchesBin(s, segs, d, b)}
            peak == PeakConcurrent(Q)
<1>1. /\ lo \in Int /\ hi \in Int /\ n \in Nat /\ n >= 1
      /\ n = ((hi - lo) \div d) + 1 /\ lo < hi
      /\ IsFiniteSet(Shown(segs))
      /\ \A s \in Shown(segs) : lo <= s.start /\ s.end <= hi
  BY ShownIs DEF BinsOf
<1>2. /\ IsFiniteSet(Q)
      /\ \A s \in Q : s.start \in Int /\ s.end \in Int /\ s \in segs /\ s.resource = r
  BY FS_Subset DEF IsTimeline, OnResource
<1>3. IsFiniteSet(T)
  <2>1. T \subseteq Shown(segs)
    BY DEF OnResource
  <2>. QED
    BY <1>1, <2>1, FS_Subset
<1>4. \A s \in Q : s.start < s.end => s \in T /\ s \in Shown(segs)
  BY <1>2 DEF OnResource, Shown
<1>5. \A t : /\ IsFiniteSet(begun(t)) /\ IsFiniteSet(over(t))
             /\ Cardinality(begun(t)) \in Nat /\ Cardinality(over(t)) \in Nat
  <2>1. ASSUME NEW t
        PROVE  /\ IsFiniteSet(begun(t)) /\ IsFiniteSet(over(t))
               /\ Cardinality(begun(t)) \in Nat /\ Cardinality(over(t)) \in Nat
    <3>1. begun(t) \subseteq Q /\ over(t) \subseteq Q
      OBVIOUS
    <3>. HIDE DEF Q, begun, over
    <3>. QED
      BY <1>2, <3>1, FS_Subset, FS_CardinalityType
  <2>. QED
    BY <2>1
<1>6. \A b : IsFiniteSet(touching(b)) /\ Cardinality(touching(b)) \in Nat
  <2>1. ASSUME NEW b PROVE IsFiniteSet(touching(b)) /\ Cardinality(touching(b)) \in Nat
    <3>1. touching(b) \subseteq T
      OBVIOUS
    <3>. HIDE DEF T, touching
    <3>. QED
      BY <1>3, <3>1, FS_Subset, FS_CardinalityType
  <2>. QED
    BY <2>1
<1>7. peak \in {0} \cup heights
  <2>. DEFINE height == [s \in Q |-> Running(s.start)]
              all == {0} \cup heights
  <2>. HIDE DEF Q
  <2>1. heights = {height[s] : s \in Q} /\ heights \subseteq Int
    <3>1. \A t : Running(t) \in Int
      <4>. HIDE DEF begun, over
      <4>. QED
        BY <1>5
    <3>. HIDE DEF Running
    <3>. QED
      BY <3>1
  <2>2. IsFiniteSet(heights)
    <3>. HIDE DEF Q, height, heights
    <3>. QED
      BY <1>2, <2>1, ImageFinite
  <2>3. IsFiniteSet(all) /\ all \subseteq Int /\ all # {}
    <3>. HIDE DEF heights
    <3>1. IsFiniteSet({0})
      BY FS_Singleton
    <3>2. IsFiniteSet({0} \cup heights)
      BY <2>2, <3>1, FS_Union
    <3>. QED
      BY <2>1, <3>2
  <2>4. peak = Max(all)
    BY <2>3, Zenon DEF PeakConcurrent, MaxOf
  <2>. HIDE DEF all, peak
  <2>5. peak \in all
    BY <2>3, <2>4, ExtremesIn
  <2>. QED
    BY <2>5 DEF all
<1>. HIDE DEF peak
<1>8. CASE peak <= 0 /\ peak \in Int
  <2>1. 0 \in 0..(n - 1)
    BY <1>1
  <2>2. Cardinality(touching(0)) \in Nat
    BY <1>6
  <2>3. peak <= Cardinality(touching(0))
    <3>. HIDE DEF touching
    <3>. QED
      BY <1>8, <2>2
  <2>. QED
    BY <2>1, <2>3 DEF peak
<1>9. CASE ~(peak <= 0 /\ peak \in Int)
  <2>1. PICK u \in Q : peak = Running(u.start)
    <3>. HIDE DEF Q, Running
    <3>. QED
      BY <1>7, <1>9
  <2>. DEFINE t == u.start
              Z == begun(t) \ over(t)
  <2>2. t \in Int
    BY <1>2
  <2>. HIDE DEF t
  <2>3. peak = Cardinality(begun(t)) - Cardinality(over(t))
    BY <2>1 DEF t
  <2>4. IsFiniteSet(Z) /\ Cardinality(Z) \in Nat /\ peak <= Cardinality(Z)
    <3>1. begun(t) \cap over(t) \subseteq over(t)
      OBVIOUS
    <3>2. /\ IsFiniteSet(begun(t)) /\ IsFiniteSet(over(t))
          /\ Cardinality(begun(t)) \in Nat /\ Cardinality(over(t)) \in Nat
      BY <1>5
    <3>. HIDE DEF begun, over
    <3>3. /\ IsFiniteSet(Z)
          /\ Cardinality(Z) = Cardinality(begun(t)) - Cardinality(begun(t) \cap over(t))
      BY <3>2, FS_Difference
    <3>4. IsFiniteSet(begun(t) \cap over(t))
          /\ Cardinality(begun(t) \cap over(t)) <= Cardinality(over(t))
      BY <3>1, <3>2, FS_Subset
    <3>5. Cardinality(Z) \in Nat /\ Cardinality(begun(t) \cap over(t)) \in Nat
      BY <3>3, <3>4, FS_CardinalityType
    <3>. QED
      BY <2>3, <3>2, <3>3, <3>4, <3>5
  <2>5. \A s \in Z : s \in T /\ s \in Shown(segs) /\ s.start <= t /\ t < s.end
    BY <1>2, <1>4, <2>2
  <2>6. PICK z : z \in Z
    <3>1. CASE Z = {}
      <4>1. Cardinality(Z) = 0
        BY <3>1, FS_EmptySet
      <4>. HIDE DEF Z
      <4>2. peak \in Int
        BY <1>5, <2>3
      <4>. QED
        BY <1>9, <2>4, <4>1, <4>2
    <3>. QED
      BY <3>1
  <2>7. lo <= t /\ t < hi
    <3>1. z.start <= t /\ t < z.end /\ lo <= z.start /\ z.end <= hi
      BY <1>1, <2>5, <2>6
    <3>2. z.start \in Int /\ z.end \in Int
      BY <1>2, <2>6
    <3>. QED
      BY <1>1, <2>2, <3>1, <3>2
  <2>. DEFINE x == t - lo
              y == hi - lo
              b == x \div d
  <2>8. x \in Nat /\ y \in Nat /\ x <= y
    BY <1>1, <2>2, <2>7
  <2>. HIDE DEF x, y
  <2>9. /\ b \in Nat /\ x < (b + 1) * d /\ b * d <= x
    <3>1. /\ x \div d \in Nat
          /\ \A c \in Nat : (x \div d <= c <=> x < (c + 1) * d) /\ (c <= x \div d <=> c * d <= x)
      BY <2>8, DivIs
    <3>. QED
      BY <3>1
  <2>10. b \in 0..(n - 1)
    <3>1. y \div d \in Nat /\ \A c \in Nat : (c <= y \div d <=> c * d <= y)
      BY <2>8, DivIs
    <3>. HIDE DEF b
    <3>2. b * d \in Int
      BY <2>9
    <3>3. b * d <= y
      <4>. DEFINE w == b * d
      <4>. HIDE DEF w
      <4>1. w \in Int /\ w <= x
        BY <2>9, <3>2 DEF w
      <4>2. w <= y
        BY <2>8, <4>1
      <4>. QED
        BY <4>2 DEF w
    <3>4. b <= y \div d
      BY <2>9, <3>1, <3>3
    <3>5. n = (y \div d) + 1
      BY <1>1 DEF y
    <3>. QED
      BY <2>9, <3>1, <3>4, <3>5
  <2>11. Z \subseteq touching(b)
    <3>. HIDE DEF b
    <3>. DEFINE p == (b + 1) * d
                q == b * d
    <3>1. p \in Int /\ q \in Int
      BY <2>9
    <3>2. t - lo < p /\ q <= t - lo
      BY <2>9 DEF x
    <3>. HIDE DEF p, q
    <3>3. ASSUME NEW s \in Z
          PROVE  s.start < lo + p /\ s.end > lo + q
      <4>1. s.start \in Int /\ s.end \in Int /\ s.start <= t /\ t < s.end
        BY <1>2, <2>5
      <4>. QED
        BY <1>1, <2>2, <3>1, <3>2, <4>1
    <3>4. \A s \in Z : TouchesBin(s, segs, d, b)
      BY <3>3 DEF TouchesBin, p, q
    <3>. QED
      BY <2>5, <3>4
  <2>12. Cardinality(Z) <= Cardinality(touching(b))
    <3>1. IsFiniteSet(touching(b))
      BY <1>6
    <3>. HIDE DEF Z, touching, b
    <3>. QED
      BY <2>11, <3>1, FS_Subset
  <2>13. peak <= Cardinality(touching(b))
    <3>1. Cardinality(touching(b)) \in Nat
      BY <1>6
    <3>2. peak \in Int
      BY <1>5, <2>3
    <3>. HIDE DEF Z, touching, b
    <3>. QED
      BY <2>4, <2>12, <3>1, <3>2
  <2>. QED
    BY <2>10, <2>13 DEF peak
<1>. QED
  BY <1>8, <1>9

RowIs(row, segs, d) ==
  /\ row.resource \in ResourcesOf(Shown(segs))
  /\ DOMAIN row.counts = 0..(BinsOf(segs, d) - 1)
  /\ \A b \in DOMAIN row.counts :
       row.counts[b] = Cardinality({s \in OnResource(Shown(segs), row.resource) :
                                      TouchesBin(s, segs, d, b)})

HeatmapOf(heatmap, segs, d) ==
  /\ heatmap.start = StartOf(segs)
  /\ \A k \in DOMAIN heatmap.rows : RowIs(heatmap.rows[k], segs, d)

LEMMA HeatmapIs ==
  ASSUME NEW segs, IsTimeline(segs), Shown(segs) # {}, NEW d \in 1..3, NEW limit \in {0, 1}
  PROVE  HeatmapOf(ContentionHeatmap(segs, d, limit), segs, d)
<1>. DEFINE real == Shown(segs)
            minNS == StartOf(segs)
            R == ResourcesOf(real)
            Begun(r, b) == {s \in OnResource(real, r) : FirstBin(s, minNS, d) = b}
            Ended(r, b) == {s \in OnResource(real, r) : LastBin(s, minNS, d) + 1 = b}
            Counts(r) == LET run[b \in 0..(BinsOf(segs, d) - 1)] ==
                               (Cardinality(Begun(r, b)) - Cardinality(Ended(r, b)))
                               + (IF b = 0 THEN 0 ELSE run[b - 1])
                         IN  run
            Before(q, r) == LET m == Cardinality(OnResource(real, q))
                                n == Cardinality(OnResource(real, r))
                            IN  m > n \/ (m = n /\ q < r)
            ranked == [k \in 1..Cardinality(R) |->
                         CHOOSE x \in R : Cardinality({y \in R : Before(y, x)}) = k - 1]
            shown == IF limit > 0 THEN Keep(ranked, limit) ELSE ranked
            rows == [k \in DOMAIN shown |->
                       [resource |-> shown[k], counts |-> Counts(shown[k])]]
<1>1. ~(d <= 0)
  OBVIOUS
<1>2. ContentionHeatmap(segs, d, limit) = [start |-> minNS, rows |-> rows]
  BY <1>1, Zenon DEF ContentionHeatmap, Shown, StartOf, EndOf, BinsOf, InOrder
<1>3. /\ Cardinality(R) \in Nat
      /\ ranked \in [1..Cardinality(R) -> R] /\ Len(ranked) = Cardinality(R)
  BY RowsRanked, Zenon
<1>4. ASSUME NEW r
      PROVE  /\ DOMAIN Counts(r) = 0..(BinsOf(segs, d) - 1)
             /\ \A b \in 0..(BinsOf(segs, d) - 1) :
                  Counts(r)[b] = Cardinality({s \in OnResource(real, r) :
                                                TouchesBin(s, segs, d, b)})
  BY CountsAre, Zenon
<1>. HIDE DEF Counts, ranked, R
<1>5. \A k \in DOMAIN shown : shown[k] \in R
  <2>1. CASE limit > 0
    <3>1. shown = Keep(ranked, limit)
      BY <2>1
    <3>. DEFINE n == Cardinality(R)
                m == IF limit < n THEN limit ELSE n
    <3>2. shown = SubSeq(ranked, 1, m)
      BY <1>3, <3>1 DEF Keep
    <3>. HIDE DEF shown, n
    <3>3. n \in Nat /\ ranked \in [1..n -> R] /\ m \in Nat /\ m <= n
      BY <1>3 DEF n
    <3>. HIDE DEF m
    <3>4. DOMAIN SubSeq(ranked, 1, m) = 1..m /\ \A k \in 1..m : SubSeq(ranked, 1, m)[k] = ranked[k]
      BY <3>3
    <3>. QED
      BY <3>2, <3>3, <3>4
  <2>2. CASE ~(limit > 0)
    BY <1>3, <2>2
  <2>. QED
    BY <2>1, <2>2
<1>. HIDE DEF shown
<1>6. /\ DOMAIN rows = DOMAIN shown
      /\ \A k \in DOMAIN shown : /\ rows[k].resource = shown[k]
                                 /\ rows[k].counts = Counts(shown[k])
  OBVIOUS
<1>. HIDE DEF rows
<1>7. ASSUME NEW k \in DOMAIN rows PROVE RowIs(rows[k], segs, d)
  <2>. DEFINE r == shown[k]
  <2>1. rows[k].resource = r /\ rows[k].counts = Counts(r) /\ r \in R
    BY <1>5, <1>6
  <2>. HIDE DEF r
  <2>2. /\ DOMAIN rows[k].counts = 0..(BinsOf(segs, d) - 1)
        /\ \A b \in 0..(BinsOf(segs, d) - 1) :
             rows[k].counts[b] = Cardinality({s \in OnResource(real, r) :
                                                TouchesBin(s, segs, d, b)})
    BY <1>4, <2>1, Zenon
  <2>3. rows[k].resource \in R
    BY <2>1
  <2>. QED
    BY <2>1, <2>2, <2>3, Zenon DEF RowIs, R
<1>8. /\ ContentionHeatmap(segs, d, limit).start = minNS
      /\ ContentionHeatmap(segs, d, limit).rows = rows
  BY <1>2
<1>. QED
  BY <1>7, <1>8, Zenon DEF HeatmapOf

ShowsPeak(heatmap, contention, segs, d) ==
  \A k \in DOMAIN heatmap.rows :
    LET row == heatmap.rows[k]
        long == {s \in OnResource(segs, row.resource) : s.end > s.start}
        From(b) == heatmap.start + b * d
        RunAt(t) == {s \in long : s.start <= t /\ t < s.end}
        Later(b) == {s \in long : From(b) < s.start /\ s.start < From(b + 1)}
    IN  /\ \A b \in DOMAIN row.counts :
             row.counts[b] = Cardinality(RunAt(From(b)) \cup Later(b))
        /\ \E c \in contention :
             c.resource = row.resource
               /\ \E b \in DOMAIN row.counts : row.counts[b] >= c.peak

LEMMA HeatmapAnswered ==
  ASSUME NEW segs, IsTimeline(segs), NEW d \in 0..3, NEW limit \in {0, 1},
         Heatmap(segs, d, limit)
  PROVE  HeatmapShowsPeak'
<1>. DEFINE heatmap == ContentionHeatmap(segs, d, limit)
            contention == ComputeResourceContention(segs)
<1>1. /\ job'.segs = segs /\ job'.contention = contention
      /\ job'.resolution = d /\ job'.heatmap = heatmap
  <2>. HIDE DEF heatmap, contention
  <2>1. job' = [kind |-> "heatmap", segs |-> segs, contention |-> contention,
                resolution |-> d, heatmap |-> heatmap]
    BY Zenon DEF Heatmap, heatmap, contention
  <2>. QED
    BY <2>1
<1>. SUFFICES ShowsPeak(heatmap, contention, segs, d)
  <2>1. ShowsPeak(job'.heatmap, job'.contention, job'.segs, job'.resolution) => HeatmapShowsPeak'
    BY Zenon DEF ShowsPeak, HeatmapShowsPeak
  <2>. HIDE DEF heatmap, contention
  <2>. QED
    BY <1>1, <2>1
<1>2. CASE d <= 0 \/ Shown(segs) = {}
  <2>1. heatmap = [start |-> 0, rows |-> <<>>]
    BY <1>2, Zenon DEF ContentionHeatmap, Shown
  <2>. HIDE DEF heatmap
  <2>2. DOMAIN heatmap.rows = {}
    BY <2>1
  <2>. QED
    BY <2>2, Zenon DEF ShowsPeak
<1>3. CASE ~(d <= 0) /\ Shown(segs) # {}
  <2>. DEFINE real == Shown(segs)
              touching(r, b) == {s \in OnResource(real, r) : TouchesBin(s, segs, d, b)}
  <2>1. d \in 1..3
    BY <1>3
  <2>2. HeatmapOf(heatmap, segs, d)
    BY <1>3, <2>1, HeatmapIs, Zenon
  <2>. HIDE DEF heatmap
  <2>. SUFFICES ASSUME NEW k \in DOMAIN heatmap.rows
       PROVE  LET row == heatmap.rows[k]
                  long == {s \in OnResource(segs, row.resource) : s.end > s.start}
                  From(b) == heatmap.start + b * d
                  RunAt(t) == {s \in long : s.start <= t /\ t < s.end}
                  Later(b) == {s \in long : From(b) < s.start /\ s.start < From(b + 1)}
              IN  /\ \A b \in DOMAIN row.counts :
                       row.counts[b] = Cardinality(RunAt(From(b)) \cup Later(b))
                  /\ \E c \in contention :
                       c.resource = row.resource
                         /\ \E b \in DOMAIN row.counts : row.counts[b] >= c.peak
    BY Zenon DEF ShowsPeak
  <2>. DEFINE row == heatmap.rows[k]
              r == row.resource
              long == {s \in OnResource(segs, r) : s.end > s.start}
              From(b) == heatmap.start + b * d
              RunAt(t) == {s \in long : s.start <= t /\ t < s.end}
              Later(b) == {s \in long : From(b) < s.start /\ s.start < From(b + 1)}
  <2>3. RowIs(row, segs, d) /\ heatmap.start = StartOf(segs)
    BY <2>2, Zenon DEF HeatmapOf
  <2>. HIDE DEF row
  <2>4. r \in ResourcesOf(segs) /\ r # NoResource
    BY <2>3 DEF RowIs, ResourcesOf, Shown
  <2>. HIDE DEF r
  <2>5. long = OnResource(real, r)
    BY <2>4 DEF OnResource, Shown
  <2>6. ASSUME NEW b \in Nat PROVE RunAt(From(b)) \cup Later(b) = touching(r, b)
    <3>1. /\ \A s \in real : s.start \in Int /\ s.end \in Int /\ s.start < s.end
          /\ StartOf(segs) \in Int
      BY <1>3, <2>1, ShownIs
    <3>2. b * d \in Int /\ (b + 1) * d = b * d + d /\ d > 0
      <4>1. CASE d = 1  BY <4>1
      <4>2. CASE d = 2  BY <4>2
      <4>3. CASE d = 3  BY <4>3
      <4>. QED          BY <2>1, <4>1, <4>2, <4>3
    <3>3. From(b) \in Int /\ From(b + 1) \in Int /\ From(b) < From(b + 1)
      BY <2>1, <2>3, <3>1, <3>2
    <3>4. \A s \in real : TouchesBin(s, segs, d, b) <=> s.start < From(b + 1) /\ s.end > From(b)
      BY <2>3 DEF TouchesBin
    <3>. HIDE DEF From, real
    <3>5. \A s \in long : TouchesBin(s, segs, d, b) <=>
             (s.start <= From(b) /\ From(b) < s.end)
               \/ (From(b) < s.start /\ s.start < From(b + 1))
      BY <2>5, <3>1, <3>3, <3>4 DEF OnResource
    <3>. QED
      BY <2>5, <3>5
  <2>7. \A b \in DOMAIN row.counts : row.counts[b] = Cardinality(touching(r, b))
    BY <2>3, Zenon DEF RowIs, r
  <2>. HIDE DEF long, From, RunAt, Later, touching
  <2>8. \A b \in DOMAIN row.counts :
          row.counts[b] = Cardinality(RunAt(From(b)) \cup Later(b))
    <3>1. DOMAIN row.counts \subseteq Nat
      BY <2>3 DEF RowIs
    <3>. QED
      BY <2>6, <2>7, <3>1
  <2>. DEFINE peak == PeakConcurrent(OnResource(segs, r))
  <2>9. \E b \in DOMAIN row.counts : row.counts[b] >= peak
    <3>1. PICK b \in 0..(BinsOf(segs, d) - 1) : peak <= Cardinality(touching(r, b))
      BY <1>3, <2>1, <2>4, PeakTouches, Zenon DEF touching
    <3>2. DOMAIN row.counts = 0..(BinsOf(segs, d) - 1)
      BY <2>3, Zenon DEF RowIs
    <3>3. row.counts[b] = Cardinality(touching(r, b))
      BY <2>7, <3>2
    <3>. HIDE DEF peak
    <3>. QED
      BY <3>1, <3>2, <3>3
  <2>10. \E c \in contention : c.resource = r /\ c.peak = peak
    <3>. DEFINE count == Cardinality(OnResource(segs, r))
                wait == Total(OnResource(segs, r), Duration)
                c == [resource |-> r, peak |-> peak, count |-> count, totalWait |-> wait]
    <3>1. c \in contention
      BY <2>4, Zenon DEF ComputeResourceContention
    <3>2. c.resource = r /\ c.peak = peak
      <4>. HIDE DEF peak, count, wait
      <4>. QED
        OBVIOUS
    <3>. HIDE DEF c, contention, peak
    <3>. QED
      BY <3>1, <3>2
  <2>. HIDE DEF contention, peak
  <2>11. \E c \in contention :
           c.resource = r /\ \E b \in DOMAIN row.counts : row.counts[b] >= c.peak
    BY <2>9, <2>10
  <2>. QED
    BY <2>8, <2>11, Zenon DEF row, r, long, From, RunAt, Later
<1>. QED
  BY <1>2, <1>3

\* However many segments, over whatever time: a bin counts what runs when it starts
\* and what starts later in it, and the peak of a resource with a row is in that row.
THEOREM PeaksAreShown == Spec => []HeatmapShowsPeak
<1>1. Init => HeatmapShowsPeak
  BY DEF Init, Idle, HeatmapShowsPeak, Is
<1>2. HeatmapShowsPeak /\ [Next]_vars => HeatmapShowsPeak'
  <2>. SUFFICES ASSUME HeatmapShowsPeak, Requests PROVE HeatmapShowsPeak'
    BY NextAnswers
  <2>1. ASSUME NEW segs \in Timelines, NEW resolution \in 0..3, NEW limit \in {0, 1},
               Heatmap(segs, resolution, limit)
        PROVE  HeatmapShowsPeak'
    BY <2>1, HeatmapAnswered, InputAssumption
  <2>2. CASE job'.kind # "heatmap"
    BY <2>2, Zenon DEF HeatmapShowsPeak, Is
  <2>3. CASE job' = job
    <3>. DEFINE shown(j) == ShowsPeak(j.heatmap, j.contention, j.segs, j.resolution)
    <3>1. HeatmapShowsPeak => (job.kind = "heatmap" => shown(job))
      BY Zenon DEF HeatmapShowsPeak, Is, ShowsPeak
    <3>2. (job'.kind = "heatmap" => shown(job')) => HeatmapShowsPeak'
      BY Zenon DEF HeatmapShowsPeak, Is, ShowsPeak
    <3>. HIDE DEF shown
    <3>. QED
      BY <2>3, <3>1, <3>2, Zenon
  <2>. QED
    BY <2>1, <2>2, <2>3, KindOf DEF Requests
<1>. QED
  BY <1>1, <1>2, PTL DEF Spec

-----------------------------------------------------------------------------
(* Long waits *)

\* The order of the groups.
LargerThan(S) ==
  {p \in S \X S : LET m == Cardinality(p[1].goroutines)
                      n == Cardinality(p[2].goroutines)
                  IN  m > n \/ (m = n /\ p[1].key < p[2].key)}

\* Every goroutine is in one group, and every group in one place.
LEMMA GroupsAre ==
  ASSUME NEW gs, NEW ids, IsFiniteSet(ids),
         \A i \in ids : GroupKey(gs[i], "function") \in Nat
  PROVE  LET groups == GroupGoroutines(gs, ids, {}, "function")
             n == Cardinality(GroupsOf(gs, ids))
         IN  /\ n \in Nat /\ DOMAIN groups = 1..n /\ Len(groups) = n
             /\ \A k \in 1..n : groups[k].goroutines \subseteq ids
             /\ \A i \in ids : \E k \in 1..n : i \in groups[k].goroutines
             /\ \A i \in ids : \A j, k \in 1..n :
                  i \in groups[j].goroutines /\ i \in groups[k].goroutines => j = k
<1>. DEFINE S == GroupsOf(gs, ids)
            n == Cardinality(S)
            groups == GroupGoroutines(gs, ids, {}, "function")
            key(i) == GroupKey(gs[i], "function")
            members(c) == {i \in ids : key(i) = c}
            Before(a, b) == LET p == Cardinality(a.goroutines)
                                q == Cardinality(b.goroutines)
                            IN  p > q \/ (p = q /\ a.key < b.key)
            before(x) == Cardinality({y \in S : Before(y, x)})
            below(x) == Cardinality(Below(LargerThan(S), S, x))
<1>1. /\ IsFiniteSet(S)
      /\ groups = [k \in 1..n |-> CHOOSE x \in S : before(x) = k - 1]
  BY GroupsListed, Zenon
<1>2. \A c : GroupOf(gs, ids, c).key = c /\ GroupOf(gs, ids, c).goroutines = members(c)
  BY DEF GroupOf
<1>3. /\ \A i \in ids : GroupOf(gs, ids, key(i)) \in S
      /\ \A x \in S : \E i \in ids : x = GroupOf(gs, ids, key(i))
  BY DEF GroupsOf
<1>. HIDE DEF S, groups
<1>4. /\ \A x \in S : x.key \in Nat /\ x.goroutines = members(x.key)
      /\ \A x, y \in S : x.key = y.key => x = y
  <2>. HIDE DEF members
  <2>. QED
    BY <1>2, <1>3
<1>5. ASSUME NEW x \in S PROVE Cardinality(x.goroutines) \in Nat
  <2>1. members(x.key) \in SUBSET ids
    OBVIOUS
  <2>2. Cardinality(members(x.key)) \in Nat
    <3>. HIDE DEF members
    <3>. QED
      BY <2>1, FS_Subset, FS_CardinalityType
  <2>. QED
    BY <1>4, <2>2
<1>6. \A x, y \in S : Before(y, x) <=> <<y, x>> \in LargerThan(S)
  BY DEF LargerThan
<1>7. TotalOrder(LargerThan(S), S)
  <2>. DEFINE size(x) == Cardinality(x.goroutines)
  <2>1. \A x, y \in S : <<x, y>> \in LargerThan(S)
                          <=> size(x) > size(y) \/ (size(x) = size(y) /\ x.key < y.key)
    BY DEF LargerThan
  <2>2. \A x \in S : size(x) \in Nat /\ x.key \in Nat
    BY <1>4, <1>5
  <2>3. \A x, y \in S : x.key = y.key => x = y
    BY <1>4
  <2>. HIDE DEF size
  <2>. QED
    BY <2>1, <2>2, <2>3 DEF TotalOrder
<1>8. groups = Ranked(S, LargerThan(S))
  <2>1. ASSUME NEW x \in S PROVE before(x) = below(x)
    <3>1. {y \in S : Before(y, x)} = {y \in S : <<y, x>> \in LargerThan(S)}
      <4>. HIDE DEF Before
      <4>. QED
        BY <1>6, <2>1
    <3>2. {y \in S : Before(y, x)} = Below(LargerThan(S), S, x)
      BY <3>1, Zenon DEF Below
    <3>. HIDE DEF Before
    <3>. QED
      BY <3>2
  <2>2. ASSUME NEW k
        PROVE  (CHOOSE x \in S : before(x) = k - 1) = (CHOOSE x \in S : below(x) = k - 1)
    <3>. HIDE DEF before, below
    <3>. QED
      BY <2>1
  <2>3. groups = [k \in 1..n |-> CHOOSE x \in S : below(x) = k - 1]
    <3>. HIDE DEF before, below, n
    <3>. QED
      BY <1>1, <2>2
  <2>. QED
    BY <2>3 DEF Ranked
<1>9. /\ n \in Nat /\ groups \in [1..n -> S] /\ Len(groups) = n
      /\ \A j, k \in 1..n : j < k => <<groups[j], groups[k]>> \in LargerThan(S)
      /\ \A x \in S : \E k \in 1..n : groups[k] = x
  <2>. DEFINE r == Ranked(S, LargerThan(S))
  <2>1. IsFiniteSet(S)
    BY <1>1
  <2>2. /\ Cardinality(S) \in Nat /\ r \in [1..Cardinality(S) -> S]
        /\ Len(r) = Cardinality(S)
        /\ \A j, k \in 1..Cardinality(S) : j < k => <<r[j], r[k]>> \in LargerThan(S)
        /\ \A x \in S : \E k \in 1..Cardinality(S) : r[k] = x
    BY <1>7, <2>1, RankedIs
  <2>3. groups = r
    BY <1>8
  <2>. HIDE DEF r
  <2>. QED
    BY <2>2, <2>3
<1>. HIDE DEF n
<1>10. \A k \in 1..n : groups[k] \in S
  BY <1>9
<1>11. \A k \in 1..n : groups[k].goroutines \subseteq ids
  BY <1>4, <1>10
<1>12. ASSUME NEW i \in ids PROVE \E k \in 1..n : i \in groups[k].goroutines
  <2>1. PICK k \in 1..n : groups[k] = GroupOf(gs, ids, key(i))
    BY <1>3, <1>9
  <2>2. i \in groups[k].goroutines
    BY <1>2, <2>1
  <2>. QED
    BY <2>2
<1>13. ASSUME NEW i \in ids, NEW j \in 1..n, NEW k \in 1..n,
              i \in groups[j].goroutines, i \in groups[k].goroutines
       PROVE  j = k
  <2>1. groups[j].key = key(i) /\ groups[k].key = key(i)
    BY <1>4, <1>10, <1>13
  <2>2. groups[j] = groups[k]
    <3>. HIDE DEF key
    <3>. QED
      BY <1>4, <1>10, <2>1
  <2>3. <<groups[k], groups[k]>> \notin LargerThan(S)
    BY <1>7, <1>10 DEF TotalOrder
  <2>4. ~(j < k) /\ ~(k < j)
    BY <1>9, <2>2, <2>3
  <2>. QED
    BY <1>9, <2>4
<1>. QED
  BY <1>9, <1>11, <1>12, <1>13 DEF n, S, groups

\* Of the IDs in ascending order, either all are kept or as many as are asked for.
LEMMA KeptAscending ==
  ASSUME NEW S, S \subseteq Nat, IsFiniteSet(S), NEW m \in Nat
  PROVE  LET kept == ToSet(Keep(Ascending(S), m))
         IN  kept \subseteq S /\ (kept = S \/ Cardinality(kept) = m)
<1>. DEFINE s == Ascending(S)
            n == Cardinality(S)
            max == IF m < n THEN m ELSE n
            kept == ToSet(Keep(s, m))
<1>1. /\ n \in Nat /\ s \in Seq(S) /\ Len(s) = n /\ DOMAIN s = 1..n
      /\ \A j, k \in 1..n : j < k => s[j] < s[k]
      /\ \A x \in S : \E k \in 1..n : s[k] = x
  BY AscendingIs
<1>2. Keep(s, m) = SubSeq(s, 1, max)
  BY <1>1 DEF Keep
<1>. HIDE DEF s, n
<1>3. max \in Nat /\ max <= n /\ (max = m \/ max = n)
  BY <1>1
<1>. HIDE DEF max
<1>4. kept = {s[k] : k \in 1..max}
  <2>1. DOMAIN SubSeq(s, 1, max) = 1..max /\ \A k \in 1..max : SubSeq(s, 1, max)[k] = s[k]
    BY <1>1, <1>3
  <2>. QED
    BY <1>2, <2>1 DEF ToSet
<1>. HIDE DEF kept
<1>5. 1..max \subseteq 1..n /\ \A k \in 1..n : s[k] \in S
  BY <1>1, <1>3
<1>6. kept \subseteq S
  BY <1>4, <1>5
<1>7. max = n => kept = S
  BY <1>1, <1>4, <1>6
<1>8. Cardinality(kept) = max
  <2>. DEFINE f == [k \in 1..max |-> s[k]]
  <2>1. \A j, k \in 1..max : s[j] = s[k] => j = k
    <3>. SUFFICES ASSUME NEW j \in 1..max, NEW k \in 1..max, s[j] = s[k] PROVE j = k
      OBVIOUS
    <3>1. s[j] \in Nat /\ s[k] \in Nat
      BY <1>5
    <3>2. ~(j < k) /\ ~(k < j)
      BY <1>1, <1>5, <3>1
    <3>. QED
      BY <1>3, <3>2
  <2>2. f \in Surjection(1..max, kept)
    BY <1>4 DEF Surjection
  <2>3. f \in Injection(1..max, kept)
    BY <1>4, <2>1 DEF Injection, IsInjective
  <2>4. IsFiniteSet(1..max) /\ Cardinality(1..max) = max
    BY <1>3, FS_Interval
  <2>5. Cardinality(kept) = Cardinality(1..max)
    <3>. HIDE DEF f
    <3>. QED
      BY <2>2, <2>3, <2>4, FS_Surjection
  <2>. QED
    BY <2>4, <2>5
<1>9. kept \subseteq S /\ (kept = S \/ Cardinality(kept) = m)
  BY <1>3, <1>6, <1>7, <1>8
<1>. QED
  BY <1>9 DEF kept, s

\* The leaks name every goroutine that leaked once, unless the list is full, and
\* no other.
LEMMA LeakNamed ==
  ASSUME NEW gs, IsList(gs), IsGrouped(gs)
  PROVE  LET ids == LeakCandidates(gs, LeakNS)
             leaks == LeakInsights(gs, LeakNS)
         IN  /\ \A x \in leaks : x.goroutines \subseteq ids
             /\ \A i \in ids : \/ \E x \in leaks : {y \in leaks : i \in y.goroutines} = {x}
                               \/ /\ {y \in leaks : i \in y.goroutines} = {}
                                  /\ Cardinality(leaks) = MaxEntries
<1>. DEFINE ids == LeakCandidates(gs, LeakNS)
            groups == GroupGoroutines(gs, ids, {}, "function")
            n == Cardinality(GroupsOf(gs, ids))
            D == DOMAIN Keep(groups, MaxEntries)
            x(k) == Insight(Leak, k - 1, "critical", 90 - 3 * (k - 1),
                            groups[k].goroutines, {})
            leaks == LeakInsights(gs, LeakNS)
<1>1. IsFiniteSet(ids) /\ ids \subseteq DOMAIN gs
  <2>1. ids \subseteq DOMAIN gs
    BY DEF LeakCandidates
  <2>. QED
    BY <2>1, FS_Subset DEF IsList
<1>2. leaks = {x(k) : k \in D}
  BY DEF LeakInsights
<1>3. /\ n \in Nat /\ DOMAIN groups = 1..n /\ Len(groups) = n
      /\ \A k \in 1..n : groups[k].goroutines \subseteq ids
      /\ \A i \in ids : \E k \in 1..n : i \in groups[k].goroutines
      /\ \A i \in ids : \A j, k \in 1..n :
           i \in groups[j].goroutines /\ i \in groups[k].goroutines => j = k
  <2>1. \A i \in ids : GroupKey(gs[i], "function") \in Nat
    BY <1>1 DEF IsGrouped
  <2>. HIDE DEF ids
  <2>. QED
    BY <1>1, <2>1, GroupsAre
<1>4. D = 1..(IF 5 < n THEN 5 ELSE n)
  BY <1>3 DEF Keep, MaxEntries
<1>5. \A k : x(k).goroutines = groups[k].goroutines /\ x(k).id[2] = k - 1
  BY DEF Insight
<1>. HIDE DEF ids, groups, n, D, leaks, x
<1>6. D \subseteq 1..n
  BY <1>3, <1>4
<1>7. \A y \in leaks : y.goroutines \subseteq ids
  BY <1>2, <1>3, <1>5, <1>6
<1>8. ASSUME NEW i \in ids
      PROVE  \/ \E y \in leaks : {z \in leaks : i \in z.goroutines} = {y}
             \/ /\ {y \in leaks : i \in y.goroutines} = {}
                /\ Cardinality(leaks) = MaxEntries
  <2>1. PICK k \in 1..n : i \in groups[k].goroutines
    BY <1>3
  <2>2. \A j \in D : i \in x(j).goroutines => j = k
    BY <1>3, <1>5, <1>6, <2>1
  <2>3. CASE k \in D
    <3>1. x(k) \in leaks /\ i \in x(k).goroutines
      BY <1>2, <1>5, <2>1, <2>3
    <3>2. {z \in leaks : i \in z.goroutines} = {x(k)}
      BY <1>2, <2>2, <3>1
    <3>. QED
      BY <3>1, <3>2
  <2>4. CASE k \notin D
    <3>1. {y \in leaks : i \in y.goroutines} = {}
      BY <1>2, <2>2, <2>4
    <3>2. D = 1..5
      BY <1>3, <1>4, <2>1, <2>4
    <3>. DEFINE f == [j \in D |-> x(j)]
    <3>3. \A j, l \in D : x(j) = x(l) => j = l
      <4>. SUFFICES ASSUME NEW j \in D, NEW l \in D, x(j) = x(l) PROVE j = l
        OBVIOUS
      <4>1. j - 1 = l - 1
        BY <1>5
      <4>. QED
        BY <3>2, <4>1
    <3>4. f \in Surjection(D, leaks) /\ f \in Injection(D, leaks)
      BY <1>2, <3>3 DEF Injection, Surjection, IsInjective
    <3>5. IsFiniteSet(D) /\ Cardinality(D) = 5
      <4>1. \A m \in Nat : IsFiniteSet(1..m) /\ Cardinality(1..m) = m
        BY FS_Interval
      <4>. QED
        BY <3>2, <4>1
    <3>6. Cardinality(leaks) = Cardinality(D)
      <4>. HIDE DEF f
      <4>. QED
        BY <3>4, <3>5, FS_Surjection
    <3>. QED
      BY <3>1, <3>5, <3>6 DEF MaxEntries
  <2>. QED
    BY <2>3, <2>4
<1>. QED
  BY <1>7, <1>8 DEF ids, leaks

\* Long blocking names what has blocked long and not leaked, unless it is full.
LEMMA BlockingNamed ==
  ASSUME NEW gs, IsList(gs)
  PROVE  LET long == {i \in DOMAIN gs : gs[i].wait < LeakNS /\ IsBlockedState(gs[i].state)
                                        /\ gs[i].wait >= BlockNS}
             blocks == BlockingInsights(gs, BlockNS, LeakNS)
         IN  /\ \A x \in blocks : x.goroutines \subseteq long
             /\ \A i \in long : \/ \E x \in blocks : {y \in blocks : i \in y.goroutines} = {x}
                                \/ /\ {y \in blocks : i \in y.goroutines} = {}
                                   /\ \E x \in blocks : Cardinality(x.goroutines) = MaxReported
<1>. DEFINE long == {i \in DOMAIN gs : gs[i].wait < LeakNS /\ IsBlockedState(gs[i].state)
                                       /\ gs[i].wait >= BlockNS}
            blocks == BlockingInsights(gs, BlockNS, LeakNS)
            kept == ToSet(Keep(Ascending(long), MaxReported))
            score == IF Cardinality(long) > ManyBlocked THEN 70 ELSE 60
            x == Insight(Blocking, 0, "warning", score, kept, {})
<1>1. /\ long = {} => blocks = {}
      /\ long # {} => blocks = {x}
  BY Zenon DEF BlockingInsights
<1>2. x.goroutines = kept
  <2>. HIDE DEF kept, score
  <2>. QED
    BY DEF Insight
<1>3. IsFiniteSet(long) /\ long \subseteq Nat
  <2>1. long \in SUBSET (DOMAIN gs)
    OBVIOUS
  <2>. HIDE DEF long
  <2>. QED
    BY <2>1, FS_Subset DEF IsList
<1>. HIDE DEF long
<1>4. kept \subseteq long /\ (kept = long \/ Cardinality(kept) = MaxReported)
  BY <1>3, KeptAscending, InputAssumption
<1>. HIDE DEF kept, x, blocks
<1>5. \A y \in blocks : y = x /\ y.goroutines \subseteq long
  BY <1>1, <1>2, <1>4
<1>6. ASSUME NEW i \in long
      PROVE  \/ \E y \in blocks : {z \in blocks : i \in z.goroutines} = {y}
             \/ /\ {y \in blocks : i \in y.goroutines} = {}
                /\ \E y \in blocks : Cardinality(y.goroutines) = MaxReported
  <2>1. blocks = {x}
    BY <1>1
  <2>2. CASE i \in kept
    BY <1>2, <2>1, <2>2
  <2>3. CASE i \notin kept
    BY <1>2, <1>4, <2>1, <2>3
  <2>. QED
    BY <2>2, <2>3
<1>. QED
  BY <1>5, <1>6 DEF long, blocks

NamesOnce(gs, insights) ==
  LET all == {insights[k] : k \in DOMAIN insights}
      OfKind(kind) == {x \in all : x.id[1] = kind}
      Naming(i) == {x \in OfKind(Leak) \cup OfKind(Blocking) : i \in x.goroutines}
      full == \/ Cardinality(OfKind(Leak)) = MaxEntries
              \/ \E x \in OfKind(Blocking) : Cardinality(x.goroutines) = MaxReported
  IN  \A i \in DOMAIN gs :
        IsBlockedOrWaiting(gs[i].state) /\ gs[i].wait >= BlockNS =>
          Cardinality(Naming(i)) = 1 \/ (Naming(i) = {} /\ full)

LEMMA InsightsName ==
  ASSUME NEW gs, IsList(gs), IsGrouped(gs), NEW segs, IsTimeline(segs),
         NEW edges \in Seq(EdgeType), NEW minPeak, NEW minCount
  PROVE  NamesOnce(gs, GenerateInsights(gs, segs, edges, minPeak, minCount))
<1>. DEFINE s == GenerateInsights(gs, segs, edges, minPeak, minCount)
            all == {s[k] : k \in DOMAIN s}
            OfKind(kind) == {x \in all : x.id[1] = kind}
            Naming(i) == {x \in OfKind(Leak) \cup OfKind(Blocking) : i \in x.goroutines}
            full == \/ Cardinality(OfKind(Leak)) = MaxEntries
                    \/ \E x \in OfKind(Blocking) : Cardinality(x.goroutines) = MaxReported
            ids == LeakCandidates(gs, LeakNS)
            leaks == LeakInsights(gs, LeakNS)
            long == {i \in DOMAIN gs : gs[i].wait < LeakNS /\ IsBlockedState(gs[i].state)
                                       /\ gs[i].wait >= BlockNS}
            blocks == BlockingInsights(gs, BlockNS, LeakNS)
<1>1. OfKind(Leak) = leaks /\ OfKind(Blocking) = blocks
  <2>. DEFINE S1 == DeadlockInsights(edges, gs)
              S3 == ContentionInsights(segs, minPeak)
              S5 == GoroutineCountInsight(gs, minCount)
  <2>1. all = S1 \cup leaks \cup S3 \cup blocks \cup S5
    <3>1. Listed(s) = AllInsights(gs, segs, edges, minPeak, minCount)
      BY InsightsRanked
    <3>2. all = Listed(s)
      BY Zenon DEF Listed
    <3>3. AllInsights(gs, segs, edges, minPeak, minCount)
            = S1 \cup leaks \cup S3 \cup blocks \cup S5
      BY Zenon DEF AllInsights
    <3>. HIDE DEF all, s, S1, leaks, S3, blocks, S5
    <3>. QED
      BY <3>1, <3>2, <3>3
  <2>2. /\ OneKind(S1, 3) /\ OneKind(leaks, 5) /\ OneKind(S3, 2) /\ OneKind(blocks, 1)
        /\ OneKind(S5, 4)
    BY DeadlockGraded, LeaksGraded, ContentionGraded, BlockingGraded, CountGraded
       DEF Deadlock, Leak, Contention, Blocking, Count
  <2>. HIDE DEF S1, S3, S5, leaks, blocks, all
  <2>3. /\ \A x \in S1 : x.id[1] = 3
        /\ \A x \in leaks : x.id[1] = 5
        /\ \A x \in S3 : x.id[1] = 2
        /\ \A x \in blocks : x.id[1] = 1
        /\ \A x \in S5 : x.id[1] = 4
    BY <2>2 DEF OneKind
  <2>. QED
    BY <2>1, <2>3 DEF Leak, Blocking
<1>2. /\ \A x \in leaks : x.goroutines \subseteq ids
      /\ \A i \in ids : \/ \E x \in leaks : {y \in leaks : i \in y.goroutines} = {x}
                        \/ /\ {y \in leaks : i \in y.goroutines} = {}
                           /\ Cardinality(leaks) = MaxEntries
  BY LeakNamed, Zenon
<1>3. /\ \A x \in blocks : x.goroutines \subseteq long
      /\ \A i \in long : \/ \E x \in blocks : {y \in blocks : i \in y.goroutines} = {x}
                         \/ /\ {y \in blocks : i \in y.goroutines} = {}
                            /\ \E x \in blocks : Cardinality(x.goroutines) = MaxReported
  BY BlockingNamed, Zenon
<1>4. \A i \in ids : i \in DOMAIN gs /\ gs[i].wait >= LeakNS
  BY DEF LeakCandidates, LeakNS
<1>5. ids \cap long = {}
  <2>1. \A i \in DOMAIN gs : gs[i].wait \in Int
    BY DEF IsList
  <2>2. \A i \in long : i \in DOMAIN gs /\ gs[i].wait < LeakNS
    OBVIOUS
  <2>. HIDE DEF ids, long
  <2>. QED
    BY <1>4, <2>1, <2>2 DEF LeakNS
<1>6. ASSUME NEW i \in DOMAIN gs, IsBlockedOrWaiting(gs[i].state), gs[i].wait >= BlockNS
      PROVE  i \in ids \/ i \in long
  <2>1. gs[i].wait \in Int
    BY DEF IsList
  <2>. QED
    BY <1>6, <2>1
       DEF IsBlockedOrWaiting, IsBlockedState, LeakCandidates, LeakNS, BlockNS
<1>. HIDE DEF all, ids, long, leaks, blocks
<1>7. ASSUME NEW i \in ids \cup long
      PROVE  Cardinality(Naming(i)) = 1 \/ (Naming(i) = {} /\ full)
  <2>. DEFINE L == {y \in leaks : i \in y.goroutines}
              B == {y \in blocks : i \in y.goroutines}
  <2>1. Naming(i) = L \cup B
    BY <1>1
  <2>. HIDE DEF OfKind
  <2>2. CASE i \in ids
    <3>1. B = {}
      BY <1>3, <1>5, <2>2
    <3>2. CASE \E x \in leaks : L = {x}
      <4>1. PICK x : Naming(i) = {x}
        BY <2>1, <3>1, <3>2
      <4>. HIDE DEF Naming
      <4>. QED
        BY <4>1, FS_Singleton
    <3>3. CASE L = {} /\ Cardinality(leaks) = MaxEntries
      BY <1>1, <2>1, <3>1, <3>3
    <3>. QED
      BY <1>2, <2>2, <3>2, <3>3
  <2>3. CASE i \in long
    <3>1. L = {}
      BY <1>2, <1>5, <2>3
    <3>2. CASE \E x \in blocks : B = {x}
      <4>1. PICK x : Naming(i) = {x}
        BY <2>1, <3>1, <3>2
      <4>. HIDE DEF Naming
      <4>. QED
        BY <4>1, FS_Singleton
    <3>3. CASE B = {} /\ \E x \in blocks : Cardinality(x.goroutines) = MaxReported
      BY <1>1, <2>1, <3>1, <3>3
    <3>. QED
      BY <1>3, <2>3, <3>2, <3>3
  <2>. QED
    BY <2>2, <2>3
<1>8. ASSUME NEW i \in DOMAIN gs, IsBlockedOrWaiting(gs[i].state), gs[i].wait >= BlockNS
      PROVE  Cardinality(Naming(i)) = 1 \/ (Naming(i) = {} /\ full)
  <2>1. i \in ids \cup long
    BY <1>6, <1>8
  <2>. HIDE DEF Naming, full
  <2>. QED
    BY <1>7, <2>1
<1>. QED
  BY <1>8, Zenon DEF NamesOnce, all

LEMMA InsightsNamed ==
  ASSUME NEW read \in Readings, Insights(read)
  PROVE  LongWaitsOnce'
<1>1. PICK order \in ResourceOrders(read.gs) :
        job' = [kind |-> "insights", gs |-> read.gs,
                insights |-> GenerateInsights(read.gs, read.segs,
                               EdgesFor(read.gs, read.graph, order), MinPeak, MinCount)]
  BY Zenon DEF Insights
<1>. DEFINE edges == EdgesFor(read.gs, read.graph, order)
            s == GenerateInsights(read.gs, read.segs, edges, MinPeak, MinCount)
<1>2. /\ IsList(read.gs) /\ IsGrouped(read.gs)
      /\ IsTimeline(read.segs) /\ IsGraph(read.graph)
  BY InputAssumption
<1>3. edges \in Seq(EdgeType)
  BY <1>2, EdgesType
<1>. HIDE DEF edges
<1>4. NamesOnce(read.gs, s)
  BY <1>2, <1>3, InsightsName
<1>5. job'.gs = read.gs /\ job'.insights = s
  BY <1>1 DEF edges
<1>6. NamesOnce(job'.gs, job'.insights) => LongWaitsOnce'
  BY Zenon DEF NamesOnce, LongWaitsOnce
<1>. HIDE DEF s
<1>. QED
  BY <1>4, <1>5, <1>6

\* However many goroutines, at however many places: who has waited long is named
\* once, as a leak or as long blocking, unless the insight that should is full.
THEOREM LongWaitsAreNamed == Spec => []LongWaitsOnce
<1>1. Init => LongWaitsOnce
  BY DEF Init, Idle, LongWaitsOnce, Is
<1>2. LongWaitsOnce /\ [Next]_vars => LongWaitsOnce'
  <2>. SUFFICES ASSUME LongWaitsOnce, Requests PROVE LongWaitsOnce'
    BY NextAnswers
  <2>1. ASSUME NEW read \in Readings, Insights(read) PROVE LongWaitsOnce'
    BY <2>1, InsightsNamed
  <2>2. CASE job'.kind # "insights"
    BY <2>2, Zenon DEF LongWaitsOnce, Is
  <2>3. CASE job' = job
    BY <2>3, Zenon DEF LongWaitsOnce, Is
  <2>. QED
    BY <2>1, <2>2, <2>3, KindOf DEF Requests
<1>. QED
  BY <1>1, <1>2, PTL DEF Spec

-----------------------------------------------------------------------------
(* Reading a dump *)

\* What the parser holds.
Places == STRING \cup {"creator"}
ReadFrame == [func : STRING \ {""}, addr : Nat, file : Places]
ReadCall == [func : STRING \cup {""}, addr : Nat]
Snap == [id : Nat, parent : Nat, state : {ClassifyState(says) : says \in STRING},
         resource : {<<>>} \cup {ExtractResourceID(fs) : fs \in Seq(ReadFrame)},
         frames : Seq(ReadFrame)]
ParserState == [current : {<<>>} \cup {<<b>> : b \in Snap}, pending : ReadCall,
                results : Seq(Snap)]

\* What the printer prints.
Lines ==
  [kind : {"header"}, id : Nat, says : STRING]
  \cup [kind : {"malformed", "blank"}]
  \cup [kind : {"func"}, func : STRING \ {""}, addr : Nat]
  \cup [kind : {"place"}, file : Places]
  \cup [kind : {"created"}, parent : Nat]

Between0(results) == [current |-> <<>>, pending |-> NoCall, results |-> results]
Inside(b, call, results) == [current |-> <<b>>, pending |-> call, results |-> results]

LEMMA ParserStates ==
  /\ \A r \in Seq(Snap) : Between0(r) \in ParserState
  /\ \A b \in Snap, call \in ReadCall, r \in Seq(Snap) : Inside(b, call, r) \in ParserState
  /\ \A st \in ParserState :
       \/ /\ st.current = <<>> /\ st.pending \in ReadCall /\ st.results \in Seq(Snap)
       \/ \E b \in Snap, call \in ReadCall, r \in Seq(Snap) : st = Inside(b, call, r)
  /\ NoCall \in ReadCall
<1>1. NoCall \in ReadCall
  BY DEF NoCall, ReadCall
<1>2. \A r \in Seq(Snap) : Between0(r) \in ParserState
  BY <1>1 DEF Between0, ParserState
<1>3. \A b \in Snap, call \in ReadCall, r \in Seq(Snap) : Inside(b, call, r) \in ParserState
  BY DEF Inside, ParserState
<1>4. ASSUME NEW st \in ParserState
      PROVE  \/ /\ st.current = <<>> /\ st.pending \in ReadCall /\ st.results \in Seq(Snap)
             \/ \E b \in Snap, call \in ReadCall, r \in Seq(Snap) : st = Inside(b, call, r)
  <2>1. /\ st = [current |-> st.current, pending |-> st.pending, results |-> st.results]
        /\ st.current \in {<<>>} \cup {<<b>> : b \in Snap}
        /\ st.pending \in ReadCall /\ st.results \in Seq(Snap)
    BY DEF ParserState
  <2>2. CASE st.current = <<>>
    BY <2>1, <2>2
  <2>3. CASE st.current # <<>>
    <3>1. PICK b \in Snap : st.current = <<b>>
      BY <2>1, <2>3
    <3>2. st = Inside(b, st.pending, st.results)
      BY <2>1, <3>1 DEF Inside
    <3>. QED
      BY <2>1, <3>2
  <2>. QED
    BY <2>2, <2>3
<1>. QED
  BY <1>1, <1>2, <1>3, <1>4

Closed0(b) == [b EXCEPT !.resource = ExtractResourceID(b.frames)]

LEMMA Flushes ==
  /\ \A st \in ParserState :
       st.current = <<>> => Flush(st) = Between0(st.results)
  /\ \A b \in Snap, call \in ReadCall, r \in Seq(Snap) :
       /\ Closed0(b) \in Snap
       /\ Flush(Inside(b, call, r)) = Between0(Append(r, Closed0(b)))
<1>1. ASSUME NEW st \in ParserState, st.current = <<>>
      PROVE  Flush(st) = Between0(st.results)
  <2>1. st.results \in Seq(Snap)
    BY DEF ParserState
  <2>2. [k \in DOMAIN st.current |->
           [st.current[k] EXCEPT !.resource = ExtractResourceID(st.current[k].frames)]] = <<>>
    BY <1>1
  <2>3. st.results \o <<>> = st.results
    BY <2>1
  <2>. QED
    BY <2>2, <2>3 DEF Flush, Between0
<1>2. ASSUME NEW b \in Snap, NEW call \in ReadCall, NEW r \in Seq(Snap)
      PROVE  /\ Closed0(b) \in Snap
             /\ Flush(Inside(b, call, r)) = Between0(Append(r, Closed0(b)))
  <2>1. Closed0(b) \in Snap
    BY DEF Closed0, Snap
  <2>. DEFINE st == Inside(b, call, r)
              done == [k \in DOMAIN st.current |->
                         [st.current[k] EXCEPT
                            !.resource = ExtractResourceID(st.current[k].frames)]]
  <2>2. st.current = <<b>> /\ st.results = r
    BY DEF Inside
  <2>3. done = <<Closed0(b)>>
    <3>1. DOMAIN st.current = 1..1 /\ st.current[1] = b
      BY <2>2
    <3>2. done = [k \in 1..1 |-> Closed0(b)]
      <4>. HIDE DEF st
      <4>. QED
        BY <3>1 DEF Closed0
    <3>3. [k \in 1..1 |-> Closed0(b)] = <<Closed0(b)>>
      OBVIOUS
    <3>. QED
      BY <3>2, <3>3
  <2>4. r \o <<Closed0(b)>> = Append(r, Closed0(b))
    BY <2>1
  <2>5. Flush(st) = [current |-> <<>>, pending |-> NoCall, results |-> st.results \o done]
    BY DEF Flush
  <2>. HIDE DEF st, done
  <2>6. Flush(st) = Between0(Append(r, Closed0(b)))
    BY <2>2, <2>3, <2>4, <2>5 DEF Between0
  <2>. QED
    BY <2>1, <2>6 DEF st
<1>. QED
  BY <1>1, <1>2

Opened(id, says) == [id |-> id, parent |-> 0, state |-> ClassifyState(says),
                     resource |-> <<>>, frames |-> <<>>]

\* What each line does, and that the parser's state stays one.
LEMMA ReadEnds ==
  ASSUME NEW st \in ParserState, NEW line, line.kind \in {"blank", "malformed"}
  PROVE  ReadLine(st, line) = Flush(st)
BY DEF ReadLine

LEMMA ReadHeader ==
  ASSUME NEW st \in ParserState, NEW line \in Lines, line.kind = "header"
  PROVE  /\ Opened(line.id, line.says) \in Snap
         /\ ReadLine(st, line) = Inside(Opened(line.id, line.says), NoCall, Flush(st).results)
<1>1. line.id \in Nat /\ line.says \in STRING
  BY DEF Lines
<1>2. Opened(line.id, line.says) \in Snap
  <2>1. <<>> \in Seq(ReadFrame)
    OBVIOUS
  <2>. QED
    BY <1>1, <2>1 DEF Opened, Snap
<1>3. ReadLine(st, line) = [Flush(st) EXCEPT !.current = <<Opened(line.id, line.says)>>]
  BY DEF ReadLine, Opened
<1>4. [Flush(st) EXCEPT !.current = <<Opened(line.id, line.says)>>]
      = Inside(Opened(line.id, line.says), NoCall, Flush(st).results)
  <2>. DEFINE o == Opened(line.id, line.says)
  <2>1. PICK r : Flush(st) = Between0(r)
    BY DEF Flush, Between0
  <2>. HIDE DEF o
  <2>2. [Between0(r) EXCEPT !.current = <<o>>] = Inside(o, NoCall, Between0(r).results)
    BY DEF Between0, Inside
  <2>. QED
    BY <2>1, <2>2 DEF o
<1>. QED
  BY <1>2, <1>3, <1>4

LEMMA ReadOutside ==
  ASSUME NEW st \in ParserState, st.current = <<>>,
         NEW line, line.kind \in {"func", "place", "created"}
  PROVE  ReadLine(st, line) = st
BY DEF ReadLine

LEMMA ReadInside ==
  ASSUME NEW b \in Snap, NEW call \in ReadCall, NEW r \in Seq(Snap), NEW line \in Lines
  PROVE  /\ line.kind = "func" =>
              /\ [func |-> line.func, addr |-> line.addr] \in ReadCall
              /\ ReadLine(Inside(b, call, r), line)
                   = Inside(b, [func |-> line.func, addr |-> line.addr], r)
         /\ line.kind = "created" =>
              /\ [b EXCEPT !.parent = IF line.parent > 0 THEN line.parent ELSE @] \in Snap
              /\ ReadLine(Inside(b, call, r), line)
                   = Inside([b EXCEPT !.parent = IF line.parent > 0 THEN line.parent ELSE @],
                            NoCall, r)
         /\ line.kind = "place" /\ call.func = "" =>
              ReadLine(Inside(b, call, r), line) = Inside(b, call, r)
         /\ line.kind = "place" /\ call.func # "" =>
              LET frame == [func |-> call.func, addr |-> call.addr, file |-> line.file]
              IN  /\ [b EXCEPT !.frames = Append(@, frame)] \in Snap
                  /\ ReadLine(Inside(b, call, r), line)
                       = Inside([b EXCEPT !.frames = Append(@, frame)], NoCall, r)
<1>. DEFINE st == Inside(b, call, r)
<1>1. st.current = <<b>> /\ st.pending = call /\ st.results = r /\ <<b>> # <<>>
  BY DEF Inside
<1>2. line.kind \in {"func", "place", "created"} => ReadLine(st, line) = ReadInBlock(st, line)
  <2>. HIDE DEF st
  <2>. QED
    BY <1>1 DEF ReadLine
<1>3. ASSUME line.kind = "func"
      PROVE  /\ [func |-> line.func, addr |-> line.addr] \in ReadCall
             /\ ReadLine(st, line) = Inside(b, [func |-> line.func, addr |-> line.addr], r)
  <2>1. line.func \in STRING /\ line.addr \in Nat
    BY <1>3 DEF Lines
  <2>2. ReadInBlock(st, line)
        = [st EXCEPT !.pending = [func |-> line.func, addr |-> line.addr]]
    BY <1>3 DEF ReadInBlock
  <2>. QED
    BY <1>2, <1>3, <2>1, <2>2 DEF ReadCall, Inside
<1>4. ASSUME line.kind = "created"
      PROVE  /\ [b EXCEPT !.parent = IF line.parent > 0 THEN line.parent ELSE @] \in Snap
             /\ ReadLine(st, line)
                  = Inside([b EXCEPT !.parent = IF line.parent > 0 THEN line.parent ELSE @],
                           NoCall, r)
  <2>. DEFINE c == [b EXCEPT !.parent = IF line.parent > 0 THEN line.parent ELSE @]
  <2>1. line.parent \in Nat
    BY <1>4 DEF Lines
  <2>2. c \in Snap
    BY <2>1 DEF Snap
  <2>3. ReadInBlock(st, line)
        = [st EXCEPT !.pending = NoCall,
                     !.current[1].parent = IF line.parent > 0 THEN line.parent ELSE @]
    BY <1>4 DEF ReadInBlock
  <2>4. [st EXCEPT !.pending = NoCall,
                   !.current[1].parent = IF line.parent > 0 THEN line.parent ELSE @]
        = Inside(c, NoCall, r)
    <3>. DEFINE x == IF line.parent > 0 THEN line.parent ELSE b.parent
    <3>1. [st EXCEPT !.pending = NoCall,
                     !.current[1].parent = IF line.parent > 0 THEN line.parent ELSE @]
          = [st EXCEPT !.pending = NoCall, !.current[1].parent = x]
      BY <1>1
    <3>2. [b EXCEPT !.parent = IF line.parent > 0 THEN line.parent ELSE @]
          = [b EXCEPT !.parent = x]
      OBVIOUS
    <3>. HIDE DEF x
    <3>3. [<<b>> EXCEPT ![1].parent = x] = <<[b EXCEPT !.parent = x]>>
      OBVIOUS
    <3>4. [st EXCEPT !.pending = NoCall, !.current[1].parent = x]
          = Inside([b EXCEPT !.parent = x], NoCall, r)
      <4>1. [Inside(b, call, r) EXCEPT !.pending = NoCall, !.current[1].parent = x]
            = [Inside(b, call, r) EXCEPT !.pending = NoCall,
                                         !.current = <<[b EXCEPT !.parent = x]>>]
        BY <3>3 DEF Inside
      <4>2. [Inside(b, call, r) EXCEPT !.pending = NoCall,
                                       !.current = <<[b EXCEPT !.parent = x]>>]
            = Inside([b EXCEPT !.parent = x], NoCall, r)
        <5>. DEFINE y == [b EXCEPT !.parent = x]
        <5>. HIDE DEF y
        <5>1. [Inside(b, call, r) EXCEPT !.pending = NoCall, !.current = <<y>>]
              = [[Inside(b, call, r) EXCEPT !.pending = NoCall] EXCEPT !.current = <<y>>]
          BY DEF Inside
        <5>2. [Inside(b, call, r) EXCEPT !.pending = NoCall] = Inside(b, NoCall, r)
          BY DEF Inside
        <5>3. [Inside(b, NoCall, r) EXCEPT !.current = <<y>>] = Inside(y, NoCall, r)
          BY DEF Inside
        <5>. QED
          BY <5>1, <5>2, <5>3 DEF y
      <4>. QED
        BY <4>1, <4>2
    <3>. QED
      BY <3>1, <3>2, <3>4
  <2>. QED
    BY <1>2, <1>4, <2>2, <2>3, <2>4
<1>5. ASSUME line.kind = "place", call.func = ""
      PROVE  ReadLine(st, line) = st
  <2>1. ReadInBlock(st, line) = st
    <3>. HIDE DEF st
    <3>. QED
      BY <1>1, <1>5 DEF ReadInBlock
  <2>. QED
    BY <1>2, <1>5, <2>1
<1>6. ASSUME line.kind = "place", call.func # ""
      PROVE  LET frame == [func |-> call.func, addr |-> call.addr, file |-> line.file]
             IN  /\ [b EXCEPT !.frames = Append(@, frame)] \in Snap
                 /\ ReadLine(st, line)
                      = Inside([b EXCEPT !.frames = Append(@, frame)], NoCall, r)
  <2>. DEFINE frame == [func |-> call.func, addr |-> call.addr, file |-> line.file]
              c == [b EXCEPT !.frames = Append(@, frame)]
  <2>1. line.file \in Places /\ frame \in ReadFrame
    BY <1>6 DEF Lines, Places, ReadCall, ReadFrame
  <2>2. c \in Snap
    <3>1. b.frames \in Seq(ReadFrame)
      BY DEF Snap
    <3>. HIDE DEF frame
    <3>2. Append(b.frames, frame) \in Seq(ReadFrame)
      BY <2>1, <3>1
    <3>. QED
      BY <3>2 DEF Snap
  <2>3. ReadInBlock(st, line)
        = [st EXCEPT !.pending = NoCall,
                     !.current[1].frames =
                        Append(@, [func |-> st.pending.func, addr |-> st.pending.addr,
                                   file |-> line.file])]
    <3>. HIDE DEF st
    <3>. QED
      BY <1>1, <1>6 DEF ReadInBlock
  <2>4. [st EXCEPT !.pending = NoCall,
                   !.current[1].frames =
                     Append(@, [func |-> st.pending.func, addr |-> st.pending.addr,
                                file |-> line.file])]
        = Inside(c, NoCall, r)
    <3>. DEFINE x == Append(b.frames, frame)
    <3>1. [st EXCEPT !.pending = NoCall,
                     !.current[1].frames =
                       Append(@, [func |-> st.pending.func, addr |-> st.pending.addr,
                                  file |-> line.file])]
          = [st EXCEPT !.pending = NoCall, !.current[1].frames = x]
      BY <1>1
    <3>2. c = [b EXCEPT !.frames = x]
      OBVIOUS
    <3>. HIDE DEF x
    <3>3. [<<b>> EXCEPT ![1].frames = x] = <<[b EXCEPT !.frames = x]>>
      OBVIOUS
    <3>4. [st EXCEPT !.pending = NoCall, !.current[1].frames = x]
          = Inside([b EXCEPT !.frames = x], NoCall, r)
      <4>1. [Inside(b, call, r) EXCEPT !.pending = NoCall, !.current[1].frames = x]
            = [Inside(b, call, r) EXCEPT !.pending = NoCall,
                                         !.current = <<[b EXCEPT !.frames = x]>>]
        BY <3>3 DEF Inside
      <4>2. [Inside(b, call, r) EXCEPT !.pending = NoCall,
                                       !.current = <<[b EXCEPT !.frames = x]>>]
            = Inside([b EXCEPT !.frames = x], NoCall, r)
        <5>. DEFINE y == [b EXCEPT !.frames = x]
        <5>. HIDE DEF y
        <5>1. [Inside(b, call, r) EXCEPT !.pending = NoCall, !.current = <<y>>]
              = [[Inside(b, call, r) EXCEPT !.pending = NoCall] EXCEPT !.current = <<y>>]
          BY DEF Inside
        <5>2. [Inside(b, call, r) EXCEPT !.pending = NoCall] = Inside(b, NoCall, r)
          BY DEF Inside
        <5>3. [Inside(b, NoCall, r) EXCEPT !.current = <<y>>] = Inside(y, NoCall, r)
          BY DEF Inside
        <5>. QED
          BY <5>1, <5>2, <5>3 DEF y
      <4>. QED
        BY <4>1, <4>2
    <3>. QED
      BY <3>1, <3>2, <3>4
  <2>. QED
    BY <1>2, <1>6, <2>2, <2>3, <2>4
<1>. QED
  BY <1>3, <1>4, <1>5, <1>6

-----------------------------------------------------------------------------
(* Reading several lines *)

LEMMA ReadTyped ==
  ASSUME NEW st \in ParserState, NEW line \in Lines
  PROVE  ReadLine(st, line) \in ParserState
<1>1. line.kind \in {"header", "malformed", "blank", "func", "place", "created"}
  BY DEF Lines
<1>2. Flush(st) \in ParserState /\ Flush(st).results \in Seq(Snap)
  <2>1. CASE st.current = <<>>
    <3>1. st.results \in Seq(Snap)
      BY DEF ParserState
    <3>2. Flush(st) = Between0(st.results)
      BY <2>1, Flushes
    <3>. QED
      BY <3>1, <3>2, ParserStates DEF Between0
  <2>2. ASSUME NEW b \in Snap, NEW call \in ReadCall, NEW r \in Seq(Snap),
               st = Inside(b, call, r)
        PROVE  Flush(st) \in ParserState /\ Flush(st).results \in Seq(Snap)
    <3>1. Flush(st) = Between0(Append(r, Closed0(b))) /\ Closed0(b) \in Snap
      BY <2>2, Flushes
    <3>2. Append(r, Closed0(b)) \in Seq(Snap)
      <4>. DEFINE c == Closed0(b)
      <4>. HIDE DEF c
      <4>1. c \in Snap => Append(r, c) \in Seq(Snap)
        OBVIOUS
      <4>. QED
        BY <3>1, <4>1 DEF c
    <3>3. Between0(Append(r, Closed0(b))).results = Append(r, Closed0(b))
      BY DEF Between0
    <3>. QED
      BY <3>1, <3>2, <3>3, ParserStates
  <2>. QED
    BY <2>1, <2>2, ParserStates
<1>3. CASE line.kind \in {"malformed", "blank"}
  BY <1>2, <1>3, ReadEnds
<1>4. CASE line.kind = "header"
  BY <1>2, <1>4, ReadHeader, ParserStates
<1>5. CASE line.kind \in {"func", "place", "created"} /\ st.current = <<>>
  BY <1>5, ReadOutside
<1>6. ASSUME line.kind \in {"func", "place", "created"},
             NEW b \in Snap, NEW call \in ReadCall, NEW r \in Seq(Snap), st = Inside(b, call, r)
      PROVE  ReadLine(st, line) \in ParserState
  <2>1. CASE line.kind = "func"
    <3>. DEFINE next == [func |-> line.func, addr |-> line.addr]
    <3>1. next \in ReadCall /\ ReadLine(st, line) = Inside(b, next, r)
      BY <1>6, <2>1, ReadInside
    <3>. HIDE DEF next
    <3>. QED
      BY <3>1, ParserStates
  <2>2. CASE line.kind = "created"
    <3>. DEFINE c == [b EXCEPT !.parent = IF line.parent > 0 THEN line.parent ELSE @]
    <3>1. c \in Snap /\ ReadLine(st, line) = Inside(c, NoCall, r)
      BY <1>6, <2>2, ReadInside
    <3>. HIDE DEF c
    <3>. QED
      BY <3>1, ParserStates
  <2>3. CASE line.kind = "place" /\ call.func = ""
    <3>1. ReadLine(Inside(b, call, r), line) = Inside(b, call, r)
      BY <2>3, ReadInside
    <3>. QED
      BY <1>6, <3>1, ParserStates
  <2>4. CASE line.kind = "place" /\ call.func # ""
    <3>. DEFINE frame == [func |-> call.func, addr |-> call.addr, file |-> line.file]
                c == [b EXCEPT !.frames = Append(@, frame)]
    <3>1. c \in Snap /\ ReadLine(st, line) = Inside(c, NoCall, r)
      BY <1>6, <2>4, ReadInside
    <3>. HIDE DEF c
    <3>. QED
      BY <3>1, ParserStates
  <2>. QED
    BY <1>6, <2>1, <2>2, <2>3, <2>4
<1>. QED
  BY <1>1, <1>3, <1>4, <1>5, <1>6, ParserStates

ReadStep == [p \in ParserState \X Lines |-> ReadLine(p[1], p[2])]

From(st, lines) == Folded(ReadStep, st, lines)

LEMMA StepReads ==
  ASSUME NEW st \in ParserState, NEW line \in Lines
  PROVE  ReadStep[<<st, line>>] = ReadLine(st, line) /\ ReadStep[<<st, line>>] \in ParserState
BY ReadTyped DEF ReadStep

LEMMA FromType ==
  ASSUME NEW st \in ParserState, NEW lines \in Seq(Lines)
  PROVE  From(st, lines) \in ParserState
<1>1. \A a \in ParserState, e \in Lines : ReadStep[<<a, e>>] \in ParserState
  BY StepReads
<1>. QED
  BY <1>1, FoldedType DEF From

LEMMA FromEmpty ==
  ASSUME NEW st
  PROVE  From(st, <<>>) = st
BY FoldedEmpty DEF From

LEMMA FromAppend ==
  ASSUME NEW st \in ParserState, NEW lines \in Seq(Lines), NEW line \in Lines
  PROVE  From(st, Append(lines, line)) = ReadLine(From(st, lines), line)
<1>1. From(st, lines) \in ParserState
  BY FromType
<1>2. From(st, Append(lines, line)) = ReadStep[<<From(st, lines), line>>]
  BY FoldedAppend DEF From
<1>. QED
  BY <1>1, <1>2, StepReads

LEMMA FromOne ==
  ASSUME NEW st \in ParserState, NEW line \in Lines
  PROVE  From(st, <<line>>) = ReadLine(st, line) /\ <<line>> \in Seq(Lines)
<1>1. <<line>> = Append(<<>>, line) /\ <<>> \in Seq(Lines) /\ <<line>> \in Seq(Lines)
  OBVIOUS
<1>2. From(st, Append(<<>>, line)) = ReadLine(From(st, <<>>), line)
  BY <1>1, FromAppend
<1>. QED
  BY <1>1, <1>2, FromEmpty

LEMMA FromJoin ==
  ASSUME NEW st, NEW a \in Seq(Lines), NEW b \in Seq(Lines)
  PROVE  From(st, a \o b) = From(From(st, a), b) /\ a \o b \in Seq(Lines)
BY FoldedConcat DEF From

\* The fold of the code is this fold.
LEMMA ParseIs ==
  ASSUME NEW lines \in Seq(Lines)
  PROVE  ParseGoroutineDump(lines) = Flush(From(Start, lines)).results
<1>. DEFINE ReadOne(it, s) ==
              IF s = {} THEN Start ELSE ReadLine(it[s \ {Max(s)}], lines[Max(s)])
            Solves(it) == it = [s \in SUBSET DOMAIN lines |-> ReadOne(it, s)]
<1>1. FoldLeft(ReadLine, Start, lines) = (CHOOSE it : Solves(it))[DOMAIN lines]
  BY DEF FoldLeft, MapThenFoldSet
<1>2. Start \in ParserState
  <2>1. Start = Between0(<<>>) /\ <<>> \in Seq(Snap)
    BY DEF Start, Between0
  <2>. QED
    BY <2>1, ParserStates
<1>3. \A a \in ParserState, e \in Lines : ReadStep[<<a, e>>] \in ParserState
  BY StepReads
<1>4. PICK it :
        /\ FoldSolves(it, ReadStep, Start, lines)
        /\ Folded(ReadStep, Start, lines) = it[1..Len(lines)]
        /\ \A s \in SUBSET (1..Len(lines)) : it[s] \in ParserState
  BY <1>2, <1>3, FoldTyped
<1>5. /\ Len(lines) \in Nat /\ DOMAIN lines = 1..Len(lines)
      /\ \A k \in 1..Len(lines) : lines[k] \in Lines
  OBVIOUS
<1>6. ASSUME NEW s \in SUBSET (1..Len(lines)) PROVE it[s] = ReadOne(it, s)
  <2>1. it[s] = FoldStep(it, ReadStep, Start, lines, s)
    BY <1>4 DEF FoldSolves
  <2>2. CASE s = {}
    BY <2>1, <2>2 DEF FoldStep
  <2>3. CASE s # {}
    <3>1. Max(s) \in 1..Len(lines) /\ s \ {Max(s)} \in SUBSET (1..Len(lines))
      BY <1>5, <2>3, MaxIn
    <3>2. it[s] = ReadStep[<<it[s \ {Max(s)}], lines[Max(s)]>>]
      BY <2>1, <2>3 DEF FoldStep
    <3>3. it[s \ {Max(s)}] \in ParserState /\ lines[Max(s)] \in Lines
      BY <1>4, <1>5, <3>1
    <3>. QED
      BY <2>3, <3>2, <3>3, StepReads
  <2>. QED
    BY <2>2, <2>3
<1>7. Solves(it)
  <2>1. it = [s \in SUBSET (1..Len(lines)) |-> it[s]]
    BY <1>4 DEF FoldSolves
  <2>. HIDE DEF ReadOne
  <2>. QED
    BY <1>5, <1>6, <2>1
<1>. DEFINE c == CHOOSE c : Solves(c)
<1>8. Solves(c)
  <2>. HIDE DEF Solves
  <2>. QED
    BY <1>7
<1>9. Agreeing(c, it, Len(lines))
  <2>1. \A s \in SUBSET (1..Len(lines)) : c[s] = ReadOne(c, s)
    <3>. HIDE DEF c, ReadOne
    <3>. QED
      BY <1>5, <1>8
  <2>. HIDE DEF c
  <2>2. c[{}] = it[{}]
    BY <1>6, <2>1
  <2>3. ASSUME NEW s \in SUBSET (1..Len(lines)), s # {}, c[s \ {Max(s)}] = it[s \ {Max(s)}]
        PROVE  c[s] = it[s]
    BY <1>6, <2>1, <2>3
  <2>. QED
    BY <2>2, <2>3 DEF Agreeing
<1>10. FoldLeft(ReadLine, Start, lines) = From(Start, lines)
  <2>1. \A s \in SUBSET (1..Len(lines)) : c[s] = it[s]
    <3>. HIDE DEF c
    <3>. QED
      BY <1>5, <1>9, FoldAgrees
  <2>. HIDE DEF c
  <2>2. c[1..Len(lines)] = it[1..Len(lines)]
    BY <2>1
  <2>. QED
    BY <1>1, <1>4, <1>5, <2>2 DEF From, c
<1>. QED
  BY <1>10 DEF ParseGoroutineDump

-----------------------------------------------------------------------------
(* Reading what was printed *)

Row(f) == <<[kind |-> "func", func |-> f.func, addr |-> f.addr],
            [kind |-> "place", file |-> f.file]>>
Rows(fs) == [k \in DOMAIN fs |-> Row(fs[k])]

\* The lines that mean nothing outside a block.
Inner == {l \in Lines : l.kind \in {"func", "place", "created"}}

LEMMA RowLines ==
  ASSUME NEW f \in ReadFrame
  PROVE  /\ [kind |-> "func", func |-> f.func, addr |-> f.addr] \in Inner
         /\ [kind |-> "place", file |-> f.file] \in Inner
         /\ Row(f) \in Seq(Inner)
<1>1. f.func \in STRING \ {""} /\ f.addr \in Nat /\ f.file \in Places
  BY DEF ReadFrame
<1>2. [kind |-> "func", func |-> f.func, addr |-> f.addr] \in Inner
  BY <1>1 DEF Inner, Lines
<1>3. [kind |-> "place", file |-> f.file] \in Inner
  BY <1>1 DEF Inner, Lines
<1>. DEFINE x == [kind |-> "func", func |-> f.func, addr |-> f.addr]
            y == [kind |-> "place", file |-> f.file]
<1>. HIDE DEF x, y
<1>4. x \in Inner /\ y \in Inner => <<x, y>> \in Seq(Inner)
  OBVIOUS
<1>. QED
  BY <1>2, <1>3, <1>4 DEF x, y, Row

LEMMA RowsType ==
  ASSUME NEW fs \in Seq(ReadFrame)
  PROVE  /\ Rows(fs) \in Seq(Seq(Inner)) /\ Len(Rows(fs)) = Len(fs)
         /\ FlattenSeq(Rows(fs)) \in Seq(Inner)
<1>1. Len(fs) \in Nat /\ DOMAIN fs = 1..Len(fs) /\ \A k \in 1..Len(fs) : fs[k] \in ReadFrame
  OBVIOUS
<1>2. Rows(fs) \in [1..Len(fs) -> Seq(Inner)]
  BY <1>1, RowLines DEF Rows
<1>3. Rows(fs) \in Seq(Seq(Inner)) /\ Len(Rows(fs)) = Len(fs)
  BY <1>1, <1>2
<1>. QED
  BY <1>3, FlattenSeqType

LEMMA RowsAppend ==
  ASSUME NEW fs \in Seq(ReadFrame), NEW f \in ReadFrame
  PROVE  FlattenSeq(Rows(Append(fs, f))) = FlattenSeq(Rows(fs)) \o Row(f)
<1>. DEFINE more == Append(fs, f)
            n == Len(fs)
<1>1. /\ n \in Nat /\ Len(more) = n + 1 /\ DOMAIN more = 1..(n + 1) /\ DOMAIN fs = 1..n
      /\ more \in Seq(ReadFrame)
      /\ more[n + 1] = f /\ \A k \in 1..n : more[k] = fs[k]
  OBVIOUS
<1>. HIDE DEF more, n
<1>2. /\ Rows(fs) \in Seq(Seq(Inner)) /\ Len(Rows(fs)) = n
      /\ Rows(more) \in Seq(Seq(Inner)) /\ Len(Rows(more)) = n + 1
  BY <1>1, RowsType DEF n
<1>3. Row(f) \in Seq(Inner)
  BY RowLines
<1>4. /\ \A k \in 1..n : Rows(more)[k] = Rows(fs)[k]
      /\ Rows(more)[n + 1] = Row(f)
  BY <1>1 DEF Rows
<1>5. Rows(more) = Append(Rows(fs), Row(f))
  BY <1>1, <1>2, <1>3, <1>4
<1>. QED
  BY <1>2, <1>3, <1>5, FlattenAppend DEF more

\* A call and its place add one frame.
LEMMA RowRead ==
  ASSUME NEW b \in Snap, NEW r \in Seq(Snap), NEW f \in ReadFrame
  PROVE  /\ [b EXCEPT !.frames = Append(b.frames, f)] \in Snap
         /\ From(Inside(b, NoCall, r), Row(f))
              = Inside([b EXCEPT !.frames = Append(b.frames, f)], NoCall, r)
<1>. DEFINE x == [kind |-> "func", func |-> f.func, addr |-> f.addr]
            y == [kind |-> "place", file |-> f.file]
            call == [func |-> f.func, addr |-> f.addr]
            frame == [func |-> call.func, addr |-> call.addr, file |-> y.file]
            c == [b EXCEPT !.frames = Append(@, frame)]
            d == [b EXCEPT !.frames = Append(b.frames, f)]
<1>1. x \in Lines /\ y \in Lines /\ x.kind = "func" /\ y.kind = "place"
  BY RowLines DEF Inner
<1>2. call.func # "" /\ x.func = f.func /\ x.addr = f.addr
  BY DEF ReadFrame
<1>3. frame = f
  BY DEF ReadFrame
<1>4. c = d
  <2>. HIDE DEF frame
  <2>. QED
    BY <1>3
<1>5. Inside(b, NoCall, r) \in ParserState
  BY ParserStates
<1>6. call \in ReadCall /\ ReadLine(Inside(b, NoCall, r), x) = Inside(b, call, r)
  <2>1. NoCall \in ReadCall
    BY ParserStates
  <2>. HIDE DEF x
  <2>2. /\ [func |-> x.func, addr |-> x.addr] \in ReadCall
        /\ ReadLine(Inside(b, NoCall, r), x) = Inside(b, [func |-> x.func, addr |-> x.addr], r)
    BY <1>1, <2>1, ReadInside
  <2>3. call = [func |-> x.func, addr |-> x.addr]
    BY <1>2
  <2>. QED
    BY <2>2, <2>3
<1>7. c \in Snap /\ ReadLine(Inside(b, call, r), y) = Inside(c, NoCall, r)
  <2>. HIDE DEF y, call
  <2>. QED
    BY <1>1, <1>2, <1>6, ReadInside
<1>8. Row(f) = Append(<<x>>, y)
  BY DEF Row
<1>. HIDE DEF x, y, call, frame, c, d
<1>9. From(Inside(b, NoCall, r), <<x>>) = Inside(b, call, r) /\ <<x>> \in Seq(Lines)
  BY <1>1, <1>5, <1>6, FromOne
<1>10. From(Inside(b, NoCall, r), Append(<<x>>, y)) = Inside(c, NoCall, r)
  BY <1>1, <1>5, <1>7, <1>9, FromAppend
<1>11. d \in Snap /\ From(Inside(b, NoCall, r), Row(f)) = Inside(d, NoCall, r)
  BY <1>4, <1>7, <1>8, <1>10
<1>. QED
  BY <1>11 DEF d

LEMMA FramesRead ==
  ASSUME NEW b \in Snap, b.frames = <<>>, NEW r \in Seq(Snap), NEW fs \in Seq(ReadFrame)
  PROVE  /\ [b EXCEPT !.frames = fs] \in Snap
         /\ From(Inside(b, NoCall, r), FlattenSeq(Rows(fs)))
              = Inside([b EXCEPT !.frames = fs], NoCall, r)
<1>. DEFINE With(q) == [b EXCEPT !.frames = q]
            P == {q \in Seq(ReadFrame) :
                    From(Inside(b, NoCall, r), FlattenSeq(Rows(q))) = Inside(With(q), NoCall, r)}
<1>1. <<>> \in P
  <2>1. Rows(<<>>) = <<>>
    BY DEF Rows
  <2>2. With(<<>>) = b
    BY DEF Snap
  <2>. HIDE DEF With
  <2>3. From(Inside(b, NoCall, r), FlattenSeq(Rows(<<>>))) = Inside(With(<<>>), NoCall, r)
    BY <2>1, <2>2, FlattenEmpty, FromEmpty
  <2>4. <<>> \in Seq(ReadFrame)
    OBVIOUS
  <2>. QED
    BY <2>3, <2>4
<1>0. ASSUME NEW q \in Seq(ReadFrame) PROVE With(q) \in Snap /\ With(q).frames = q
  BY DEF Snap
<1>2. ASSUME NEW q \in Seq(ReadFrame), NEW f \in ReadFrame, q \in P
      PROVE  Append(q, f) \in P
  <2>1. Append(q, f) \in Seq(ReadFrame)
    OBVIOUS
  <2>2. From(Inside(With(q), NoCall, r), Row(f))
        = Inside([With(q) EXCEPT !.frames = Append(q, f)], NoCall, r)
    <3>1. With(q) \in Snap /\ With(q).frames = q
      BY <1>0
    <3>. HIDE DEF With
    <3>. QED
      BY <3>1, RowRead
  <2>3. [With(q) EXCEPT !.frames = Append(q, f)] = With(Append(q, f))
    <3>. DEFINE z == Append(q, f)
    <3>. HIDE DEF z
    <3>1. [With(q) EXCEPT !.frames = z] = With(z)
      BY DEF Snap
    <3>. QED
      BY <3>1 DEF z
  <2>4. /\ FlattenSeq(Rows(q)) \in Seq(Lines) /\ Row(f) \in Seq(Lines)
    <3>1. FlattenSeq(Rows(q)) \in Seq(Inner) /\ Row(f) \in Seq(Inner)
      BY RowsType, RowLines
    <3>. QED
      BY <3>1 DEF Inner
  <2>5. From(Inside(b, NoCall, r), FlattenSeq(Rows(q))) = Inside(With(q), NoCall, r)
    BY <1>2
  <2>. HIDE DEF With, P
  <2>6. From(Inside(b, NoCall, r), FlattenSeq(Rows(Append(q, f))))
        = Inside(With(Append(q, f)), NoCall, r)
    <3>1. FlattenSeq(Rows(Append(q, f))) = FlattenSeq(Rows(q)) \o Row(f)
      BY RowsAppend
    <3>. DEFINE u == FlattenSeq(Rows(q))
                v == Row(f)
                z == Append(q, f)
    <3>. HIDE DEF u, v, z
    <3>2. u \in Seq(Lines) /\ v \in Seq(Lines)
      BY <2>4 DEF u, v
    <3>3. From(Inside(b, NoCall, r), u \o v) = From(From(Inside(b, NoCall, r), u), v)
      BY <3>2, FromJoin
    <3>. QED
      BY <2>2, <2>3, <2>5, <3>1, <3>3 DEF u, v, z
  <2>. QED
    BY <2>1, <2>6 DEF P
<1>. HIDE DEF P
<1>3. fs \in P
  BY <1>1, <1>2, SeqSetInduction
<1>. QED
  BY <1>0, <1>3 DEF P

\* What a block says, without the resource, and with it.
Unresolved(g) == [id |-> g.id, parent |-> g.parent, state |-> ClassifyState(g.says),
                  resource |-> <<>>, frames |-> g.frames]
SnapOf(g) == Closed0(Unresolved(g))

HeadLine(g) == [kind |-> "header", id |-> g.id, says |-> g.says]
CreatorLines(g) ==
  IF g.parent = 0 THEN <<>>
  ELSE <<[kind |-> "created", parent |-> g.parent], [kind |-> "place", file |-> "creator"]>>

LEMMA BlockIs ==
  ASSUME NEW g \in PrintedBlock
  PROVE  /\ g.id \in Nat /\ g.says \in STRING /\ g.frames \in Seq(ReadFrame)
         /\ g.parent \in Nat /\ g.readable \in BOOLEAN
         /\ HeadLine(g) \in Lines
         /\ CreatorLines(g) \in Seq(Inner) /\ FlattenSeq(Rows(g.frames)) \in Seq(Inner)
         /\ PrintBlock(g) = (<<HeadLine(g)>> \o FlattenSeq(Rows(g.frames))) \o CreatorLines(g)
         /\ Unresolved(g) \in Snap /\ SnapOf(g) \in Snap
<1>1. /\ g.id \in Nat /\ g.says \in STRING /\ g.frames \in Seq(ReadFrame)
      /\ g.parent \in Nat /\ g.readable \in BOOLEAN
  <2>1. PrintedCall \subseteq ReadFrame
    BY DEF PrintedCall, ReadFrame, Places
  <2>. QED
    BY <2>1 DEF PrintedBlock
<1>2. HeadLine(g) \in Lines
  BY <1>1 DEF HeadLine, Lines
<1>3. CreatorLines(g) \in Seq(Inner)
  <2>. DEFINE x == [kind |-> "created", parent |-> g.parent]
              y == [kind |-> "place", file |-> "creator"]
  <2>1. x \in Inner
    BY <1>1 DEF Inner, Lines
  <2>3. y \in Inner
    BY DEF Inner, Lines, Places
  <2>. HIDE DEF x, y
  <2>2. <<>> \in Seq(Inner) /\ <<x, y>> \in Seq(Inner)
    BY <2>1, <2>3
  <2>. QED
    BY <2>2 DEF x, y, CreatorLines
<1>4. FlattenSeq(Rows(g.frames)) \in Seq(Inner)
  BY <1>1, RowsType
<1>5. PrintBlock(g) = (<<HeadLine(g)>> \o FlattenSeq(Rows(g.frames))) \o CreatorLines(g)
  <2>1. FlattenSeq([k \in DOMAIN g.frames |->
          <<[kind |-> "func", func |-> g.frames[k].func, addr |-> g.frames[k].addr],
            [kind |-> "place", file |-> g.frames[k].file]>>]) = FlattenSeq(Rows(g.frames))
    BY DEF Rows, Row
  <2>. QED
    BY <2>1, Zenon DEF PrintBlock, HeadLine, CreatorLines
<1>6. Unresolved(g) \in Snap
  BY <1>1 DEF Unresolved, Snap
<1>7. SnapOf(g) \in Snap
  <2>. DEFINE u == Unresolved(g)
  <2>1. NoCall \in ReadCall /\ <<>> \in Seq(Snap)
    BY ParserStates
  <2>. HIDE DEF u
  <2>2. u \in Snap => Closed0(u) \in Snap
    BY <2>1, Flushes
  <2>. QED
    BY <1>6, <2>2 DEF SnapOf, u
<1>. QED
  BY <1>1, <1>2, <1>3, <1>4, <1>5, <1>6, <1>7

\* A block is read as it was printed.
LEMMA BlockRead ==
  ASSUME NEW g \in PrintedBlock, NEW r \in Seq(Snap)
  PROVE  From(Between0(r), PrintBlock(g)) = Inside(Unresolved(g), NoCall, r)
<1>. DEFINE b == Opened(g.id, g.says)
            c == [b EXCEPT !.frames = g.frames]
            h == HeadLine(g)
            F == FlattenSeq(Rows(g.frames))
            C == CreatorLines(g)
<1>1. Between0(r) \in ParserState
  BY ParserStates
<1>2. b \in Snap /\ b.frames = <<>> /\ ReadLine(Between0(r), h) = Inside(b, NoCall, r)
  <2>1. h \in Lines /\ h.kind = "header" /\ h.id = g.id /\ h.says = g.says
    BY BlockIs DEF HeadLine
  <2>2. Flush(Between0(r)).results = r
    <3>1. Between0(r).current = <<>> /\ Between0(r).results = r
      BY DEF Between0
    <3>. QED
      BY <1>1, <3>1, Flushes
  <2>3. b.frames = <<>>
    BY DEF Opened
  <2>. HIDE DEF h
  <2>4. /\ Opened(h.id, h.says) \in Snap
        /\ ReadLine(Between0(r), h) = Inside(Opened(h.id, h.says), NoCall, r)
    BY <1>1, <2>1, <2>2, ReadHeader
  <2>. QED
    BY <2>1, <2>3, <2>4
<1>3. From(Between0(r), <<h>>) = Inside(b, NoCall, r) /\ <<h>> \in Seq(Lines)
  <2>1. h \in Lines
    BY BlockIs
  <2>. HIDE DEF h
  <2>. QED
    BY <1>1, <1>2, <2>1, FromOne
<1>4. c \in Snap /\ From(Inside(b, NoCall, r), F) = Inside(c, NoCall, r)
  <2>1. g.frames \in Seq(ReadFrame)
    BY BlockIs
  <2>. HIDE DEF b
  <2>. QED
    BY <1>2, <2>1, FramesRead
<1>5. F \in Seq(Lines) /\ C \in Seq(Lines)
  <2>1. F \in Seq(Inner) /\ C \in Seq(Inner)
    BY BlockIs
  <2>. QED
    BY <2>1 DEF Inner
<1>6. From(Inside(c, NoCall, r), C) = Inside(Unresolved(g), NoCall, r)
  <2>1. CASE g.parent = 0
    <3>1. C = <<>>
      BY <2>1 DEF CreatorLines
    <3>2. c = Unresolved(g)
      BY <2>1 DEF Opened, Unresolved
    <3>. HIDE DEF C, c
    <3>. QED
      BY <3>1, <3>2, FromEmpty
  <2>2. CASE g.parent # 0
    <3>. DEFINE x == [kind |-> "created", parent |-> g.parent]
                y == [kind |-> "place", file |-> "creator"]
                d == [c EXCEPT !.parent = IF x.parent > 0 THEN x.parent ELSE @]
    <3>0. g.parent \in Nat /\ g.parent > 0
      <4>1. g.parent \in Nat
        BY DEF PrintedBlock
      <4>. QED
        BY <2>2, <4>1
    <3>1. x \in Lines /\ y \in Lines /\ x.kind = "created" /\ y.kind = "place"
          /\ x.parent = g.parent
      BY <3>0 DEF Lines, Places
    <3>2. C = Append(<<x>>, y)
      BY <2>2 DEF CreatorLines
    <3>3. d = Unresolved(g)
      <4>1. d = [c EXCEPT !.parent = g.parent]
        BY <3>0
      <4>2. c = [id |-> g.id, parent |-> 0, state |-> ClassifyState(g.says),
                 resource |-> <<>>, frames |-> g.frames]
        BY DEF Opened
      <4>. HIDE DEF c, d
      <4>. QED
        BY <4>1, <4>2 DEF Unresolved
    <3>. HIDE DEF C, c, x, y
    <3>4. d \in Snap /\ ReadLine(Inside(c, NoCall, r), x) = Inside(d, NoCall, r)
      <4>1. NoCall \in ReadCall
        BY ParserStates
      <4>2. /\ [c EXCEPT !.parent = IF x.parent > 0 THEN x.parent ELSE @] \in Snap
            /\ ReadLine(Inside(c, NoCall, r), x)
                 = Inside([c EXCEPT !.parent = IF x.parent > 0 THEN x.parent ELSE @], NoCall, r)
        BY <1>4, <3>1, <4>1, ReadInside
      <4>. QED
        BY <4>2
    <3>. HIDE DEF d
    <3>5. ReadLine(Inside(d, NoCall, r), y) = Inside(d, NoCall, r)
      <4>1. NoCall \in ReadCall /\ NoCall.func = ""
        BY ParserStates DEF NoCall
      <4>. QED
        BY <3>1, <3>4, <4>1, ReadInside
    <3>6. Inside(c, NoCall, r) \in ParserState
      BY <1>4, ParserStates
    <3>7. From(Inside(c, NoCall, r), <<x>>) = Inside(d, NoCall, r) /\ <<x>> \in Seq(Lines)
      BY <3>1, <3>4, <3>6, FromOne
    <3>8. From(Inside(c, NoCall, r), Append(<<x>>, y)) = Inside(d, NoCall, r)
      BY <3>1, <3>5, <3>6, <3>7, FromAppend
    <3>. QED
      BY <3>2, <3>3, <3>8
  <2>. QED
    BY <2>1, <2>2
<1>7. PrintBlock(g) = (<<h>> \o F) \o C
  BY BlockIs
<1>. DEFINE H == <<h>>
            HF == H \o F
<1>. HIDE DEF h, F, C, b, c, H
<1>8. From(Between0(r), HF) = Inside(c, NoCall, r) /\ HF \in Seq(Lines)
  <2>1. H \in Seq(Lines) /\ From(Between0(r), H) = Inside(b, NoCall, r)
    BY <1>3 DEF H
  <2>2. From(Between0(r), H \o F) = From(From(Between0(r), H), F) /\ H \o F \in Seq(Lines)
    BY <1>5, <2>1, FromJoin
  <2>. QED
    BY <1>4, <2>1, <2>2
<1>. HIDE DEF HF
<1>9. From(Between0(r), HF \o C) = Inside(Unresolved(g), NoCall, r)
  BY <1>5, <1>6, <1>8, FromJoin
<1>. QED
  BY <1>7, <1>9 DEF HF, H

\* The lines of a block whose header was not read are passed over.
LEMMA InnerSkipped ==
  ASSUME NEW r \in Seq(Snap), NEW ls \in Seq(Inner)
  PROVE  From(Between0(r), ls) = Between0(r)
<1>. DEFINE P == {q \in Seq(Inner) : From(Between0(r), q) = Between0(r)}
<1>1. <<>> \in P
  BY FromEmpty
<1>2. ASSUME NEW q \in Seq(Inner), NEW l \in Inner, q \in P PROVE Append(q, l) \in P
  <2>1. Append(q, l) \in Seq(Inner) /\ q \in Seq(Lines) /\ l \in Lines
        /\ l.kind \in {"func", "place", "created"}
    BY DEF Inner
  <2>2. Between0(r) \in ParserState /\ Between0(r).current = <<>>
    BY ParserStates DEF Between0
  <2>3. From(Between0(r), Append(q, l)) = ReadLine(From(Between0(r), q), l)
    BY <2>1, <2>2, FromAppend
  <2>4. ReadLine(Between0(r), l) = Between0(r)
    BY <2>1, <2>2, ReadOutside
  <2>. QED
    BY <1>2, <2>1, <2>3, <2>4
<1>. HIDE DEF P
<1>3. ls \in P
  BY <1>1, <1>2, SeqSetInduction
<1>. QED
  BY <1>3 DEF P

\* A block as the dump has it, its header possibly unreadable.
Blank == [kind |-> "blank"]
Malformed == [kind |-> "malformed"]
Piece(g) == IF g.readable THEN PrintBlock(g) ELSE <<Malformed>> \o Tail(PrintBlock(g))
Readable == {g \in PrintedBlock : g.readable}
Grown(r, g) == IF g \in Readable THEN Append(r, SnapOf(g)) ELSE r

LEMMA PieceRead ==
  ASSUME NEW g \in PrintedBlock, NEW r \in Seq(Snap)
  PROVE  /\ Piece(g) \in Seq(Lines)
         /\ From(Between0(r), Piece(g)) \in ParserState
         /\ Flush(From(Between0(r), Piece(g))) = Between0(Grown(r, g))
         /\ Grown(r, g) \in Seq(Snap)
<1>. DEFINE H == <<HeadLine(g)>>
            F == FlattenSeq(Rows(g.frames))
            C == CreatorLines(g)
<1>1. /\ H \in Seq(Lines) /\ F \in Seq(Inner) /\ C \in Seq(Inner)
      /\ F \in Seq(Lines) /\ C \in Seq(Lines)
      /\ PrintBlock(g) = (H \o F) \o C
  <2>1. HeadLine(g) \in Lines /\ F \in Seq(Inner) /\ C \in Seq(Inner)
        /\ PrintBlock(g) = (H \o F) \o C
    BY BlockIs
  <2>2. F \in Seq(Lines) /\ C \in Seq(Lines)
    BY <2>1 DEF Inner
  <2>. QED
    BY <2>1, <2>2
<1>2. Len(H) = 1
  OBVIOUS
<1>3. Between0(r) \in ParserState /\ Between0(r).current = <<>> /\ Between0(r).results = r
  BY ParserStates DEF Between0
<1>4. SnapOf(g) \in Snap /\ Unresolved(g) \in Snap /\ NoCall \in ReadCall
  BY BlockIs, ParserStates
<1>5. Grown(r, g) \in Seq(Snap)
  <2>. DEFINE x == SnapOf(g)
  <2>. HIDE DEF x
  <2>1. x \in Snap => Append(r, x) \in Seq(Snap)
    OBVIOUS
  <2>. QED
    BY <1>4, <2>1 DEF Grown, x
<1>6. CASE g.readable
  <2>1. Piece(g) = PrintBlock(g) /\ g \in Readable
    BY <1>6 DEF Piece, Readable
  <2>2. PrintBlock(g) \in Seq(Lines)
    <3>. HIDE DEF H, F, C
    <3>. QED
      BY <1>1
  <2>3. From(Between0(r), Piece(g)) = Inside(Unresolved(g), NoCall, r)
    BY <2>1, BlockRead
  <2>4. Flush(Inside(Unresolved(g), NoCall, r)) = Between0(Append(r, SnapOf(g)))
    BY <1>4, Flushes DEF SnapOf
  <2>5. Inside(Unresolved(g), NoCall, r) \in ParserState
    BY <1>4, ParserStates
  <2>6. Grown(r, g) = Append(r, SnapOf(g))
    BY <2>1 DEF Grown
  <2>. QED
    BY <1>5, <2>1, <2>2, <2>3, <2>4, <2>5, <2>6
<1>7. CASE ~ g.readable
  <2>1. Piece(g) = <<Malformed>> \o Tail(PrintBlock(g)) /\ Grown(r, g) = r
    BY <1>7 DEF Piece, Readable, Grown
  <2>2. Tail(PrintBlock(g)) = F \o C /\ F \o C \in Seq(Inner) /\ F \o C \in Seq(Lines)
    <3>. DEFINE h == HeadLine(g)
    <3>. HIDE DEF F, C, h
    <3>1. Tail((<<h>> \o F) \o C) = F \o C
      <4>1. (<<h>> \o F) \o C = <<h>> \o (F \o C)
        BY <1>1
      <4>2. \A q \in Seq(Inner) : Tail(<<h>> \o q) = q
        OBVIOUS
      <4>. QED
        BY <1>1, <4>1, <4>2
    <3>. QED
      BY <1>1, <3>1 DEF h
  <2>3. Malformed \in Lines /\ Malformed.kind = "malformed"
    BY DEF Malformed, Lines
  <2>4. Flush(Between0(r)) = Between0(r)
    BY <1>3, Flushes
  <2>5. From(Between0(r), <<Malformed>>) = Between0(r) /\ <<Malformed>> \in Seq(Lines)
    BY <1>3, <2>3, <2>4, FromOne, ReadEnds
  <2>. DEFINE M == <<Malformed>>
              R == F \o C
  <2>. HIDE DEF M, R
  <2>6. From(Between0(r), M \o R) = Between0(r) /\ M \o R \in Seq(Lines)
    <3>1. M \in Seq(Lines) /\ R \in Seq(Lines) /\ R \in Seq(Inner)
          /\ From(Between0(r), M) = Between0(r)
      BY <2>2, <2>5 DEF M, R
    <3>2. From(Between0(r), M \o R) = From(From(Between0(r), M), R) /\ M \o R \in Seq(Lines)
      BY <3>1, FromJoin
    <3>3. From(Between0(r), R) = Between0(r)
      BY <3>1, InnerSkipped
    <3>. QED
      BY <3>1, <3>2, <3>3
  <2>7. Piece(g) = M \o R
    BY <2>1, <2>2 DEF M, R
  <2>. QED
    BY <1>3, <1>5, <2>1, <2>4, <2>6, <2>7
<1>. QED
  BY <1>6, <1>7, BlockIs

\* Blocks that a blank line follows.
Ended(g) == Piece(g) \o <<Blank>>
EndedBlocks(gs) == FlattenSeq([k \in DOMAIN gs |-> Ended(gs[k])])

LEMMA EndedRead ==
  ASSUME NEW g \in PrintedBlock, NEW r \in Seq(Snap)
  PROVE  Ended(g) \in Seq(Lines) /\ From(Between0(r), Ended(g)) = Between0(Grown(r, g))
<1>1. /\ Piece(g) \in Seq(Lines)
      /\ From(Between0(r), Piece(g)) \in ParserState
      /\ Flush(From(Between0(r), Piece(g))) = Between0(Grown(r, g))
  BY PieceRead
<1>2. Blank \in Lines /\ Blank.kind = "blank"
  BY DEF Blank, Lines
<1>3. From(From(Between0(r), Piece(g)), <<Blank>>) = Between0(Grown(r, g))
      /\ <<Blank>> \in Seq(Lines)
  BY <1>1, <1>2, FromOne, ReadEnds
<1>. DEFINE B == <<Blank>>
<1>. HIDE DEF B
<1>4. Piece(g) \o B \in Seq(Lines)
      /\ From(Between0(r), Piece(g) \o B) = From(From(Between0(r), Piece(g)), B)
  <2>1. B \in Seq(Lines)
    BY <1>3 DEF B
  <2>. DEFINE p == Piece(g)
  <2>2. p \in Seq(Lines)
    BY <1>1
  <2>. HIDE DEF p
  <2>3. p \o B \in Seq(Lines) /\ From(Between0(r), p \o B) = From(From(Between0(r), p), B)
    BY <2>1, <2>2, FromJoin
  <2>. QED
    BY <2>3 DEF p
<1>. QED
  BY <1>3, <1>4 DEF Ended, B

LEMMA EndedBlocksType ==
  ASSUME NEW gs \in Seq(PrintedBlock)
  PROVE  /\ [k \in DOMAIN gs |-> Ended(gs[k])] \in Seq(Seq(Lines))
         /\ Len([k \in DOMAIN gs |-> Ended(gs[k])]) = Len(gs)
         /\ EndedBlocks(gs) \in Seq(Lines)
<1>. DEFINE ps == [k \in DOMAIN gs |-> Ended(gs[k])]
<1>1. Len(gs) \in Nat /\ DOMAIN gs = 1..Len(gs) /\ \A k \in 1..Len(gs) : gs[k] \in PrintedBlock
  OBVIOUS
<1>2. \A g \in PrintedBlock : Ended(g) \in Seq(Lines)
  <2>1. <<>> \in Seq(Snap)
    OBVIOUS
  <2>. QED
    BY <2>1, EndedRead
<1>3. ps \in [1..Len(gs) -> Seq(Lines)]
  BY <1>1, <1>2
<1>. HIDE DEF ps
<1>4. ps \in Seq(Seq(Lines)) /\ Len(ps) = Len(gs)
  BY <1>1, <1>3
<1>. QED
  BY <1>4, FlattenSeqType DEF EndedBlocks, ps

LEMMA EndedBlocksAppend ==
  ASSUME NEW gs \in Seq(PrintedBlock), NEW g \in PrintedBlock
  PROVE  EndedBlocks(Append(gs, g)) = EndedBlocks(gs) \o Ended(g)
<1>. DEFINE more == Append(gs, g)
            n == Len(gs)
            ps(q) == [k \in DOMAIN q |-> Ended(q[k])]
<1>1. /\ n \in Nat /\ Len(more) = n + 1 /\ DOMAIN more = 1..(n + 1) /\ DOMAIN gs = 1..n
      /\ more \in Seq(PrintedBlock)
      /\ more[n + 1] = g /\ \A k \in 1..n : more[k] = gs[k]
  OBVIOUS
<1>. HIDE DEF more, n
<1>2. /\ ps(gs) \in Seq(Seq(Lines)) /\ Len(ps(gs)) = n
      /\ ps(more) \in Seq(Seq(Lines)) /\ Len(ps(more)) = n + 1
  BY <1>1, EndedBlocksType DEF n
<1>3. Ended(g) \in Seq(Lines)
  <2>1. <<>> \in Seq(Snap)
    OBVIOUS
  <2>. QED
    BY <2>1, EndedRead
<1>4. /\ \A k \in 1..n : ps(more)[k] = ps(gs)[k]
      /\ ps(more)[n + 1] = Ended(g)
  BY <1>1
<1>. HIDE DEF ps
<1>5. ps(more) = Append(ps(gs), Ended(g))
  BY <1>1, <1>2, <1>3, <1>4
<1>6. FlattenSeq(ps(more)) = FlattenSeq(ps(gs)) \o Ended(g)
  BY <1>2, <1>3, <1>5, FlattenAppend
<1>. QED
  BY <1>6 DEF EndedBlocks, ps, more

SnapsOf(gs) == [k \in DOMAIN gs |-> SnapOf(gs[k])]

LEMMA SnapsAppend ==
  ASSUME NEW gs \in Seq(PrintedBlock), NEW g \in PrintedBlock
  PROVE  /\ SnapsOf(gs) \in Seq(Snap)
         /\ SnapsOf(Append(gs, g)) = Append(SnapsOf(gs), SnapOf(g))
<1>. DEFINE more == Append(gs, g)
            n == Len(gs)
<1>1. /\ n \in Nat /\ Len(more) = n + 1 /\ DOMAIN more = 1..(n + 1) /\ DOMAIN gs = 1..n
      /\ more[n + 1] = g /\ \A k \in 1..n : more[k] = gs[k]
      /\ \A k \in 1..(n + 1) : more[k] \in PrintedBlock
      /\ \A k \in 1..n : gs[k] \in PrintedBlock
  OBVIOUS
<1>2. \A x \in PrintedBlock : SnapOf(x) \in Snap
  BY BlockIs
<1>. HIDE DEF more, n
<1>3. SnapsOf(gs) \in [1..n -> Snap] /\ SnapsOf(more) \in [1..(n + 1) -> Snap]
  BY <1>1, <1>2 DEF SnapsOf
<1>4. SnapsOf(gs) \in Seq(Snap) /\ Len(SnapsOf(gs)) = n
      /\ SnapsOf(more) \in Seq(Snap) /\ Len(SnapsOf(more)) = n + 1
  BY <1>1, <1>3
<1>5. \A k \in 1..n : SnapsOf(more)[k] = SnapsOf(gs)[k]
  BY <1>1 DEF SnapsOf
<1>6. SnapsOf(more)[n + 1] = SnapOf(g)
  BY <1>1 DEF SnapsOf
<1>. DEFINE x == SnapOf(g)
<1>7. x \in Snap
  BY <1>2
<1>. HIDE DEF x
<1>8. SnapsOf(more) = Append(SnapsOf(gs), x)
  BY <1>1, <1>4, <1>5, <1>6, <1>7 DEF x
<1>. QED
  BY <1>4, <1>8 DEF more, x

LEMMA BlocksRead ==
  ASSUME NEW gs \in Seq(PrintedBlock)
  PROVE  /\ Chosen(gs, Readable) \in Seq(PrintedBlock)
         /\ From(Start, EndedBlocks(gs)) = Between0(SnapsOf(Chosen(gs, Readable)))
<1>. DEFINE Read(q) == Between0(SnapsOf(Chosen(q, Readable)))
            P == {q \in Seq(PrintedBlock) : From(Start, EndedBlocks(q)) = Read(q)}
<1>1. <<>> \in P
  <2>1. EndedBlocks(<<>>) = <<>>
    <3>1. [k \in DOMAIN <<>> |-> Ended(<<>>[k])] = <<>>
      OBVIOUS
    <3>. QED
      BY <3>1, FlattenEmpty DEF EndedBlocks
  <2>2. SnapsOf(<<>>) = <<>>
    BY DEF SnapsOf
  <2>3. Read(<<>>) = Start
    BY <2>2, ChosenEmpty DEF Between0, Start
  <2>4. <<>> \in Seq(PrintedBlock)
    OBVIOUS
  <2>. QED
    BY <2>1, <2>3, <2>4, FromEmpty
<1>2. ASSUME NEW q \in Seq(PrintedBlock), NEW g \in PrintedBlock, q \in P
      PROVE  Append(q, g) \in P
  <2>. DEFINE c == Chosen(q, Readable)
              r == SnapsOf(c)
  <2>1. c \in Seq(PrintedBlock) /\ EndedBlocks(q) \in Seq(Lines)
    BY ChosenType, EndedBlocksType
  <2>2. r \in Seq(Snap) /\ SnapsOf(Append(c, g)) = Append(r, SnapOf(g))
    <3>. HIDE DEF c
    <3>. QED
      BY <2>1, SnapsAppend
  <2>3. From(Start, EndedBlocks(q)) = Between0(r)
    BY <1>2
  <2>4. Chosen(Append(q, g), Readable) = IF g \in Readable THEN Append(c, g) ELSE c
    BY ChosenAppend
  <2>5. SnapsOf(Chosen(Append(q, g), Readable)) = Grown(r, g)
    <3>. HIDE DEF c
    <3>. QED
      BY <2>2, <2>4 DEF Grown
  <2>6. Ended(g) \in Seq(Lines) /\ From(Between0(r), Ended(g)) = Between0(Grown(r, g))
    <3>. HIDE DEF r
    <3>. QED
      BY <2>2, EndedRead
  <2>7. EndedBlocks(Append(q, g)) = EndedBlocks(q) \o Ended(g)
    BY EndedBlocksAppend
  <2>. DEFINE u == EndedBlocks(q)
              v == Ended(g)
  <2>. HIDE DEF u, v, r
  <2>8. From(Start, u \o v) = From(From(Start, u), v)
    BY <2>1, <2>6, FromJoin DEF u, v
  <2>9. From(Start, EndedBlocks(Append(q, g))) = Read(Append(q, g))
    BY <2>3, <2>5, <2>6, <2>7, <2>8 DEF u, v
  <2>10. Append(q, g) \in Seq(PrintedBlock)
    OBVIOUS
  <2>. HIDE DEF Read
  <2>. QED
    BY <2>9, <2>10
<1>. HIDE DEF P
<1>3. gs \in P
  BY <1>1, <1>2, SeqSetInduction
<1>. QED
  BY <1>3, ChosenType DEF P

\* The lines of the dump, as ReadDump writes them.
DumpOf(blocks) ==
  FlattenSeq([k \in DOMAIN blocks |->
    (IF blocks[k].readable THEN PrintBlock(blocks[k])
     ELSE <<[kind |-> "malformed"]>> \o Tail(PrintBlock(blocks[k])))
    \o (IF k = Len(blocks) THEN <<>> ELSE <<[kind |-> "blank"]>>)])

LEMMA DumpIs ==
  ASSUME NEW front \in Seq(PrintedBlock), NEW last \in PrintedBlock
  PROVE  DumpOf(Append(front, last)) = EndedBlocks(front) \o Piece(last)
<1>. DEFINE blocks == Append(front, last)
            n == Len(front)
            Printed(k) == Piece(blocks[k]) \o (IF k = Len(blocks) THEN <<>> ELSE <<Blank>>)
            parts == [k \in DOMAIN blocks |-> Printed(k)]
            ends == [k \in DOMAIN front |-> Ended(front[k])]
<1>1. /\ n \in Nat /\ Len(blocks) = n + 1 /\ DOMAIN blocks = 1..(n + 1) /\ DOMAIN front = 1..n
      /\ blocks[n + 1] = last
      /\ \A k \in 1..n : blocks[k] = front[k] /\ front[k] \in PrintedBlock
  OBVIOUS
<1>2. DumpOf(blocks) = FlattenSeq(parts)
  <2>. HIDE DEF blocks
  <2>. QED
    BY Zenon DEF DumpOf, Piece, Malformed, Blank
<1>3. \A g \in PrintedBlock : Piece(g) \in Seq(Lines) /\ Ended(g) \in Seq(Lines)
  <2>1. <<>> \in Seq(Snap)
    OBVIOUS
  <2>. QED
    BY <2>1, PieceRead, EndedRead
<1>. HIDE DEF blocks, n
<1>4. \A k \in 1..n : parts[k] = Ended(front[k])
  <2>. SUFFICES ASSUME NEW k \in 1..n PROVE parts[k] = Ended(front[k])
    OBVIOUS
  <2>1. k \in 1..(n + 1) /\ k # Len(blocks)
    BY <1>1
  <2>. QED
    BY <1>1, <2>1 DEF Ended
<1>5. parts[n + 1] = Piece(last)
  <2>1. n + 1 \in 1..(n + 1) /\ n + 1 = Len(blocks)
    BY <1>1
  <2>2. parts[n + 1] = Piece(last) \o <<>>
    BY <1>1, <2>1
  <2>3. Piece(last) \in Seq(Lines)
    BY <1>3
  <2>4. \A p \in Seq(Lines) : p \o <<>> = p
    OBVIOUS
  <2>. QED
    BY <2>2, <2>3, <2>4
<1>6. ends \in Seq(Seq(Lines)) /\ Len(ends) = n /\ EndedBlocks(front) = FlattenSeq(ends)
  BY EndedBlocksType DEF EndedBlocks, n
<1>7. \A k \in 1..n : ends[k] = Ended(front[k])
  BY <1>1
<1>8. parts \in Seq(Seq(Lines)) /\ Len(parts) = n + 1
  <2>0. \A k \in 1..(n + 1) : k \in 1..n \/ k = n + 1
    BY <1>1
  <2>1. \A k \in 1..(n + 1) : parts[k] \in Seq(Lines)
    <3>. HIDE DEF parts
    <3>. QED
      BY <1>1, <1>3, <1>4, <1>5, <2>0
  <2>2. parts = [k \in 1..(n + 1) |-> parts[k]]
    BY <1>1
  <2>. HIDE DEF parts
  <2>3. parts \in [1..(n + 1) -> Seq(Lines)]
    BY <2>1, <2>2
  <2>. QED
    BY <1>1, <2>3
<1>. HIDE DEF parts, ends
<1>9. parts = Append(ends, Piece(last))
  <2>. DEFINE p == Piece(last)
  <2>1. p \in Seq(Lines)
    BY <1>3
  <2>. HIDE DEF p
  <2>2. parts = Append(ends, p)
    BY <1>1, <1>4, <1>5, <1>6, <1>7, <1>8, <2>1 DEF p
  <2>. QED
    BY <2>2 DEF p
<1>10. FlattenSeq(parts) = FlattenSeq(ends) \o Piece(last)
  <2>1. Piece(last) \in Seq(Lines)
    BY <1>3
  <2>. QED
    BY <1>6, <1>9, <2>1, FlattenAppend
<1>. QED
  BY <1>2, <1>6, <1>10 DEF blocks

\* The parser reads the readable blocks, in their order.
LEMMA DumpParsed ==
  ASSUME NEW blocks \in Seq(PrintedBlock)
  PROVE  /\ ParseGoroutineDump(DumpOf(blocks)) = SnapsOf(Chosen(blocks, Readable))
         /\ Chosen(blocks, Readable) \in Seq(PrintedBlock)
<1>0. Chosen(blocks, Readable) \in Seq(PrintedBlock)
  BY ChosenType
<1>1. Start = Between0(<<>>) /\ Between0(<<>>) \in ParserState
  <2>1. <<>> \in Seq(Snap)
    OBVIOUS
  <2>. QED
    BY <2>1, ParserStates DEF Start, Between0
<1>2. CASE blocks = <<>>
  <2>1. DumpOf(<<>>) = <<>>
    <3>1. [k \in DOMAIN <<>> |->
             (IF <<>>[k].readable THEN PrintBlock(<<>>[k])
              ELSE <<[kind |-> "malformed"]>> \o Tail(PrintBlock(<<>>[k])))
             \o (IF k = Len(<<>>) THEN <<>> ELSE <<[kind |-> "blank"]>>)] = <<>>
      OBVIOUS
    <3>. QED
      BY <3>1, FlattenEmpty DEF DumpOf
  <2>2. ParseGoroutineDump(<<>>) = Flush(Start).results
    <3>1. <<>> \in Seq(Lines)
      OBVIOUS
    <3>. QED
      BY <3>1, ParseIs, FromEmpty
  <2>3. Flush(Start).results = <<>>
    <3>1. Start.current = <<>> /\ Start.results = <<>>
      BY DEF Start
    <3>2. Flush(Start) = Between0(<<>>)
      BY <1>1, <3>1, Flushes
    <3>. QED
      BY <3>2 DEF Between0
  <2>4. SnapsOf(Chosen(<<>>, Readable)) = <<>>
    BY ChosenEmpty DEF SnapsOf
  <2>. QED
    BY <1>0, <1>2, <2>1, <2>2, <2>3, <2>4
<1>3. CASE blocks # <<>>
  <2>1. PICK front \in Seq(PrintedBlock), last \in PrintedBlock : blocks = Append(front, last)
    <3>. DEFINE n == Len(blocks)
                f == [k \in 1..(n - 1) |-> blocks[k]]
    <3>1. n \in Nat /\ n # 0 /\ blocks[n] \in PrintedBlock
      BY <1>3
    <3>2. f \in Seq(PrintedBlock) /\ Len(f) = n - 1
      BY <3>1
    <3>3. blocks = Append(f, blocks[n])
      BY <3>1, <3>2
    <3>. QED
      BY <3>1, <3>2, <3>3
  <2>. DEFINE c == Chosen(front, Readable)
              r == SnapsOf(c)
              u == EndedBlocks(front)
              v == Piece(last)
  <2>2. c \in Seq(PrintedBlock) /\ From(Start, u) = Between0(r)
    BY BlocksRead
  <2>3. r \in Seq(Snap) /\ SnapsOf(Append(c, last)) = Append(r, SnapOf(last))
    <3>. HIDE DEF c
    <3>. QED
      BY <2>2, SnapsAppend
  <2>4. /\ v \in Seq(Lines) /\ Flush(From(Between0(r), v)) = Between0(Grown(r, last))
    <3>. HIDE DEF r
    <3>. QED
      BY <2>3, PieceRead
  <2>5. u \in Seq(Lines)
    BY EndedBlocksType
  <2>6. DumpOf(blocks) = u \o v
    BY <2>1, DumpIs
  <2>7. SnapsOf(Chosen(blocks, Readable)) = Grown(r, last)
    <3>1. Chosen(blocks, Readable) = IF last \in Readable THEN Append(c, last) ELSE c
      BY <2>1, ChosenAppend
    <3>. HIDE DEF c
    <3>. QED
      BY <2>3, <3>1 DEF Grown
  <2>. HIDE DEF c, r, u, v
  <2>8. u \o v \in Seq(Lines) /\ From(Start, u \o v) = From(From(Start, u), v)
    BY <2>4, <2>5, FromJoin
  <2>9. ParseGoroutineDump(u \o v) = Flush(From(Start, u \o v)).results
    BY <2>8, ParseIs
  <2>10. Between0(Grown(r, last)).results = Grown(r, last)
    BY DEF Between0
  <2>. QED
    BY <1>0, <2>2, <2>4, <2>6, <2>7, <2>8, <2>9, <2>10
<1>. QED
  BY <1>0, <1>2, <1>3

LEMMA DumpAnswered ==
  ASSUME NEW blocks \in Dumps, ReadDump(blocks)
  PROVE  DumpUnderstood'
<1>1. blocks \in Seq(PrintedBlock)
  BY InputAssumption
<1>2. PICK top : job' = [kind |-> "dump", blocks |-> blocks,
                         snaps |-> ParseGoroutineDump(DumpOf(blocks)), top |-> top]
  BY Zenon DEF ReadDump, DumpOf
<1>3. job'.blocks = blocks /\ job'.snaps = ParseGoroutineDump(DumpOf(blocks))
  BY <1>2
<1>. DEFINE c == Chosen(blocks, Readable)
<1>4. job'.snaps = SnapsOf(c) /\ c \in Seq(PrintedBlock)
  BY <1>1, <1>3, DumpParsed
<1>5. Where(blocks, LAMBDA g : g.readable) = c
  <2>0. \A k \in DOMAIN blocks : blocks[k] \in PrintedBlock
    BY <1>1
  <2>1. \A k \in DOMAIN blocks : blocks[k] \in PrintedBlock /\ blocks[k].readable \in BOOLEAN
    BY <2>0 DEF PrintedBlock
  <2>2. \A k \in DOMAIN blocks :
          (IF blocks[k].readable THEN <<blocks[k]>> ELSE <<>>) = PickOf(blocks[k], Readable)
    BY <2>1 DEF PickOf, Readable
  <2>3. [k \in DOMAIN blocks |-> IF blocks[k].readable THEN <<blocks[k]>> ELSE <<>>]
        = [k \in DOMAIN blocks |-> PickOf(blocks[k], Readable)]
    BY <2>2
  <2>. QED
    BY <2>3 DEF Where, Chosen
<1>. HIDE DEF c
<1>6. Len(c) \in Nat /\ DOMAIN c = 1..Len(c) /\ \A k \in 1..Len(c) : c[k] \in PrintedBlock
  BY <1>4
<1>7. Len(SnapsOf(c)) = Len(c) /\ \A k \in DOMAIN c : SnapsOf(c)[k] = SnapOf(c[k])
  <2>1. SnapsOf(c) \in [1..Len(c) -> {SnapOf(c[k]) : k \in 1..Len(c)}]
    BY <1>6 DEF SnapsOf
  <2>2. Len(SnapsOf(c)) = Len(c)
    <3>1. DOMAIN SnapsOf(c) = 1..Len(c) /\ SnapsOf(c) = [k \in 1..Len(c) |-> SnapOf(c[k])]
      BY <1>6 DEF SnapsOf
    <3>2. SnapsOf(c) \in Seq(Snap)
      <4>1. \A k \in 1..Len(c) : SnapOf(c[k]) \in Snap
        BY <1>6, BlockIs
      <4>. QED
        BY <1>6, <3>1, <4>1
    <3>. QED
      BY <1>6, <3>1, <3>2
  <2>. QED
    BY <1>6, <2>2 DEF SnapsOf
<1>8. ASSUME NEW g
      PROVE  /\ SnapOf(g).id = g.id /\ SnapOf(g).parent = g.parent
             /\ SnapOf(g).frames = g.frames /\ SnapOf(g).state = ClassifyState(g.says)
             /\ SnapOf(g).resource = ExtractResourceID(g.frames)
  BY DEF SnapOf, Closed0, Unresolved
<1>9. /\ Len(job'.snaps) = Len(c)
      /\ \A k \in DOMAIN c :
           LET g == c[k]
               s == job'.snaps[k]
           IN  /\ s.id = g.id /\ s.parent = g.parent /\ s.frames = g.frames
               /\ s.state = ClassifyState(g.says)
               /\ s.resource = ExtractResourceID(g.frames)
  BY <1>4, <1>7, <1>8
<1>10. ReadAsPrinted(blocks, job'.snaps)
  BY <1>5, <1>9 DEF ReadAsPrinted
<1>. QED
  BY <1>3, <1>10 DEF DumpUnderstood

\* Whatever the runtime prints, of however many goroutines: the parser reads the
\* goroutines of the readable blocks, each with its parent and frames.
THEOREM DumpsAreUnderstood == Spec => []DumpUnderstood
<1>1. Init => DumpUnderstood
  BY DEF Init, Idle, DumpUnderstood, Is
<1>2. DumpUnderstood /\ [Next]_vars => DumpUnderstood'
  <2>. SUFFICES ASSUME DumpUnderstood, Requests PROVE DumpUnderstood'
    BY NextAnswers
  <2>1. ASSUME NEW blocks \in Dumps, ReadDump(blocks) PROVE DumpUnderstood'
    BY <2>1, DumpAnswered
  <2>2. CASE job'.kind # "dump"
    BY <2>2 DEF DumpUnderstood, Is
  <2>3. CASE job' = job
    BY <2>3 DEF DumpUnderstood, Is
  <2>. QED
    BY <2>1, <2>2, <2>3, KindOf DEF Requests
<1>. QED
  BY <1>1, <1>2, PTL DEF Spec

-----------------------------------------------------------------------------
(* The flame graph *)

LEMMA PathType ==
  ASSUME NEW stack \in Seq(Nat), NEW maxDepth \in Nat
  PROVE  PathOf(stack, maxDepth) \in Seq(Nat)
<1>. DEFINE depth == IF maxDepth > 0 /\ Len(stack) > maxDepth THEN maxDepth ELSE Len(stack)
            cut == SubSeq(stack, 1, depth)
            rev == Reverse(cut)
            picks == [k \in DOMAIN rev |-> IF rev[k] # 0 THEN <<rev[k]>> ELSE <<>>]
<1>1. depth \in Nat /\ depth <= Len(stack)
  OBVIOUS
<1>. HIDE DEF depth
<1>2. cut \in Seq(Nat)
  BY <1>1
<1>. HIDE DEF cut
<1>3. rev \in Seq(Nat)
  <2>1. Len(cut) \in Nat /\ \A i \in 1..Len(cut) : (Len(cut) - i) + 1 \in 1..Len(cut)
    BY <1>2
  <2>2. rev \in [1..Len(cut) -> Nat]
    BY <1>2, <2>1 DEF Reverse
  <2>. HIDE DEF rev
  <2>. QED
    BY <2>1, <2>2
<1>. HIDE DEF rev
<1>4. picks \in Seq(Seq(Nat))
  <2>1. Len(rev) \in Nat /\ DOMAIN rev = 1..Len(rev) /\ \A k \in 1..Len(rev) : rev[k] \in Nat
    BY <1>3
  <2>2. picks \in [1..Len(rev) -> Seq(Nat)]
    BY <2>1
  <2>. HIDE DEF picks
  <2>. QED
    BY <2>1, <2>2
<1>5. PathOf(stack, maxDepth) = FlattenSeq(picks)
  BY DEF PathOf, Where, depth, cut, rev
<1>. HIDE DEF picks
<1>. QED
  BY <1>4, <1>5, FlattenSeqType

\* The prefixes of a path are its initial parts.
LEMMA PrefixesIs ==
  ASSUME NEW q \in Seq(Nat)
  PROVE  /\ Prefixes(q) \subseteq Seq(Nat)
         /\ <<>> \in Prefixes(q)
         /\ \A p \in Seq(Nat) : p \in Prefixes(q) <=> IsPrefix(p, q)
<1>1. Len(q) \in Nat
  OBVIOUS
<1>2. \A l \in 0..Len(q) : SubSeq(q, 1, l) \in Seq(Nat) /\ Len(SubSeq(q, 1, l)) = l
  BY <1>1
<1>3. SubSeq(q, 1, 0) = <<>>
  OBVIOUS
<1>4. \A p \in Seq(Nat) : SubSeq(p, 1, Len(p)) = p /\ Len(p) \in Nat
  OBVIOUS
<1>5. ASSUME NEW p \in Seq(Nat), p \in Prefixes(q) PROVE IsPrefix(p, q)
  <2>1. PICK l \in 0..Len(q) : p = SubSeq(q, 1, l)
    BY <1>5 DEF Prefixes
  <2>2. Len(p) = l
    BY <1>2, <2>1
  <2>. QED
    BY <1>1, <1>4, <2>1, <2>2 DEF IsPrefix
<1>6. ASSUME NEW p \in Seq(Nat), IsPrefix(p, q) PROVE p \in Prefixes(q)
  <2>1. Len(p) \in 0..Len(q) /\ p = SubSeq(q, 1, Len(p))
    BY <1>1, <1>4, <1>6 DEF IsPrefix
  <2>. QED
    BY <2>1 DEF Prefixes
<1>7. Prefixes(q) \subseteq Seq(Nat)
  BY <1>2 DEF Prefixes
<1>8. <<>> \in Prefixes(q)
  <2>1. 0 \in 0..Len(q)
    BY <1>1
  <2>. QED
    BY <1>3, <2>1 DEF Prefixes
<1>. QED
  BY <1>5, <1>6, <1>7, <1>8

\* What the code builds, goroutine by goroutine.
Visited(tree, nodes) ==
  [p \in DOMAIN tree \cup nodes |->
     (IF p \in DOMAIN tree THEN tree[p] ELSE 0) + (IF p \in nodes THEN 1 ELSE 0)]

\* The tree of the goroutines in M, of which k has the path path[k].
Passing(path, M, p) == {k \in M : p \in Prefixes(path[k])}
NodesOf(path, M) == {<<>>} \cup UNION {Prefixes(path[k]) : k \in M}
TreeOf(path, M) == [p \in NodesOf(path, M) |-> Cardinality(Passing(path, M, p))]

LEMMA TreeGrows ==
  ASSUME NEW path, NEW M, IsFiniteSet(M), NEW k, k \notin M
  PROVE  Visited(TreeOf(path, M), Prefixes(path[k])) = TreeOf(path, M \cup {k})
<1>. DEFINE nodes == Prefixes(path[k])
            N == M \cup {k}
<1>1. DOMAIN TreeOf(path, M) = NodesOf(path, M)
  BY DEF TreeOf
<1>2. NodesOf(path, M) \cup nodes = NodesOf(path, N)
  BY DEF NodesOf
<1>3. ASSUME NEW p
      PROVE  /\ IsFiniteSet(Passing(path, M, p)) /\ Cardinality(Passing(path, M, p)) \in Nat
             /\ p \in nodes => Passing(path, N, p) = Passing(path, M, p) \cup {k}
             /\ p \notin nodes => Passing(path, N, p) = Passing(path, M, p)
             /\ k \notin Passing(path, M, p)
             /\ p \notin NodesOf(path, M) => Passing(path, M, p) = {}
  <2>1. Passing(path, M, p) \subseteq M
    BY DEF Passing
  <2>2. IsFiniteSet(Passing(path, M, p)) /\ Cardinality(Passing(path, M, p)) \in Nat
    BY <2>1, FS_Subset, FS_CardinalityType
  <2>. QED
    BY <2>2 DEF Passing, NodesOf
<1>4. ASSUME NEW p
      PROVE  Cardinality(Passing(path, N, p))
               = Cardinality(Passing(path, M, p)) + (IF p \in nodes THEN 1 ELSE 0)
  <2>. DEFINE old == Passing(path, M, p)
              new == Passing(path, N, p)
  <2>0. IsFiniteSet(old) /\ Cardinality(old) \in Nat /\ k \notin old
    BY <1>3
  <2>1. CASE p \in nodes
    <3>1. new = old \cup {k}
      BY <1>3, <2>1
    <3>. HIDE DEF old, new, nodes
    <3>2. Cardinality(old \cup {k}) = Cardinality(old) + 1
      BY <2>0, FS_AddElement
    <3>3. Cardinality(new) = Cardinality(old) + (IF p \in nodes THEN 1 ELSE 0)
      BY <2>1, <3>1, <3>2
    <3>. QED
      BY <3>3 DEF old, new
  <2>2. CASE p \notin nodes
    <3>1. new = old
      BY <1>3, <2>2
    <3>. HIDE DEF old, new, nodes
    <3>3. Cardinality(new) = Cardinality(old) + (IF p \in nodes THEN 1 ELSE 0)
      BY <2>0, <2>2, <3>1
    <3>. QED
      BY <3>3 DEF old, new
  <2>. QED
    BY <2>1, <2>2
<1>5. ASSUME NEW p, p \notin NodesOf(path, M) PROVE Cardinality(Passing(path, M, p)) = 0
  BY <1>3, <1>5, FS_EmptySet
<1>. HIDE DEF nodes, N
<1>6. ASSUME NEW p \in NodesOf(path, N)
      PROVE  (IF p \in NodesOf(path, M) THEN TreeOf(path, M)[p] ELSE 0)
               + (IF p \in nodes THEN 1 ELSE 0) = Cardinality(Passing(path, N, p))
  <2>1. p \in NodesOf(path, M) => TreeOf(path, M)[p] = Cardinality(Passing(path, M, p))
    BY DEF TreeOf
  <2>. QED
    BY <1>4, <1>5, <2>1
<1>7. Visited(TreeOf(path, M), nodes)
      = [p \in NodesOf(path, N) |-> Cardinality(Passing(path, N, p))]
  BY <1>1, <1>2, <1>6 DEF Visited
<1>. QED
  BY <1>7 DEF TreeOf, nodes, N

LEMMA TreeStart ==
  ASSUME NEW path
  PROVE  TreeOf(path, {}) = [p \in {<<>>} |-> 0]
<1>1. NodesOf(path, {}) = {<<>>} /\ \A p : Passing(path, {}, p) = {}
  BY DEF NodesOf, Passing
<1>2. Cardinality({}) = 0
  BY FS_EmptySet
<1>. QED
  BY <1>1, <1>2 DEF TreeOf

\* The trees that the fold passes through, and its step.
Trees == UNION {[S -> Nat] : S \in SUBSET Seq(Nat)}
VisitStep(path, T) == [q \in Trees \X T |-> Visited(q[1], Prefixes(path[q[2]]))]

LEMMA VisitTyped ==
  ASSUME NEW T, NEW path \in [T -> Seq(Nat)], NEW tree \in Trees, NEW k \in T
  PROVE  /\ Visited(tree, Prefixes(path[k])) \in Trees
         /\ VisitStep(path, T)[<<tree, k>>] = Visited(tree, Prefixes(path[k]))
<1>. DEFINE nodes == Prefixes(path[k])
            both == DOMAIN tree \cup nodes
<1>1. PICK S \in SUBSET Seq(Nat) : tree \in [S -> Nat]
  BY DEF Trees
<1>2. nodes \subseteq Seq(Nat)
  BY PrefixesIs
<1>. HIDE DEF nodes
<1>3. both \in SUBSET Seq(Nat) /\ \A p \in DOMAIN tree : tree[p] \in Nat
  BY <1>1, <1>2
<1>4. Visited(tree, nodes) \in [both -> Nat]
  <2>1. \A p \in both : (IF p \in DOMAIN tree THEN tree[p] ELSE 0)
                          + (IF p \in nodes THEN 1 ELSE 0) \in Nat
    BY <1>3
  <2>. QED
    BY <2>1 DEF Visited
<1>5. Visited(tree, nodes) \in Trees
  <2>. HIDE DEF both
  <2>. QED
    BY <1>3, <1>4 DEF Trees
<1>6. VisitStep(path, T)[<<tree, k>>] = Visited(tree, nodes)
  BY DEF VisitStep, nodes
<1>. QED
  BY <1>5, <1>6 DEF nodes

\* The first n numbers.
Numbers(n) == [k \in 1..n |-> k]

LEMMA NumbersIs ==
  ASSUME NEW n \in Nat
  PROVE  /\ Numbers(n) \in Seq(1..n)
         /\ \A m \in 1..n : m \in 1..n /\ m - 1 \in Nat
         /\ Numbers(n + 1) = Append(Numbers(n), n + 1)
<1>1. Numbers(n) \in [1..n -> 1..n] /\ Numbers(n + 1) \in [1..(n + 1) -> 1..(n + 1)]
  BY DEF Numbers
<1>0. \A m \in Nat : \A q : q \in [1..m -> 1..m] => q \in Seq(1..m) /\ Len(q) = m
  OBVIOUS
<1>2. Numbers(n) \in Seq(1..n) /\ Len(Numbers(n)) = n
      /\ Numbers(n + 1) \in Seq(1..(n + 1)) /\ Len(Numbers(n + 1)) = n + 1
  <2>1. n + 1 \in Nat
    OBVIOUS
  <2>. QED
    BY <1>0, <1>1, <2>1
<1>3. \A k \in 1..n : Numbers(n + 1)[k] = Numbers(n)[k]
  BY DEF Numbers
<1>4. Numbers(n + 1)[n + 1] = n + 1
  BY DEF Numbers
<1>. QED
  BY <1>2, <1>3, <1>4

LEMMA TreeBuilt ==
  ASSUME NEW n \in Nat, NEW path \in [1..n -> Seq(Nat)], NEW M \in SUBSET (1..n)
  PROVE  Folded(VisitStep(path, 1..n), [p \in {<<>>} |-> 0], Chosen(Numbers(n), M))
           = TreeOf(path, M)
<1>. DEFINE T == 1..n
            base == [p \in {<<>>} |-> 0]
            step == VisitStep(path, T)
            Fold(m) == Folded(step, base, Chosen(Numbers(m), M))
            X == {m \in Nat : m <= n => Fold(m) = TreeOf(path, M \cap 1..m)}
<1>1. 0 \in X
  <2>1. Numbers(0) = <<>>
    BY DEF Numbers
  <2>2. Fold(0) = base
    BY <2>1, ChosenEmpty, FoldedEmpty
  <2>3. M \cap 1..0 = {}
    OBVIOUS
  <2>. HIDE DEF Fold
  <2>. QED
    BY <2>2, <2>3, TreeStart
<1>2. ASSUME NEW m \in Nat, m \in X PROVE m + 1 \in X
  <2>. SUFFICES ASSUME m + 1 <= n PROVE Fold(m + 1) = TreeOf(path, M \cap 1..(m + 1))
    OBVIOUS
  <2>1. m + 1 \in T /\ Fold(m) = TreeOf(path, M \cap 1..m)
    BY <1>2
  <2>2. Numbers(m) \in Seq(T) /\ Numbers(m + 1) = Append(Numbers(m), m + 1)
    <3>1. Numbers(m) \in Seq(1..m) /\ Numbers(m + 1) = Append(Numbers(m), m + 1)
      BY NumbersIs
    <3>2. 1..m \subseteq T
      BY <2>1
    <3>3. Seq(1..m) \subseteq Seq(T)
      BY <3>2
    <3>. QED
      BY <3>1, <3>3
  <2>. DEFINE c == Chosen(Numbers(m), M)
  <2>3. c \in Seq(T)
    BY <2>2, ChosenType
  <2>4. Chosen(Numbers(m + 1), M) = IF m + 1 \in M THEN Append(c, m + 1) ELSE c
    <3>. DEFINE e == m + 1
    <3>. HIDE DEF e, T
    <3>1. e \in T
      BY <2>1 DEF e
    <3>2. Chosen(Append(Numbers(m), e), M) = IF e \in M THEN Append(c, e) ELSE c
      BY <2>2, <3>1, ChosenAppend
    <3>. QED
      BY <2>2, <3>2 DEF e
  <2>5. IsFiniteSet(M \cap 1..m) /\ m + 1 \notin M \cap 1..m /\ M \cap 1..m \in SUBSET T
    <3>1. IsFiniteSet(1..m)
      BY FS_Interval
    <3>2. IsFiniteSet(M \cap 1..m)
      BY <3>1, FS_Subset
    <3>. QED
      BY <3>2
  <2>0. 1..(m + 1) = 1..m \cup {m + 1}
    OBVIOUS
  <2>6. CASE m + 1 \in M
    <3>1. M \cap 1..(m + 1) = (M \cap 1..m) \cup {m + 1}
      BY <2>0, <2>6
    <3>2. Visited(TreeOf(path, M \cap 1..m), Prefixes(path[m + 1]))
          = TreeOf(path, (M \cap 1..m) \cup {m + 1})
      <4>. DEFINE old == M \cap 1..m
                  e == m + 1
      <4>. HIDE DEF T, old, e
      <4>1. path \in [T -> Seq(Nat)] /\ e \in T /\ e \notin old
            /\ IsFiniteSet(old) /\ old \in SUBSET T
        BY <2>1, <2>5 DEF T, old, e
      <4>2. Visited(TreeOf(path, old), Prefixes(path[e])) = TreeOf(path, old \cup {e})
        BY <4>1, TreeGrows
      <4>. QED
        BY <4>2 DEF old, e
    <3>3. Fold(m + 1) = step[<<Fold(m), m + 1>>]
      <4>1. Folded(step, base, Append(c, m + 1)) = step[<<Folded(step, base, c), m + 1>>]
        <5>. DEFINE e == m + 1
        <5>. HIDE DEF e, c, step, base, T
        <5>1. e \in T
          BY <2>1 DEF e
        <5>. QED
          BY <2>3, <5>1, FoldedAppend DEF e
      <4>. QED
        BY <2>4, <2>6, <4>1
    <3>4. TreeOf(path, M \cap 1..m) \in Trees
      <4>1. NodesOf(path, M \cap 1..m) \in SUBSET Seq(Nat)
        <5>1. \A k \in M \cap 1..m : Prefixes(path[k]) \subseteq Seq(Nat)
          BY <2>5, PrefixesIs
        <5>2. <<>> \in Seq(Nat)
          OBVIOUS
        <5>. QED
          BY <5>1, <5>2 DEF NodesOf
      <4>2. \A p : Cardinality(Passing(path, M \cap 1..m, p)) \in Nat
        <5>1. \A p : Passing(path, M \cap 1..m, p) \subseteq M \cap 1..m
          BY DEF Passing
        <5>. QED
          BY <2>5, <5>1, FS_Subset, FS_CardinalityType
      <4>3. TreeOf(path, M \cap 1..m) \in [NodesOf(path, M \cap 1..m) -> Nat]
        BY <4>2 DEF TreeOf
      <4>. QED
        BY <4>1, <4>3 DEF Trees
    <3>5. step[<<TreeOf(path, M \cap 1..m), m + 1>>]
          = Visited(TreeOf(path, M \cap 1..m), Prefixes(path[m + 1]))
      <4>. HIDE DEF T
      <4>1. path \in [T -> Seq(Nat)]
        BY DEF T
      <4>. QED
        BY <2>1, <3>4, <4>1, VisitTyped
    <3>. HIDE DEF Fold, step
    <3>. QED
      BY <2>1, <3>1, <3>2, <3>3, <3>5
  <2>7. CASE m + 1 \notin M
    <3>1. M \cap 1..(m + 1) = M \cap 1..m
      BY <2>0, <2>7
    <3>2. Fold(m + 1) = Fold(m)
      BY <2>4, <2>7
    <3>. HIDE DEF Fold
    <3>. QED
      BY <2>1, <3>1, <3>2
  <2>. QED
    BY <2>6, <2>7
<1>. HIDE DEF X
<1>3. n \in X
  BY <1>1, <1>2, NatSetInduction
<1>4. M \cap 1..n = M
  OBVIOUS
<1>5. Fold(n) = TreeOf(path, M \cap 1..n)
  BY <1>3 DEF X
<1>. QED
  BY <1>4, <1>5

LEMMA FlameIs ==
  ASSUME NEW list \in Seq([state : STRING, stack : Seq(Nat)]), NEW state, NEW maxDepth \in Nat
  PROVE  LET path == [k \in 1..Len(list) |-> PathOf(list[k].stack, maxDepth)]
         IN  BuildFlamegraph(list, state, maxDepth) = TreeOf(path, Matching(list, state))
<1>. DEFINE n == Len(list)
            T == 1..n
            path == [k \in T |-> PathOf(list[k].stack, maxDepth)]
            M == Matching(list, state)
            base == [p \in {<<>>} |-> 0]
            seq == Chosen(Numbers(n), M)
            step == VisitStep(path, T)
            VisitOne(it, s) ==
              IF s = {} THEN base
              ELSE Visited(it[s \ {Max(s)}], Prefixes(PathOf(list[seq[Max(s)]].stack, maxDepth)))
            Solves(it) == it = [s \in SUBSET DOMAIN seq |-> VisitOne(it, s)]
<1>1. /\ n \in Nat /\ DOMAIN list = T
      /\ \A k \in T : list[k].stack \in Seq(Nat)
  <2>1. n \in Nat /\ DOMAIN list = T
        /\ \A k \in T : list[k] \in [state : STRING, stack : Seq(Nat)]
    <3>. DEFINE R == [state : STRING, stack : Seq(Nat)]
    <3>1. list \in Seq(R)
      OBVIOUS
    <3>. HIDE DEF R
    <3>2. n \in Nat /\ DOMAIN list = T /\ \A k \in T : list[k] \in R
      BY <3>1
    <3>. QED
      BY <3>2 DEF R
  <2>. QED
    BY <2>1
<1>2. path \in [T -> Seq(Nat)] /\ M \in SUBSET T
  BY <1>1, PathType DEF Matching
<1>3. BuildFlamegraph(list, state, maxDepth) = (CHOOSE it : Solves(it))[DOMAIN seq]
  <2>. DEFINE W == Where([k \in DOMAIN list |-> k], LAMBDA k : k \in Matching(list, state))
              VisitW(it, s) ==
                IF s = {} THEN base
                ELSE Visited(it[s \ {Max(s)}], Prefixes(PathOf(list[W[Max(s)]].stack, maxDepth)))
  <2>1. BuildFlamegraph(list, state, maxDepth)
        = (CHOOSE it : it = [s \in SUBSET DOMAIN W |-> VisitW(it, s)])[DOMAIN W]
    BY DEF BuildFlamegraph, FoldLeft, MapThenFoldSet, Visited, Where
  <2>2. W = seq
    <3>1. [k \in DOMAIN list |-> k] = Numbers(n)
      BY <1>1 DEF Numbers
    <3>. HIDE DEF n
    <3>. QED
      BY <3>1 DEF Where, Chosen, PickOf
  <2>. HIDE DEF W, seq, base
  <2>. QED
    BY <2>1, <2>2
<1>4. seq \in Seq(T)
  <2>1. Numbers(n) \in Seq(T)
    BY <1>1, NumbersIs
  <2>. HIDE DEF n, M
  <2>. QED
    BY <2>1, ChosenType
<1>5. base \in Trees
  <2>1. {<<>>} \in SUBSET Seq(Nat) /\ base \in [{<<>>} -> Nat]
    OBVIOUS
  <2>. HIDE DEF base
  <2>. QED
    BY <2>1 DEF Trees
<1>6. \A a \in Trees, e \in T :
        step[<<a, e>>] \in Trees /\ step[<<a, e>>] = Visited(a, Prefixes(path[e]))
  <2>0. path \in [T -> Seq(Nat)]
    BY <1>2
  <2>. HIDE DEF T, path
  <2>. SUFFICES ASSUME NEW a \in Trees, NEW e \in T
                PROVE  step[<<a, e>>] \in Trees
                       /\ step[<<a, e>>] = Visited(a, Prefixes(path[e]))
    OBVIOUS
  <2>. QED
    BY <2>0, VisitTyped
<1>. HIDE DEF base, seq, step
<1>7. PICK it :
        /\ FoldSolves(it, step, base, seq)
        /\ Folded(step, base, seq) = it[1..Len(seq)]
        /\ \A s \in SUBSET (1..Len(seq)) : it[s] \in Trees
  <2>. HIDE DEF T
  <2>. QED
    BY <1>4, <1>5, <1>6, FoldTyped
<1>8. /\ Len(seq) \in Nat /\ DOMAIN seq = 1..Len(seq)
      /\ \A k \in 1..Len(seq) : seq[k] \in T
  BY <1>4
<1>9. ASSUME NEW s \in SUBSET (1..Len(seq)) PROVE it[s] = VisitOne(it, s)
  <2>1. it[s] = FoldStep(it, step, base, seq, s)
    BY <1>7 DEF FoldSolves
  <2>2. CASE s = {}
    BY <2>1, <2>2 DEF FoldStep
  <2>3. CASE s # {}
    <3>1. Max(s) \in 1..Len(seq) /\ s \ {Max(s)} \in SUBSET (1..Len(seq))
      BY <1>8, <2>3, MaxIn
    <3>2. it[s] = step[<<it[s \ {Max(s)}], seq[Max(s)]>>]
      BY <2>1, <2>3 DEF FoldStep
    <3>3. it[s \ {Max(s)}] \in Trees /\ seq[Max(s)] \in T
      BY <1>7, <1>8, <3>1
    <3>4. path[seq[Max(s)]] = PathOf(list[seq[Max(s)]].stack, maxDepth)
      BY <3>3
    <3>5. it[s] = Visited(it[s \ {Max(s)}], Prefixes(path[seq[Max(s)]]))
      <4>. HIDE DEF T, path
      <4>. QED
        BY <1>6, <3>2, <3>3
    <3>. HIDE DEF path
    <3>. QED
      BY <2>3, <3>4, <3>5
  <2>. QED
    BY <2>2, <2>3
<1>10. Solves(it)
  <2>1. it = [s \in SUBSET (1..Len(seq)) |-> it[s]]
    BY <1>7 DEF FoldSolves
  <2>. HIDE DEF VisitOne
  <2>. QED
    BY <1>8, <1>9, <2>1
<1>. DEFINE c == CHOOSE c : Solves(c)
<1>11. Solves(c)
  <2>. HIDE DEF Solves
  <2>. QED
    BY <1>10
<1>12. Agreeing(c, it, Len(seq))
  <2>1. \A s \in SUBSET (1..Len(seq)) : c[s] = VisitOne(c, s)
    <3>. HIDE DEF c, VisitOne
    <3>. QED
      BY <1>8, <1>11
  <2>. HIDE DEF c
  <2>2. c[{}] = it[{}]
    BY <1>9, <2>1
  <2>3. ASSUME NEW s \in SUBSET (1..Len(seq)), s # {}, c[s \ {Max(s)}] = it[s \ {Max(s)}]
        PROVE  c[s] = it[s]
    BY <1>9, <2>1, <2>3
  <2>. QED
    BY <2>2, <2>3 DEF Agreeing
<1>13. c[DOMAIN seq] = Folded(step, base, seq)
  <2>1. \A s \in SUBSET (1..Len(seq)) : c[s] = it[s]
    <3>. HIDE DEF c
    <3>. QED
      BY <1>8, <1>12, FoldAgrees
  <2>. HIDE DEF c
  <2>2. c[1..Len(seq)] = it[1..Len(seq)]
    BY <2>1
  <2>. QED
    BY <1>7, <1>8, <2>2
<1>14. Folded(step, base, seq) = TreeOf(path, M)
  <2>. HIDE DEF n, path, M
  <2>. QED
    BY <1>1, <1>2, TreeBuilt DEF step, base, seq
<1>. QED
  BY <1>3, <1>13, <1>14

LEMMA SumOfFibres ==
  ASSUME NEW M, IsFiniteSet(M), NEW path, NEW folded,
         folded = [q \in {path[k] : k \in M} |-> Cardinality({k \in M : path[k] = q})],
         NEW S \in SUBSET {path[k] : k \in M}
  PROVE  SumOver(folded, S) = Cardinality({k \in M : path[k] \in S})
<1>. DEFINE Over(s) == {k \in M : path[k] \in s}
<1>1. IsFiniteSet(S)
  <2>1. IsFiniteSet({path[k] : k \in M})
    <3>. DEFINE Q == {path[k] : k \in M}
                f == [k \in M |-> path[k]]
    <3>1. f \in Surjection(M, Q)
      BY DEF Surjection
    <3>. HIDE DEF f, Q
    <3>2. IsFiniteSet(Q)
      BY <3>1, FS_Surjection
    <3>. QED
      BY <3>2 DEF Q
  <2>. QED
    BY <2>1, FS_Subset
<1>2. PICK i : Unfolds(i, folded, S)
  BY <1>1, UnfoldsExists
<1>3. \A s \in SUBSET S : i[s] = StepOf(i, folded, s)
  BY <1>2 DEF Unfolds
<1>4. \A s : IsFiniteSet(Over(s)) /\ Cardinality(Over(s)) \in Nat
  BY FS_Subset, FS_CardinalityType
<1>. DEFINE P == {s \in SUBSET S : i[s] = Cardinality(Over(s))}
<1>5. {} \in P
  <2>1. i[{}] = 0
    BY <1>3 DEF StepOf
  <2>2. Over({}) = {}
    OBVIOUS
  <2>. HIDE DEF Over
  <2>. QED
    BY <2>1, <2>2, FS_EmptySet
<1>6. ASSUME NEW s \in SUBSET S, \A x \in s : s \ {x} \in P PROVE s \in P
  <2>1. CASE s = {}
    BY <1>5, <2>1
  <2>2. CASE s # {}
    <3>. DEFINE x == CHOOSE x \in s : TRUE
    <3>1. x \in s /\ x \in S
      BY <2>2
    <3>2. i[s] = folded[x] + i[s \ {x}]
      BY <1>3, <2>2 DEF StepOf
    <3>3. i[s \ {x}] = Cardinality(Over(s \ {x}))
      BY <1>6, <3>1
    <3>. HIDE DEF x
    <3>4. folded[x] = Cardinality(Over({x}))
      <4>1. {k \in M : path[k] = x} = Over({x})
        OBVIOUS
      <4>. QED
        BY <3>1, <4>1
    <3>5. Over(s) = Over({x}) \cup Over(s \ {x}) /\ Over({x}) \cap Over(s \ {x}) = {}
      BY <3>1
    <3>6. Cardinality(Over(s)) = Cardinality(Over({x})) + Cardinality(Over(s \ {x}))
      <4>. HIDE DEF Over
      <4>1. Cardinality(Over({x}) \cup Over(s \ {x}))
            = Cardinality(Over({x})) + Cardinality(Over(s \ {x}))
              - Cardinality(Over({x}) \cap Over(s \ {x}))
        BY <1>4, FS_Union
      <4>2. Cardinality(Over({x}) \cap Over(s \ {x})) = 0
        BY <3>5, FS_EmptySet
      <4>. DEFINE u == Cardinality(Over({x}))
                  v == Cardinality(Over(s \ {x}))
      <4>3. u \in Nat /\ v \in Nat
        BY <1>4
      <4>4. Cardinality(Over(s)) = u + v - 0
        BY <3>5, <4>1, <4>2
      <4>. HIDE DEF u, v
      <4>5. Cardinality(Over(s)) = u + v
        BY <4>3, <4>4
      <4>. QED
        BY <4>5 DEF u, v
    <3>. HIDE DEF Over
    <3>. QED
      BY <3>2, <3>3, <3>4, <3>6
  <2>. QED
    BY <2>1, <2>2
<1>. HIDE DEF P
<1>7. S \in P
  BY <1>1, <1>5, <1>6, SubsetInduction
<1>. QED
  BY <1>1, <1>2, <1>7, SumUnfolds DEF P

LEMMA FlameAnswered ==
  ASSUME NEW list \in FlameInputs, NEW state, NEW maxDepth \in Nat, Flame(list, state, maxDepth)
  PROVE  FoldedAgrees'
<1>. DEFINE n == Len(list)
            path == [k \in 1..n |-> PathOf(list[k].stack, maxDepth)]
            M == Matching(list, state)
            folded == FoldedStacks(list, state, maxDepth)
            tree == TreeOf(path, M)
<1>1. list \in Seq([state : STRING, stack : Seq(Nat)])
  BY InputAssumption
<1>2. BuildFlamegraph(list, state, maxDepth) = tree
  BY <1>1, FlameIs
<1>3. /\ n \in Nat /\ DOMAIN list = 1..n /\ M \in SUBSET (1..n)
      /\ \A k \in 1..n : list[k].stack \in Seq(Nat)
  <2>1. n \in Nat /\ DOMAIN list = 1..n
        /\ \A k \in 1..n : list[k] \in [state : STRING, stack : Seq(Nat)]
    <3>. DEFINE R == [state : STRING, stack : Seq(Nat)]
    <3>1. list \in Seq(R)
      BY <1>1
    <3>. HIDE DEF R
    <3>2. n \in Nat /\ DOMAIN list = 1..n /\ \A k \in 1..n : list[k] \in R
      BY <3>1
    <3>. QED
      BY <3>2 DEF R
  <2>. QED
    BY <2>1 DEF Matching
<1>4. \A k \in M : path[k] = PathOf(list[k].stack, maxDepth) /\ path[k] \in Seq(Nat)
  BY <1>3, PathType
<1>5. IsFiniteSet(M)
  <2>1. IsFiniteSet(1..n)
    BY <1>3, FS_Interval
  <2>. QED
    BY <1>3, <2>1, FS_Subset
<1>6. folded = [q \in {path[k] : k \in M} |-> Cardinality({k \in M : path[k] = q})]
  <2>1. {path[k] : k \in M} = {PathOf(list[k].stack, maxDepth) : k \in M}
    BY <1>4
  <2>2. \A q : {k \in M : path[k] = q} = {k \in M : PathOf(list[k].stack, maxDepth) = q}
    BY <1>4
  <2>3. folded = [q \in {PathOf(list[k].stack, maxDepth) : k \in M} |->
                    Cardinality({k \in M : PathOf(list[k].stack, maxDepth) = q})]
    BY DEF FoldedStacks
  <2>. HIDE DEF path, M, folded
  <2>. QED
    BY <2>1, <2>2, <2>3
<1>7. SumsOfFolded(tree, folded)
  <2>. SUFFICES ASSUME NEW p \in NodesOf(path, M)
                PROVE  Cardinality(Passing(path, M, p))
                         = SumOver(folded, {q \in DOMAIN folded : IsPrefix(p, q)})
    <3>. HIDE DEF path, M, folded
    <3>. QED
      BY DEF SumsOfFolded, SumOver, TreeOf
  <2>. DEFINE S == {q \in DOMAIN folded : IsPrefix(p, q)}
  <2>1. DOMAIN folded = {path[k] : k \in M}
    <3>. HIDE DEF path, M, folded
    <3>. QED
      BY <1>6
  <2>. HIDE DEF path, M, folded
  <2>2. p \in Seq(Nat)
    <3>1. <<>> \in Seq(Nat)
      OBVIOUS
    <3>. QED
      BY <1>4, <3>1, PrefixesIs DEF NodesOf
  <2>3. Passing(path, M, p) = {k \in M : path[k] \in S}
    BY <1>4, <2>1, <2>2, PrefixesIs DEF Passing
  <2>4. SumOver(folded, S) = Cardinality({k \in M : path[k] \in S})
    <3>1. S \in SUBSET {path[k] : k \in M}
      BY <2>1
    <3>. HIDE DEF S
    <3>. QED
      BY <1>5, <1>6, <3>1, SumOfFibres
  <2>. QED
    BY <2>3, <2>4
<1>8. job' = [kind |-> "flame", list |-> list, state |-> state, maxDepth |-> maxDepth,
              tree |-> BuildFlamegraph(list, state, maxDepth), folded |-> folded]
  BY Zenon DEF Flame
<1>9. job'.tree = tree /\ job'.folded = folded
  BY <1>2, <1>8
<1>. HIDE DEF tree, folded
<1>. QED
  BY <1>7, <1>9 DEF FoldedAgrees

LEMMA DepthsAreNat == \A depth \in 0..2 : depth \in Nat
OBVIOUS

\* Whatever the stacks, the depth and the filter: the nodes of the tree and the
\* folded lines count the same goroutines.
THEOREM FlamesAgree == Spec => []FoldedAgrees
<1>1. Init => FoldedAgrees
  BY DEF Init, Idle, FoldedAgrees, Is
<1>2. FoldedAgrees /\ [Next]_vars => FoldedAgrees'
  <2>. SUFFICES ASSUME FoldedAgrees, Requests PROVE FoldedAgrees'
    BY NextAnswers
  <2>1. ASSUME NEW list \in FlameInputs, NEW state \in {"", "WAITING"},
               NEW depth \in 0..2, Flame(list, state, depth)
        PROVE  FoldedAgrees'
    BY <2>1, DepthsAreNat, FlameAnswered
  <2>2. CASE job'.kind # "flame"
    BY <2>2 DEF FoldedAgrees, Is
  <2>3. CASE job' = job
    BY <2>3 DEF FoldedAgrees, Is
  <2>. QED
    BY <2>1, <2>2, <2>3, KindOf DEF Requests
<1>. QED
  BY <1>1, <1>2, PTL DEF Spec
=============================================================================
