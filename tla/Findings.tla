------------------------------ MODULE Findings ------------------------------
(***************************************************************************)
(* What the handlers compute from a snapshot of the engine: leaks, groups, *)
(* samples, contention and the ranked insights (internal/analysis: leak.go, *)
(* group.go, sampler.go, contention.go, insights.go) and the goroutine     *)
(* list of api/http.go.  Times are in units of 100 ms.  Function names are *)
(* members of a set with their short name, a positive number, so that the  *)
(* order of keys is the order of numbers.                                  *)
(***************************************************************************)
EXTENDS WaitGraph

CONSTANTS LibraryFrames,   \* functions of syscall and internal/, no user code
          ShortName,       \* shortFuncName: function -> positive number
          PackageOf,       \* packageFromFunc: function -> positive number
          MaxReported,     \* IDs named by the blocking insight (20 in the code)
          ManyBlocked,     \* above it the blocking insight is urgent (50)
          ManyGoroutines   \* above it the count insight is urgent (5000)

LeakNS == 300              \* defaultLeakThresholdNS, 30 s
BlockNS == 10              \* defaultLongBlockThresholdNS, 1 s
NoticeNS == 1              \* 100 ms, the sampler's first step
MaxEntries == 5            \* groups of leaks and resources an answer names

Duration(s) == s.end - s.start
MaxOf(S) == IF S = {} THEN 0 ELSE Max(S)
Total(S, F(_)) == MapThenSumSet(F, S)
Keep(seq, n) == SubSeq(seq, 1, IF n < Len(seq) THEN n ELSE Len(seq))

---------------------------------------------------------------------------
(* Leaks and groups.                                                       *)

\* Longer than the threshold, as the handler's comment has it.
LongerThan(gs, threshold) ==
  {i \in DOMAIN gs : gs[i].state \in {"WAITING", "BLOCKED"} /\ gs[i].wait > threshold}

LeakCandidates(gs, threshold) ==
  IF threshold <= 0 THEN {}
  ELSE {i \in DOMAIN gs : gs[i].state \in {"WAITING", "BLOCKED"} /\ gs[i].wait >= threshold}

IsUserFrame(f) == f.func \notin RuntimeFrames \cup LibraryFrames \cup {""}

\* The key of a goroutine; 0 stands for (unknown), (root) and (no label).
GroupKey(g, by) ==
  LET k == SelectInSeq(g.frames, IsUserFrame)
  IN  CASE by = "function"  -> IF k = 0 THEN 0 ELSE ShortName[g.frames[k].func]
        [] by = "package"   -> IF k = 0 THEN 0 ELSE PackageOf[g.frames[k].func]
        [] by = "parent_id" -> g.parent
        [] by = "label"     -> g.label

CpuTime(segs, i) ==
  Total({s \in segs : s.goroutine = i /\ s.state = "RUNNING" /\ s.end > s.start},
        Duration)

\* Groups of some of the goroutines, the largest first, then by key.
GroupGoroutines(gs, ids, segs, by) ==
  LET GroupOf(key) ==
        LET members == {i \in ids : GroupKey(gs[i], by) = key}
        IN  [key |-> key, goroutines |-> members,
             states |-> [s \in {gs[i].state : i \in members} |->
                           Cardinality({i \in members : gs[i].state = s})],
             totalWait |-> Total(members, LAMBDA i : gs[i].wait),
             maxWait |-> MaxOf({gs[i].wait : i \in members}),
             totalCPU |-> Total(members, LAMBDA i : CpuTime(segs, i))]
      groups == {GroupOf(GroupKey(gs[i], by)) : i \in ids}
      Before(a, b) ==
        LET m == Cardinality(a.goroutines)
            n == Cardinality(b.goroutines)
        IN  m > n \/ (m = n /\ a.key < b.key)
  IN  InOrder(groups, Before)

---------------------------------------------------------------------------
(* The goroutine list: filter, then a page or a sample.                    *)

\* The boost is capped at that of a second.
CappedBoost(g) ==
  (CASE g.state = "BLOCKED" -> 60 [] g.state = "WAITING" -> 50 [] g.state = "SYSCALL" -> 30
     [] g.state = "RUNNING" -> 10 [] OTHER -> 5)
  + (IF g.wait > BlockNS THEN 20 ELSE IF g.wait > NoticeNS THEN 10 ELSE 0)

GoroutineAnomalyScore(g) ==
  LET base == CASE g.state = "BLOCKED" -> 60
                [] g.state = "WAITING" -> 50
                [] g.state = "SYSCALL" -> 30
                [] g.state = "RUNNING" -> 10
                [] OTHER -> 5
      boost == IF g.wait > LeakNS THEN 40 ELSE IF g.wait > BlockNS THEN 20
               ELSE IF g.wait > NoticeNS THEN 10 ELSE 0
  IN  base + boost

\* The IDs shown, worst first; all of them in list order when they fit.
SampleGoroutines(gs, maxDisplay) ==
  LET Worse(i, j) ==
        LET a == GoroutineAnomalyScore(gs[i])
            b == GoroutineAnomalyScore(gs[j])
        IN  a > b \/ (a = b /\ i < j)
  IN  IF maxDisplay <= 0 \/ Cardinality(DOMAIN gs) <= maxDisplay
      THEN Ascending(DOMAIN gs)
      ELSE Keep(InOrder(DOMAIN gs, Worse), maxDisplay)

\* params.state "" and params.minWait 0 do not filter; limit -1 is no limit.  The
\* filters on reason, label and text are predicates of a goroutine, as state is.
FilterGoroutines(gs, params) ==
  {i \in DOMAIN gs : /\ params.state # "" => gs[i].state = params.state
                     /\ params.minWait > 0 => /\ IsBlockedState(gs[i].state)
                                               /\ gs[i].wait >= params.minWait}

\* handleGoroutines without its ETag: the IDs of the answer, in order.
ListGoroutines(gs, params, maxDisplay) ==
  LET found == FilterGoroutines(gs, params)
      total == Cardinality(found)
      first == IF params.offset > total THEN total ELSE params.offset
      last == IF params.limit >= 0 /\ first + params.limit < total
              THEN first + params.limit ELSE total
  IN  IF params.limit >= 0 \/ params.offset > 0
      THEN SubSeq(Ascending(found), first + 1, last)
      ELSE SampleGoroutines(Restrict(gs, found), maxDisplay)

---------------------------------------------------------------------------
(* Contention.                                                             *)

\* The sweep over starts (+1) and ends (-1), ends first at the same time: the
\* sum is highest when all events of some time are behind it.
PeakConcurrent(segs) ==
  LET Running(t) == Cardinality({s \in segs : s.start <= t})
                    - Cardinality({s \in segs : s.end <= t})
  IN  MaxOf({0} \cup {Running(s.start) : s \in segs})

OnResource(segs, r) == {s \in segs : s.resource = r}
ResourcesOf(segs) == {s.resource : s \in segs} \ {NoResource}

ComputeResourceContention(segs) ==
  {[resource |-> r, peak |-> PeakConcurrent(OnResource(segs, r)),
    count |-> Cardinality(OnResource(segs, r)),
    totalWait |-> Total(OnResource(segs, r), Duration)] : r \in ResourcesOf(segs)}

\* The bins a segment of positive length touches; its end is exclusive.
FirstBin(s, minNS, resolution) == (s.start - minNS) \div resolution

\* A segment that ends with a bin spills into the next.
InclusiveEnd(s, minNS, resolution) == (s.end - minNS) \div resolution

LastBin(s, minNS, resolution) == (s.end - 1 - minNS) \div resolution

\* One row for each resource, the one with most segments first; counts by
\* prefix sums of a delta array over the bins.
ContentionHeatmap(segs, resolution, limit) ==
  LET real == {s \in segs : s.resource # NoResource /\ s.end > s.start}
      minNS == Min({s.start : s \in real})
      maxNS == Max({s.end : s \in real})
      numBins == ((maxNS - minNS) \div resolution) + 1
      Begun(r, b) == {s \in OnResource(real, r) : FirstBin(s, minNS, resolution) = b}
      Ended(r, b) == {s \in OnResource(real, r) : LastBin(s, minNS, resolution) + 1 = b}
      Delta(r, b) == Cardinality(Begun(r, b)) - Cardinality(Ended(r, b))
      Counts(r) == LET run[b \in 0..(numBins - 1)] ==
                         Delta(r, b) + (IF b = 0 THEN 0 ELSE run[b - 1])
                   IN  run
      Before(q, r) == LET m == Cardinality(OnResource(real, q))
                          n == Cardinality(OnResource(real, r))
                      IN  m > n \/ (m = n /\ q < r)
      ranked == InOrder(ResourcesOf(real), Before)
      shown == IF limit > 0 THEN Keep(ranked, limit) ELSE ranked
  IN  IF resolution <= 0 \/ real = {} THEN [start |-> 0, rows |-> <<>>]
      ELSE [start |-> minNS,
            rows |-> [k \in DOMAIN shown |-> [resource |-> shown[k],
                                              counts |-> Counts(shown[k])]]]

---------------------------------------------------------------------------
(* The ranked insights.  An insight's ID is its kind and its index; kinds  *)
(* have numbers in the order of their names.                               *)

Insight(kind, n, severity, score, ids, resources) ==
  [id |-> <<kind, n>>, severity |-> severity, score |-> score,
   goroutines |-> ids, resources |-> resources]

Blocking == 1
Contention == 2
Deadlock == 3
Count == 4
Leak == 5

DeadlockInsights(edges, gs) ==
  LET hints == SetToSeq(FindDeadlockHints(edges, gs))
  IN  {Insight(Deadlock, n - 1, "critical", 100, ToSet(hints[n].cycle),
               hints[n].resources) :
         n \in DOMAIN hints}

\* Leaks lose five points a place, as contention does.
SteepLeaks(gs, threshold) ==
  LET groups == GroupGoroutines(gs, LeakCandidates(gs, threshold), {}, "function")
  IN  {Insight(Leak, n - 1, "critical", 90 - 5 * (n - 1), groups[n].goroutines, {}) :
         n \in DOMAIN Keep(groups, MaxEntries)}

LeakInsights(gs, threshold) ==
  LET groups == GroupGoroutines(gs, LeakCandidates(gs, threshold), {}, "function")
  IN  {Insight(Leak, n - 1, "critical", 90 - 3 * (n - 1), groups[n].goroutines, {}) :
         n \in DOMAIN Keep(groups, MaxEntries)}

\* Resources with equally many waiters come in any order; here by name.
ContentionInsights(segs, minPeak) ==
  LET Before(a, b) == a.peak > b.peak \/ (a.peak = b.peak /\ a.resource < b.resource)
      high == InOrder({c \in ComputeResourceContention(segs) : c.peak >= minPeak}, Before)
  IN  {Insight(Contention, n - 1, "warning", 75 - 5 * (n - 1), {}, {high[n].resource}) :
         n \in DOMAIN Keep(high, MaxEntries)}

BlockingInsights(gs, block, leak) ==
  LET long == {i \in DOMAIN gs : gs[i].wait < leak /\ IsBlockedState(gs[i].state)
                                  /\ gs[i].wait >= block}
      score == IF Cardinality(long) > ManyBlocked THEN 70 ELSE 60
  IN  IF long = {} THEN {}
      ELSE {Insight(Blocking, 0, "warning", score,
                    ToSet(Keep(Ascending(long), MaxReported)), {})}

GoroutineCountInsight(gs, minCount) ==
  LET n == Cardinality(DOMAIN gs)
  IN  IF n < minCount THEN {}
      ELSE {Insight(Count, 0, "info", IF n > ManyGoroutines THEN 40 ELSE 30, {}, {})}

GenerateInsights(gs, segs, edges, minPeak, minCount) ==
  LET Before(a, b) == \/ a.score > b.score
                      \/ (a.score = b.score /\ a.id[1] < b.id[1])
                      \/ (a.score = b.score /\ a.id[1] = b.id[1] /\ a.id[2] < b.id[2])
  IN  InOrder(DeadlockInsights(edges, gs) \cup LeakInsights(gs, LeakNS)
                   \cup ContentionInsights(segs, minPeak)
                   \cup BlockingInsights(gs, BlockNS, LeakNS)
                   \cup GoroutineCountInsight(gs, minCount), Before)
=============================================================================
