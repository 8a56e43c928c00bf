------------------------------ MODULE Analysis ------------------------------
(***************************************************************************)
(* The read-only requests of the server and the commands that analyse one  *)
(* capture: each reads the engine (goroutines, then segments, then the     *)
(* resource graph, under an acquisition each) and computes an answer.      *)
(* A job holds what was read and what was answered.  As the readings of one *)
(* request may come from different states of the engine, the inputs are    *)
(* sets of goroutine lists and of graphs that are combined freely.         *)
(***************************************************************************)
EXTENDS Findings, Comparison, GoroutineDump, Watch

CONSTANTS Snapshots,       \* goroutine lists for the deadlock search
          Graphs,          \* resource graphs of a capture, <<>> if it has none
          Readings,        \* [gs, segs, graph] of a request for insights or lists
          Timelines,       \* sets of segments, for contention
          ListParams,      \* filters and pages
          Captures,        \* [gs, segs] for the comparison
          StackLists,      \* sequences of frame lists
          FlameInputs,     \* sequences of [state, stack]
          Dumps,           \* sequences of blocks as the runtime prints them
          WatchOptions,
          MaxDisplay,      \* SamplingPolicy.MaxDisplay (15000 in the code)
          MinPeak,         \* waiters that make a contention insight (4)
          MinCount         \* goroutines that make a count insight (1000)

\* What the engine lists: goroutines by their positive IDs, segments with times.
\* A resource is a number in the order of the names, NoResource the empty name.
IsList(gs) ==
  /\ IsFiniteSet(DOMAIN gs) /\ DOMAIN gs \subseteq Nat \ {0}
  /\ \A i \in DOMAIN gs : gs[i].wait \in Int /\ gs[i].resource \in Nat

IsTimeline(segs) ==
  /\ IsFiniteSet(segs)
  /\ \A s \in segs : s.start \in Int /\ s.end \in Int /\ s.resource \in Nat

\* The keys of the groups are numbers in the order of the names.
IsGrouped(gs) == \A i \in DOMAIN gs : GroupKey(gs[i], "function") \in Nat

IsGraph(edges) == edges \in Seq([from : Nat, to : Nat, resource : Nat])

ASSUME InputAssumption ==
  /\ NoResource \in Nat /\ MaxDisplay \in Nat /\ MaxReported \in Nat
  /\ \A gs \in Snapshots : IsList(gs)
  /\ \A graph \in Graphs : IsGraph(graph)
  /\ \A read \in Readings :
       /\ IsList(read.gs) /\ IsGrouped(read.gs)
       /\ IsTimeline(read.segs) /\ IsGraph(read.graph)
  /\ \A segs \in Timelines : IsTimeline(segs)
  /\ \A c \in Captures : IsList(c.gs) /\ IsTimeline(c.segs)
  /\ FlameInputs \subseteq Seq([state : STRING, stack : Seq(Nat)])
  /\ Dumps \subseteq Seq(PrintedBlock)

VARIABLES job,             \* the last request: what it read and its answer
          watching         \* `goroscope watch` runs

vars == <<job, watching>>

Idle == [kind |-> "none"]

Init == job = Idle /\ watching = TRUE

\* Only the deadlock commands read the graph; without one it is derived.
EdgesFor(gs, graph, order) == IF graph = <<>>
                              THEN DeriveCurrentContentionEdges(gs, order) ELSE graph

ResourceOrders(gs) == SetToSeqs({gs[i].resource : i \in DOMAIN gs} \ {NoResource})

\* checkCommand, and handleDeadlockHints with its two acquisitions.
Check(gs, graph) ==
  \E order \in ResourceOrders(gs) :
    LET edges == EdgesFor(gs, graph, order)
        hints == FindDeadlockHints(edges, gs)
        report == BuildDeadlockReport(hints, gs)
    IN  job' = [kind |-> "check", gs |-> gs, graph |-> graph, edges |-> edges,
                hints |-> hints,
                sarif |-> WriteSARIF(report), github |-> WriteGitHubAnnotations(report),
                wfg |-> BuildWaitForGraph(edges, gs), failed |-> report # {}]

\* handleSmartInsights, and the insights of `goroscope doctor`.
Insights(read) ==
  \E order \in ResourceOrders(read.gs) :
    LET edges == EdgesFor(read.gs, read.graph, order)
    IN  job' = [kind |-> "insights", gs |-> read.gs,
                insights |-> GenerateInsights(read.gs, read.segs, edges, MinPeak,
                                              MinCount)]

\* handleGoroutines.
List(gs, params) ==
  job' = [kind |-> "list", gs |-> gs, params |-> params,
          shown |-> ListGoroutines(gs, params, MaxDisplay)]

\* handleGoroutineGroups.
Groups(gs, segs, by) ==
  job' = [kind |-> "groups", gs |-> gs,
          groups |-> GroupGoroutines(gs, DOMAIN gs, segs, by)]

\* handleGraph with view=contention, and handleContentionHeatmap.
Heatmap(segs, resolution, limit) ==
  job' = [kind |-> "heatmap", segs |-> segs,
          contention |-> ComputeResourceContention(segs),
          resolution |-> resolution, heatmap |-> ContentionHeatmap(segs, resolution, limit)]

\* handleCompare and `goroscope diff`.
Compare(baseline, compare, format, threshold) ==
  job' = [kind |-> "compare", baseline |-> baseline, compare |-> compare,
          diff |-> ComputeCaptureDiff(baseline, compare),
          exit |-> RunDiff(baseline, compare, format, threshold)]

\* handleCompareStacks.
CompareStacks(baseline, compare) ==
  job' = [kind |-> "stacks", baseline |-> baseline, compare |-> compare,
          diff |-> StackPatternDiff(baseline, compare)]

\* handleFlamegraph and handleFlamegraphFolded.
Flame(list, state, maxDepth) ==
  job' = [kind |-> "flame", list |-> list, state |-> state, maxDepth |-> maxDepth,
          tree |-> BuildFlamegraph(list, state, maxDepth),
          folded |-> FoldedStacks(list, state, maxDepth)]

\* FetchGoroutines and one frame of `goroscope top`.
ReadDump(blocks) ==
  LET lines == FlattenSeq([k \in DOMAIN blocks |->
                 (IF blocks[k].readable THEN PrintBlock(blocks[k])
                  ELSE <<[kind |-> "malformed"]>> \o Tail(PrintBlock(blocks[k])))
                 \o (IF k = Len(blocks) THEN <<>> ELSE <<[kind |-> "blank"]>>)])
      snaps == ParseGoroutineDump(lines)
  IN  job' = [kind |-> "dump", blocks |-> blocks, snaps |-> snaps,
              top |-> BuildTopRows(snaps, 0)]

Answer ==
  /\ job = Idle
  /\ UNCHANGED watching
  /\ \/ \E gs \in Snapshots, graph \in Graphs : Check(gs, graph)
     \/ \E read \in Readings : Insights(read)
     \/ \E read \in Readings, params \in ListParams : List(read.gs, params)
     \/ \E read \in Readings, by \in {"function", "package", "parent_id", "label"} :
          Groups(read.gs, read.segs, by)
     \/ \E segs \in Timelines, resolution \in 0..3, limit \in {0, 1} :
          Heatmap(segs, resolution, limit)
     \/ \E a, b \in Captures, format \in {"text", "json"}, pct \in {0, 50} :
          Compare(a, b, format, pct)
     \/ \E a, b \in StackLists : CompareStacks(a, b)
     \/ \E list \in FlameInputs, state \in {"", "WAITING"}, depth \in 0..2 :
          Flame(list, state, depth)
     \/ \E blocks \in Dumps : ReadDump(blocks)

\* A poll of the watch that was answered; one that was not changes nothing.
WatchTick ==
  /\ job = Idle /\ watching
  /\ \E gs \in Snapshots, opts \in WatchOptions :
       LET ids == Ascending(DOMAIN gs)
           snaps == [k \in DOMAIN ids |->
                      [id |-> ids[k], state |-> gs[ids[k]].state,
                       resource |-> gs[ids[k]].resource]]
           poll == RunWatchOnce(snaps, opts)
       IN  /\ job' = [kind |-> "watch", gs |-> gs, opts |-> opts,
                      alerts |-> poll.alerts, sent |-> poll.sent]
           /\ watching' = poll.goesOn

Forget == job # Idle /\ job' = Idle /\ UNCHANGED watching

Next == Answer \/ WatchTick \/ Forget

Spec == Init /\ [][Next]_vars

---------------------------------------------------------------------------
(* Properties.  Each compares an answer with a plain definition of what it *)
(* should be, over what the request read.                                  *)

Is(kind) == job.kind = kind

\* A hint is a real cycle: distinct goroutines, all of them blocked when the
\* list was read, each with an edge to the next, and it is among those the DOT
\* output draws.  The search, its reduction of rotations to one hint and the
\* two acquisitions of handleDeadlockHints must not make one up (graph.go:133).
HintsAreDeadlocks ==
  Is("check") => \A h \in job.hints :
    /\ Len(h.cycle) >= 2 /\ IsInjective(h.cycle)
    /\ \A k \in DOMAIN h.cycle :
         /\ h.cycle[k] \in DOMAIN job.gs /\ IsBlockedState(job.gs[h.cycle[k]].state)
         /\ \E e \in ToSet(job.edges) : e.from = h.cycle[k] /\ e.to = h.chain[k].waitsFor
    /\ \E at \in job.sarif : at.cycle = h.cycle

\* Where the capture has no graph, two goroutines that are blocked on one
\* resource are enough for a hint of that resource and for nodes drawn red: no
\* group of contenders hides another, whatever order the resources come in.
ContendersHinted ==
  Is("check") /\ job.graph = <<>> =>
    \A r \in {job.gs[i].resource : i \in DOMAIN job.gs} \ {NoResource} :
      Cardinality(Contenders(job.gs, r)) >= 2 =>
        /\ \E h \in job.hints :
             h.resources = {r} /\ ToSet(h.cycle) \subseteq Contenders(job.gs, r)
        /\ Cardinality(Contenders(job.gs, r) \cap DrawnRed(job.wfg)) >= 2

\* A goroutine that has long been WAITING or BLOCKED is named by one insight,
\* either as a leak or as long blocking, never by both and never by none,
\* unless the list that should name it is full (insights.go:235: "Exclude leaks
\* (they have their own insight)").
LongWaitsOnce ==
  Is("insights") =>
    LET all == {job.insights[k] : k \in DOMAIN job.insights}
        OfKind(kind) == {x \in all : x.id[1] = kind}
        Naming(i) == {x \in OfKind(Leak) \cup OfKind(Blocking) : i \in x.goroutines}
        full == \/ Cardinality(OfKind(Leak)) = MaxEntries
                \/ \E x \in OfKind(Blocking) : Cardinality(x.goroutines) = MaxReported
    IN  \A i \in DOMAIN job.gs :
          IsBlockedOrWaiting(job.gs[i].state) /\ job.gs[i].wait >= BlockNS =>
            Cardinality(Naming(i)) = 1 \/ (Naming(i) = {} /\ full)

\* The ranked list never puts a less severe finding above a more severe one,
\* though each kind lowers its scores place by place on its own.
SeverityRanked ==
  LET Rank(x) == CASE x.severity = "critical" -> 3
                   [] x.severity = "warning" -> 2
                   [] OTHER -> 1
  IN  Is("insights") =>
        \A j, k \in DOMAIN job.insights :
          j < k => Rank(job.insights[j]) >= Rank(job.insights[k])

\* Sampling a list that is too long to show never hides a goroutine that has
\* waited past the leak threshold behind one that has not.
LeaksSurviveSampling ==
  Is("list") /\ job.params.limit = -1 /\ job.params.offset = 0 =>
    LET leaks == {i \in LeakCandidates(job.gs, LeakNS) : job.gs[i].wait > LeakNS}
        found == FilterGoroutines(job.gs, job.params)
        shown == ToSet(job.shown)
    IN  (found \cap leaks) \ shown # {} =>
          shown \subseteq leaks /\ Cardinality(shown) = MaxDisplay

\* A bin of the heatmap counts the segments that run when the bin starts, which is
\* all that the comment of ContentionHeatmap promises, and those that start later in
\* it: it never shows fewer than wait at any moment of the bin, and may show more
\* than ever wait together.  So the peak that the contention list finds by a sweep
\* over starts and ends is reached in the row that prefix sums over bins fill.
HeatmapShowsPeak ==
  Is("heatmap") =>
    \A k \in DOMAIN job.heatmap.rows :
      LET row == job.heatmap.rows[k]
          segs == {s \in OnResource(job.segs, row.resource) : s.end > s.start}
          From(b) == job.heatmap.start + b * job.resolution
          RunAt(t) == {s \in segs : s.start <= t /\ t < s.end}
          Later(b) == {s \in segs : From(b) < s.start /\ s.start < From(b + 1)}
      IN  /\ \A b \in DOMAIN row.counts :
               row.counts[b] = Cardinality(RunAt(From(b)) \cup Later(b))
          /\ \E c \in job.contention :
               c.resource = row.resource
                 /\ \E b \in DOMAIN row.counts : row.counts[b] >= c.peak

\* Comparing the other way round negates every delta, swaps what only one side
\* has, and turns an improvement into a regression unless the two measures of
\* the goroutine moved apart.
DiffMirrors ==
  /\ Is("compare") =>
       LET back == ComputeCaptureDiff(job.compare, job.baseline)
           Opposite(status) == CASE status = "improved" -> "regressed"
                                 [] status = "regressed" -> "improved"
                                 [] OTHER -> status
       IN  /\ back.onlyInBaseline = job.diff.onlyInCompare
           /\ \A i \in DOMAIN job.diff.deltas :
                LET d == job.diff.deltas[i]
                IN  /\ back.deltas[i].wait = -d.wait /\ back.deltas[i].blocked = -d.blocked
                    /\ d.wait * d.blocked >= 0 => back.deltas[i].status = Opposite(d.status)
  /\ Is("stacks") =>
       LET back == StackPatternDiff(job.compare, job.baseline)
       IN  back.appeared = job.diff.disappeared /\ back.disappeared = job.diff.appeared

SumsOfFolded(tree, folded) ==
  \A p \in DOMAIN tree :
    tree[p] = MapThenSumSet(LAMBDA q : folded[q], {q \in DOMAIN folded : IsPrefix(p, q)})

\* The tree and the folded text are two renderings of one profile: a node's
\* value is the number of goroutines on the folded lines that pass through it.
FoldedAgrees == Is("flame") => SumsOfFolded(job.tree, job.folded)

ReadAsPrinted(blocks, snaps) ==
  LET readable == Where(blocks, LAMBDA g : g.readable)
  IN  /\ Len(snaps) = Len(readable)
      /\ \A k \in DOMAIN readable :
           LET g == readable[k]
               s == snaps[k]
           IN  /\ s.id = g.id /\ s.parent = g.parent /\ s.frames = g.frames
               /\ s.state = ClassifyState(g.says)
               /\ s.resource = ExtractResourceID(g.frames)

\* What the runtime prints is what the parser reads: every block with a
\* readable header, in order, with its frames and its parent, the last one and
\* those after an unreadable block included.
DumpUnderstood == Is("dump") => ReadAsPrinted(job.blocks, job.snaps)

\* Watch with -alert-deadlock: "alert on any deadlock hint" (cli/watch.go:66).
\* Its edges lead from waiters to a goroutine that runs, so they close no cycle
\* and the alert never comes, whatever the hints are.
DeadlockAlerted ==
  LET Hinted(gs) == \E order \in ResourceOrders(gs) :
                      FindDeadlockHints(DeriveCurrentContentionEdges(gs, order), gs) # {}
  IN  Is("watch") /\ job.opts.deadlock /\ ~job.opts.once /\ Hinted(job.gs) =>
        "deadlock" \in job.alerts
=============================================================================
