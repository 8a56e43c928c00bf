----------------------------- MODULE Comparison -----------------------------
(***************************************************************************)
(* Comparing two captures and folding stacks (internal/analysis: diff.go,  *)
(* stackdiff.go, flamegraph.go, and `goroscope diff`, cli/diff.go).  A     *)
(* frame list is innermost first; a path is outermost first.  Function     *)
(* names are positive numbers.                                             *)
(***************************************************************************)
EXTENDS Integers, FiniteSets, Selection

BlockedTime(segs, i) ==
  MapThenSumSet(LAMBDA s : s.end - s.start,
                {s \in segs : s.goroutine = i /\ s.state = "BLOCKED"})

\* Only waits make a regression.
WaitsOnly(i, baseline, compare) ==
  LET wait == compare.gs[i].wait - baseline.gs[i].wait
      blocked == BlockedTime(compare.segs, i) - BlockedTime(baseline.segs, i)
  IN  [wait |-> wait, blocked |-> blocked,
       status |-> IF wait < 0 \/ blocked < 0 THEN "improved"
                  ELSE IF wait > 0 THEN "regressed" ELSE "unchanged"]

\* What changed for one goroutine that both captures have.
GoroutineDelta(i, baseline, compare) ==
  LET wait == compare.gs[i].wait - baseline.gs[i].wait
      blocked == BlockedTime(compare.segs, i) - BlockedTime(baseline.segs, i)
  IN  [wait |-> wait, blocked |-> blocked,
       status |-> IF wait < 0 \/ blocked < 0 THEN "improved"
                  ELSE IF wait > 0 \/ blocked > 0 THEN "regressed" ELSE "unchanged"]

ComputeCaptureDiff(baseline, compare) ==
  LET both == DOMAIN baseline.gs \cap DOMAIN compare.gs
  IN  [deltas |-> [i \in both |-> GoroutineDelta(i, baseline, compare)],
       onlyInBaseline |-> DOMAIN baseline.gs \ DOMAIN compare.gs,
       onlyInCompare |-> DOMAIN compare.gs \ DOMAIN baseline.gs]

\* The exit code of the command: a share of regressions above the threshold
\* fails it, but only the text output looks.
RunDiff(baseline, compare, format, thresholdPct) ==
  LET diff == ComputeCaptureDiff(baseline, compare)
      regressed == {i \in DOMAIN diff.deltas : diff.deltas[i].status = "regressed"}
      total == Cardinality(DOMAIN diff.deltas)
  IN  IF format # "json" /\ thresholdPct > 0 /\ total > 0
         /\ Cardinality(regressed) * 100 > thresholdPct * total
      THEN 1 ELSE 0

---------------------------------------------------------------------------
(* Stack signatures: the function names of a snapshot.  stacks is a        *)
(* sequence of frame lists.                                                *)

Signatures(stacks) == ToSet(stacks) \ {<<>>}

SignatureCount(stacks, sig) == Cardinality({k \in DOMAIN stacks : stacks[k] = sig})

StackPatternDiff(baseline, compare) ==
  LET Only(a, b) == {[signature |-> sig, count |-> SignatureCount(a, sig)] :
                       sig \in Signatures(a) \ Signatures(b)}
  IN  [appeared |-> Only(compare, baseline), disappeared |-> Only(baseline, compare),
       common |-> Cardinality(Signatures(baseline) \cap Signatures(compare))]

---------------------------------------------------------------------------
(* The flame graph, twice: as a tree and as folded lines.  list is a       *)
(* sequence of goroutines, of which state and stack (frame list) matter.   *)

Matching(list, state) == {k \in DOMAIN list : state = "" \/ list[k].state = state}

\* The innermost maxDepth frames, outermost first, without nameless ones.
PathOf(stack, maxDepth) ==
  LET depth == IF maxDepth > 0 /\ Len(stack) > maxDepth THEN maxDepth ELSE Len(stack)
  IN  Where(Reverse(SubSeq(stack, 1, depth)), LAMBDA name : name # 0)

\* The tree as a function from paths to values: every goroutine adds one to the
\* root, then to each node on its way.
BuildFlamegraph(list, state, maxDepth) ==
  LET Visit(tree, k) ==
        LET nodes == Prefixes(PathOf(list[k].stack, maxDepth))
        IN  [p \in DOMAIN tree \cup nodes |->
               (IF p \in DOMAIN tree THEN tree[p] ELSE 0) + (IF p \in nodes THEN 1 ELSE 0)]
      chosen == Where([k \in DOMAIN list |-> k],
                      LAMBDA k : k \in Matching(list, state))
  IN  FoldLeft(Visit, [p \in {<<>>} |-> 0], chosen)

\* The folded text ignores the state filter.
EveryState(list, state, maxDepth) ==
  LET Path(k) == PathOf(list[k].stack, maxDepth)
  IN  [p \in {Path(k) : k \in DOMAIN list} |->
        Cardinality({k \in DOMAIN list : Path(k) = p})]

\* The folded lines: how many goroutines have exactly this path.
FoldedStacks(list, state, maxDepth) ==
  LET Path(k) == PathOf(list[k].stack, maxDepth)
      chosen == Matching(list, state)
  IN  [p \in {Path(k) : k \in chosen} |-> Cardinality({k \in chosen : Path(k) = p})]
=============================================================================
