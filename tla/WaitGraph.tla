----------------------------- MODULE WaitGraph -----------------------------
(***************************************************************************)
(* The resource graph and the deadlock search (internal/analysis/graph.go, *)
(* deadlock_report.go): pure functions of a list of goroutines and a list  *)
(* of edges.  A list of goroutines is a function from IDs to records, since *)
(* the engine lists them by ID.  Edges stay a sequence: the search visits  *)
(* neighbours in its order.  An edge without a second goroutine has to = 0. *)
(***************************************************************************)
EXTENDS Integers, FiniteSets, Selection

CONSTANTS NoResource,      \* the empty ResourceID
          RuntimeFrames    \* functions of runtime and sync, never a top frame

\* isBlockedState of graph.go and its twin isWaitStateForInsights.
IsBlockedState(s) == s \in {"BLOCKED", "WAITING", "SYSCALL"}

Edge(a, b, r) == [from |-> a, to |-> b, resource |-> r]

\* The elements of S in a strict total order.  (SetToSortSeq of SequencesExt
\* searches through all sequences over S, too many for the lists below.)
InOrder(S, Before(_, _)) ==
  [k \in 1..Cardinality(S) |->
     CHOOSE x \in S : Cardinality({y \in S : Before(y, x)}) = k - 1]

Ascending(S) == InOrder(S, <)

---------------------------------------------------------------------------
(* Edges derived from goroutines that are blocked on one resource now.     *)

Contenders(gs, r) ==
  {i \in DOMAIN gs : gs[i].resource = r /\ IsBlockedState(gs[i].state)}

\* Only the edge from the earlier to the later.
OneWay(ids, r) ==
  FlattenSeq([i \in DOMAIN ids |-> FlattenSeq([j \in DOMAIN ids |->
    IF i < j THEN <<Edge(ids[i], ids[j], r)>> ELSE <<>>])])

\* Two edges for each pair, in the order of the two loops over the list.
PairEdges(ids, r) ==
  LET Both(i, j) == IF i < j
                    THEN <<Edge(ids[i], ids[j], r), Edge(ids[j], ids[i], r)>> ELSE <<>>
  IN  FlattenSeq([i \in DOMAIN ids |-> FlattenSeq([j \in DOMAIN ids |-> Both(i, j)])])

\* The resources come in the order of a map iteration, which is any order.
DeriveCurrentContentionEdges(gs, resources) ==
  FlattenSeq([k \in DOMAIN resources |->
                PairEdges(Ascending(Contenders(gs, resources[k])), resources[k])])

---------------------------------------------------------------------------
(* The search.                                                             *)

\* The second goroutine of each edge from a, in the order of the edges.
Successors(edges, a) ==
  FlattenSeq([k \in DOMAIN edges |->
    IF edges[k].from = a /\ edges[k].to # 0 THEN <<edges[k].to>> ELSE <<>>])

Sources(edges) == {e.from : e \in {f \in ToSet(edges) : f.to # 0}}

\* The first cycle that depth-first search from start closes, or <<>>.
FindCycleFrom(start, edges) ==
  LET Search[path \in Seq(Nat)] ==
        LET nexts == Successors(edges, Last(path))
            tries == [k \in DOMAIN nexts |->
                        IF nexts[k] \in ToSet(path)
                        THEN SubSeq(path,
                                    SelectInSeq(path, LAMBDA i : i = nexts[k]), Len(path))
                        ELSE Search[Append(path, nexts[k])]]
            hit == SelectInSeq(tries, LAMBDA c : c # <<>>)
        IN  IF hit = 0 THEN <<>> ELSE tries[hit]
  IN  Search[<<start>>]

\* A cycle is known by its rotation that starts with the smallest ID.
CycleKey(cycle) ==
  LET first == CHOOSE k \in DOMAIN cycle : \A j \in DOMAIN cycle : cycle[k] <= cycle[j]
  IN  [k \in DOMAIN cycle |-> cycle[1 + ((first + k - 2) % Len(cycle))]]

CyclesFound(edges) ==
  LET found == {FindCycleFrom(i, edges) : i \in Sources(edges)}
  IN  {CycleKey(c) : c \in {d \in found : Len(d) >= 2}}

ResourcesInCycle(cycle, edges) ==
  LET inside == {e \in ToSet(edges) : {e.from, e.to} \subseteq ToSet(cycle)}
  IN  {e.resource : e \in inside} \ {NoResource}

\* Each link names the resource of the first edge between the two, else what
\* the first of them is blocked on ("?" when that is unknown: NoResource).
BuildBlameChain(cycle, edges, gs) ==
  LET After(k) == cycle[1 + (k % Len(cycle))]
      between(a, b) == Where(edges, LAMBDA e : /\ {e.from, e.to} = {a, b}
                                               /\ e.resource # NoResource)
      ResourceBetween(a, b) ==
        IF between(a, b) # <<>> THEN Head(between(a, b)).resource
        ELSE IF IsBlockedState(gs[a].state) THEN gs[a].resource ELSE NoResource
  IN  [k \in DOMAIN cycle |->
         [holder |-> cycle[k], resource |-> ResourceBetween(cycle[k], After(k)),
          waitsFor |-> After(k)]]

AllBlocked(c, gs) == \A i \in ToSet(c) : i \in DOMAIN gs /\ IsBlockedState(gs[i].state)

\* One blocked goroutine makes the cycle a deadlock.
AnyBlocked(edges, gs) ==
  {[cycle |-> c, resources |-> ResourcesInCycle(c, edges),
    chain |-> BuildBlameChain(c, edges, gs)] :
     c \in {d \in CyclesFound(edges) :
              /\ ToSet(d) \subseteq DOMAIN gs
              /\ \E i \in ToSet(d) : IsBlockedState(gs[i].state)}}

\* The hints are a set: their order, and where a cycle starts, is that of a map
\* iteration.
FindDeadlockHints(edges, gs) ==
   {[cycle |-> c, resources |-> ResourcesInCycle(c, edges),
     chain |-> BuildBlameChain(c, edges, gs)] :
         c \in {d \in CyclesFound(edges) : AllBlocked(d, gs)}}

---------------------------------------------------------------------------
(* The report of `goroscope check`.                                        *)

NoFrame == [func |-> "", file |-> ""]

TopUserFrame(frames) ==
  LET k == SelectInSeq(frames, LAMBDA f : f.func \notin RuntimeFrames)
  IN  IF k = 0 THEN NoFrame ELSE frames[k]

\* One entry for each hint, one row for each of its goroutines.
BuildDeadlockReport(hints, gs) ==
  {[cycle |-> h.cycle, resources |-> h.resources, chain |-> h.chain,
    rows |-> [k \in DOMAIN h.cycle |->
                [id |-> h.cycle[k], blockedOn |-> gs[h.cycle[k]].resource,
                 top |-> TopUserFrame(gs[h.cycle[k]].frames)]]] : h \in hints}

\* SARIF: one result for each cycle, located at the first frame with a file.
WriteSARIF(report) ==
  {[cycle |-> c.cycle,
    at |-> LET k == SelectInSeq(c.rows, LAMBDA r : r.top # NoFrame /\ r.top.file # "")
           IN  IF k = 0 THEN NoFrame ELSE c.rows[k].top] : c \in report}

\* GitHub: a warning at each known frame of a cycle, else one without a place.
WriteGitHubAnnotations(report) ==
  UNION {LET known == {r \in ToSet(c.rows) : r.top # NoFrame}
         IN  IF known = {} THEN {[cycle |-> c.cycle, id |-> 0, at |-> NoFrame]}
             ELSE {[cycle |-> c.cycle, id |-> r.id, at |-> r.top] : r \in known} :
         c \in report}

---------------------------------------------------------------------------
(* The wait-for graph, drawn as DOT.                                       *)

\* The directed edges of the graph, then for each blocked goroutine an edge to
\* every other goroutine that some edge connects with its resource.
BuildWaitForGraph(edges, gs) ==
  LET blocked == {i \in DOMAIN gs : /\ IsBlockedState(gs[i].state)
                                    /\ gs[i].resource # NoResource}
      explicit == Where(edges, LAMBDA e : e.to # 0 /\ e.from # e.to)
      Users(r) == FlattenSeq([k \in DOMAIN edges |->
                    IF edges[k].resource # r THEN <<>>
                    ELSE IF edges[k].to = 0 THEN <<edges[k].from>>
                    ELSE <<edges[k].from, edges[k].to>>])
      Shared(i) == LET others == Where(Users(gs[i].resource), LAMBDA j : j # i)
                   IN  [k \in DOMAIN others |-> Edge(i, others[k], gs[i].resource)]
      waits == LET ids == Ascending(blocked)
               IN  FlattenSeq([k \in DOMAIN ids |-> Shared(ids[k])])
      all == explicit \o waits
  IN  [edges |-> ToSet(all), cycles |-> CyclesFound(all)]

\* The goroutines WriteDOT paints red.
DrawnRed(wfg) == UNION {ToSet(c) : c \in wfg.cycles}
=============================================================================
