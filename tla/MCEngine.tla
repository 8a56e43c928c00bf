------------------------------ MODULE MCEngine ------------------------------
(***************************************************************************)
(* Small inputs for Engine: what the producers emit for a few goroutines   *)
(* over a few ticks of the clock.                                          *)
(***************************************************************************)
EXTENDS Engine

CONSTANTS g1, g2, f1, f2, MaxTime

Times == 1..MaxTime

Ev(kind, g, t, state, reason, resource) ==
  [kind |-> kind, gid |-> g, ts |-> t, state |-> state, reason |-> reason,
   resource |-> resource, parent |-> NoID, label |-> NoLabel]

\* The transitions a producer reports for goroutine g at time t: its creation,
\* running, a wait that names a resource or not, a wait without details, its end.
Transitions(g, t) ==
  { Ev("goroutine.create", g, t, "", "", ""),
    Ev("goroutine.state", g, t, "RUNNING", "", ""),
    Ev("goroutine.state", g, t, "BLOCKED", "mutex_lock", "r1"),
    Ev("goroutine.state", g, t, "BLOCKED", "", ""),
    Ev("goroutine.end", g, t, "", "", "") }

MCEvents == UNION {Transitions(g, t) : g \in Goroutine, t \in Times}

Snap(g, t, f) == [gid |-> g, ts |-> t, frames |-> f]

NoParents == [g \in Goroutine |-> NoID]
NoLabels == [g \in Goroutine |-> NoLabel]

Blocked(g, t) == Ev("goroutine.state", g, t, "BLOCKED", "mutex_lock", "r1")
Created(g, t) == Ev("goroutine.create", g, t, "", "", "")

\* A capture as a poller accumulates it (two polls of one goroutine, a stack in
\* each), and one as an upload may hold it: an event without a goroutine, a stack
\* without one, a goroutine seen only in a stack, parents, labels and a graph.
MCCaptures ==
  { [events |-> <<Created(g1, 1), Blocked(g1, 2)>>,
     stacks |-> <<Snap(g1, 1, f1), Snap(g1, 2, f1)>>,
     edges |-> NoEdges, procs |-> 0, parents |-> NoParents, labels |-> NoLabels],
    [events |-> <<Created(NoID, 1), Blocked(g1, 1)>>,
     stacks |-> <<Snap(NoID, 1, f1), Snap(g2, 2, f1)>>,
     edges |-> CHOOSE e \in EdgeSets : e # NoEdges, procs |-> 1,
     parents |-> [NoParents EXCEPT ![g2] = g1],
     labels |-> [NoLabels EXCEPT ![g1] = "r7"]] }

\* What the theorems about times assume of the captures.
ASSUME MCCapturesInOrder == CapturesInOrder

NoCaptures == {}
\* A short stream, for the runs about loading: g1 is created and blocks, g2 ends.
StreamEvents ==
  {Created(g1, 1), Blocked(g1, 2), Ev("goroutine.end", g2, 2, "", "", "")}
MCSnapshots == {Snap(g1, t, f1) : t \in 1..2} \cup {Snap(NoID, 1, f1)}
MCParentMaps == {[NoParents EXCEPT ![g2] = g1]}
\* Every map that gives one goroutine another as its parent.
MCAnyParent ==
  UNION {{[NoParents EXCEPT ![g] = h] : h \in Goroutine \ {g}} : g \in Goroutine}
MCLabelMaps == {[NoLabels EXCEPT ![g1] = "r7"]}
NoInputs == {}
=============================================================================
