--------------------------- MODULE MCEngineRefines --------------------------
(***************************************************************************)
(* The engine under two kinds of input, and its refinement of Revisions: a *)
(* rich stream of events that is never loaded over, for the depth of the   *)
(* timeline, and a short one between loads, stacks, labels and queries.    *)
(***************************************************************************)
EXTENDS MCEngine, EngineRefinement

CONSTANT MaxStreamed  \* bound: dataVersion stops here in the stream

VARIABLE scenario     \* the kind of input, chosen at the start

\* All kinds of events of both goroutines over all ticks, parents in between.  The
\* goroutines are alike, so the first event may as well be g1's.
Stream ==
  /\ \/ \E e \in MCEvents : /\ dataVersion = 0 => e.gid = g1
                            /\ InOrder(e) /\ ApplyEvent(e)
     \/ \E ids \in MCAnyParent : SetParentIDs(ids)
     \/ \E s \in Session : Reset(s)
     \/ ResourceContention
  /\ dataVersion' <= MaxStreamed

\* Captures loaded step by step over what was streamed, and streamed over.
Load ==
  \/ \E e \in StreamEvents : InOrder(e) /\ ApplyEvent(e)
  \/ \E s \in MCSnapshots : WithItsEvent(s) /\ ApplyStackSnapshot(s)
  \/ \E s \in Session : Reset(s)
  \/ \E s \in Session, c \in Captures : LoadBegin(s, c)
  \/ LoadEvent
  \/ LoadStack
  \/ LoadEnd
  \/ LoadNotify
  \/ Flush
  \/ AddProcessorSegments(1)
  \/ \E overrides \in LabelMaps : SetLabelOverrides(overrides)
  \/ \E graph \in EdgeSets : SetResourceGraph(graph)
  \/ ResourceContention
  \/ GroupByRequest
  \/ \E s \in Subscribers : Subscribe(s) \/ Unsubscribe(s) \/ TakeSignal(s)

MCInit == Init /\ scenario \in {"stream", "load"}

MCNext ==
  /\ \/ scenario = "stream" /\ Stream
     \/ scenario = "load" /\ Load
  /\ UNCHANGED scenario

MCSpec == MCInit /\ [][MCNext]_<<vars, scenario>>
=============================================================================
