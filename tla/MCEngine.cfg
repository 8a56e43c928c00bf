\* A rich stream of two goroutines over three ticks; and loading, resets, stacks,
\* labels, both caches and one subscriber.  Both against Revisions.
CONSTANTS
  g1 = g1
  g2 = g2
  f1 = f1
  f2 = f2
  Goroutine = {g1, g2}
  NoID = NoID
  Reason = {"unknown", "mutex_lock"}
  Resource = {"r1"}
  Label = {"r7"}
  NoLabel = NoLabel
  Frames = {f1}
  NoFrames = NoFrames
  ServeFrames = {f1}
  Session = {s1}
  NoSession = NoSession
  NoEdges = NoEdges
  EdgeSets = {NoEdges, e1}
  Subscribers = {c1}
  Events <- MCEvents
  Snapshots <- MCSnapshots
  Captures <- MCCaptures
  NoCapture = NoCapture
  ParentMaps <- MCAnyParent
  LabelMaps <- MCLabelMaps
  Queries = {"contention", "groups"}
  MaxClosedSegments = 1
  MaxStacksPerGoroutine = 1
  MaxVersion = 6
  MaxTime = 3
  MaxStreamed = 4
SPECIFICATION MCSpec
CHECK_DEADLOCK FALSE
INVARIANTS
  TypeOK
  ActiveSegmentMatches
  WaitAccounted
  SegmentsDisjoint
  StackCountExact
  GroupsCacheFresh
  ContentionCacheFresh
  RevisionsOrdered
PROPERTIES
  ImplementsRevisions
  VersionCoversState
