\* A stream whose parent map arrives after the groups have been asked for.
CONSTANTS
  g1 = g1
  g2 = g2
  f1 = f1
  f2 = f2
  Goroutine = {g1, g2}
  NoID = NoID
  Reason = {"unknown", "mutex_lock"}
  Resource = {"r1"}
  Label = {"r7"}
  NoLabel = NoLabel
  Frames = {f1}
  NoFrames = NoFrames
  ServeFrames = {f1}
  Session = {s1}
  NoSession = NoSession
  NoEdges = NoEdges
  EdgeSets = {NoEdges, e1}
  Subscribers = {}
  Events <- StreamEvents
  Snapshots <- MCSnapshots
  Captures <- NoCaptures
  NoCapture = NoCapture
  ParentMaps <- MCParentMaps
  LabelMaps <- NoInputs
  Queries = {"groups"}
  MaxClosedSegments = 1
  MaxStacksPerGoroutine = 1
  MaxVersion = 4
  MaxTime = 2
SPECIFICATION Spec
CHECK_DEADLOCK FALSE
INVARIANT GroupsCacheFresh
