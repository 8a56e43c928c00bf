\* An upload during a run, and the session the run started.
CONSTANTS
  g1 = g1
  g2 = g2
  user = user
  lib = lib
  Goroutine = {g1, g2}
  NoID = NoID
  Reason = {"unknown", "syscall", "chan_recv", "chan_send", "select", "mutex_lock", "sync_cond", "sleep", "gc_assist"}
  Resource = {"r1"}
  Label = {"r7"}
  NoLabel = NoLabel
  Frames = {user, lib}
  NoFrames = NoFrames
  UserFrames = {user}
  Main = g1
  ServeFrames = {}
  Session = {1, 2}
  NoSession = NoSession
  NoEdges = NoEdges
  EdgeSets = {NoEdges}
  Subscribers = {}
  Events <- NoInputs
  Snapshots <- NoInputs
  Captures <- MCCaptures
  NoCapture = NoCapture
  ParentMaps <- NoInputs
  LabelMaps <- NoInputs
  Queries = {}
  MaxClosedSegments = 0
  MaxStacksPerGoroutine = 0
  MaxVersion = 20
  Traces <- MCTraces
  Sidecar <- MCSidecar
  Uploads = {u1}
  Uploaded <- MCUploaded
  FlushEvery = 3
SPECIFICATION LiveSpec
CHECK_DEADLOCK FALSE
INVARIANTS
  RunSessionFinished
