\* Targets that come and go, and a client that names none of them.
CONSTANTS
  g1 = g1
  g2 = g2
  f1 = f1
  Goroutine = {g1, g2}
  NoID = NoID
  Reason = {"unknown", "mutex_lock"}
  Resource = {"r1"}
  Label = {}
  NoLabel = NoLabel
  Frames = {f1}
  NoFrames = NoFrames
  Target = {t1, t2}
  NoTarget = NoTarget
  Dumps <- MCDumps
  Uploads = {}
  Modes = {"ui"}
  Asked = {NoTarget}
  MaxInputs = 5
SPECIFICATION Spec
CHECK_DEADLOCK FALSE
INVARIANT NotModifiedIsCurrent
