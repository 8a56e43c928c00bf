\* One client, two goroutines, every kind of write.
CONSTANTS
  Goroutine = {g1, g2}
  Content = {x, y}
  NoContent = NoContent
  Stay <- SameStay
  Subscribers = {c1}
  Writes = {"touch", "amend", "clear"}
  MaxVersion = 3
SPECIFICATION SSESpec
CHECK_DEADLOCK FALSE
INVARIANTS
  SSETypeOK
  LossExplained
  WakeCovered
PROPERTY FlushReaches
