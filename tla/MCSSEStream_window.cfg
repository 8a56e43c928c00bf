\* Only events are written, and every one of them is announced.
CONSTANTS
  Goroutine = {g1}
  Content = {x, y}
  NoContent = NoContent
  Stay <- SameStay
  Subscribers = {c1}
  Writes = {"touch"}
  MaxVersion = 3
SPECIFICATION SSESpec
CHECK_DEADLOCK FALSE
INVARIANT QuiescentViewCurrent
