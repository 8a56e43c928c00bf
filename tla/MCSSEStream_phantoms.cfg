\* Events, resets and loads, every one of them announced.
CONSTANTS
  Goroutine = {g1}
  Content = {x, y}
  NoContent = NoContent
  Stay <- SameStay
  Subscribers = {c1}
  Writes = {"touch", "clear"}
  MaxVersion = 3
SPECIFICATION SSESpec
CHECK_DEADLOCK FALSE
INVARIANT NoPhantoms
