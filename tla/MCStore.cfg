\* Five commands over two captures; one may be killed.
CONSTANTS
  Command = {p1, p2, p3, p4, p5}
  Capture = {c1, c2}
  Index = Index
  NoCapture = NoCapture
  Time = {t1}
  Suffix = {s1}
  NoSuffix = NoSuffix
  MaxDeaths = 1
SPECIFICATION Spec
SYMMETRY MCSymmetry
CHECK_DEADLOCK FALSE
INVARIANTS
  EntriesHaveFiles
  UpdatesKept
  PlainIDsUnique
