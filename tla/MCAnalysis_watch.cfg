SPECIFICATION Spec
CONSTANTS
  NoResource = 0
  RuntimeFrames <- mcRuntime
  LibraryFrames <- mcLibrary
  ShortName <- mcShort
  PackageOf <- mcPackage
  ResourceFunctions <- mcFunctions
  MaxReported = 3
  ManyBlocked = 2
  ManyGoroutines = 5
  Snapshots <- mcSnapshots
  Graphs <- mcGraphs
  Readings <- mcReadings
  Timelines <- mcTimelines
  ListParams <- mcListParams
  Captures <- mcCaptures
  StackLists <- mcStackLists
  FlameInputs <- mcFlameInputs
  Dumps <- mcDumps
  WatchOptions <- mcWatchOptions
  MaxDisplay = 2
  MinPeak = 2
  MinCount = 3
INVARIANT
  DeadlockAlerted
