------------------------------- MODULE Engine -------------------------------
(***************************************************************************)
(* The analysis engine (internal/analysis/engine.go): the store every      *)
(* producer writes (streamed trace, pprof poller, flight recorder, replay  *)
(* upload) and every HTTP handler reads.                                   *)
(*                                                                         *)
(* Each exported method holds e.mu for its whole body, so it is one action *)
(* here.  LoadCapture is the exception worth splitting: it holds e.mu over *)
(* a loop, and releases it before it notifies.  Its iterations are steps   *)
(* taken while `loading` says that the lock is held; no other method can   *)
(* run in between, and the notification is a step of its own.              *)
(*                                                                         *)
(* Environment: the trace bridge and the pollers stamp every event with a  *)
(* time, emit lifecycle kinds only, deliver a goroutine's events in the    *)
(* order of their times (InOrder), and stamp a stack with the time of the  *)
(* event it comes with (WithItsEvent).                                     *)
(***************************************************************************)
EXTENDS GoroutineState, FiniteSets, Sequences, FiniteSetsExt

CONSTANTS
  Session,                \* sessions a caller may bind the engine to
  NoSession,              \* the nil session
  EdgeSets,               \* resource graphs, the empty one among them
  NoEdges,                \* the empty resource graph
  Subscribers,            \* callers of Subscribe
  Events,                 \* events the streaming writer may apply
  Snapshots,              \* stack snapshots the streaming writer may apply
  Captures,               \* captures a caller may load
  NoCapture,              \* no LoadCapture in progress
  ParentMaps,             \* arguments of SetParentIDs
  LabelMaps,              \* arguments of SetLabelOverrides
  Queries,                \* cached queries the API serves: contention, groups
  ServeFrames,            \* the stacks that stackHasHTTPServe recognises
  MaxClosedSegments,      \* retention: 0 is unlimited
  MaxStacksPerGoroutine,  \* retention: 0 is unlimited
  MaxVersion              \* bound: dataVersion stops here

Capture ==
  [events: Seq(Event), stacks: Seq(StackSnapshot), edges: EdgeSets, procs: Nat,
   parents: [Goroutine -> Goroutine \cup {NoID}],
   labels: [Goroutine -> Label \cup {NoLabel}]]

\* What the producers emit: a lifecycle kind and a real time.
Stamped(event) == isTimelineEventKind(event.kind) /\ event.ts # 0

ASSUME EngineAssumption ==
  /\ NoSession \notin Session
  /\ NoEdges \in EdgeSets
  /\ \A e \in Events : e \in Event /\ Stamped(e)
  /\ Snapshots \subseteq StackSnapshot
  /\ Captures \subseteq Capture
  /\ NoCapture \notin Captures
  /\ \A c \in Captures : \A i \in 1..Len(c.events) : Stamped(c.events[i])
  /\ ParentMaps \subseteq [Goroutine -> Goroutine \cup {NoID}]
  /\ LabelMaps \subseteq [Goroutine -> Label \cup {NoLabel}]
  /\ ServeFrames \subseteq Frames
  /\ MaxClosedSegments \in Nat
  /\ MaxStacksPerGoroutine \in Nat
  /\ MaxVersion \in Nat

VARIABLES
  session,             \* the session the state belongs to
  goroutines,          \* e.goroutines; a missing entry is ZeroGoroutine
  activeSegments,      \* e.activeSegments; a missing entry is NoSegment
  closedSegments,      \* e.closedSegments, oldest first
  edges,               \* e.edges
  processorSegments,   \* how many processor segments are stored
  stacksByGID,         \* e.stacksByGID, oldest snapshot first
  stackCount,          \* e.stackCount
  dataVersion,         \* e.dataVersion
  goroutineBornAt,     \* version of the first event; 0 is a missing entry
  goroutineChangedAt,  \* version of the latest event; 0 is a missing entry
  contentionDirty, contentionCache,
  groupsDirty, groupsCache,
  subscribers,         \* each channel: not subscribed, empty or full
  loading,             \* the LoadCapture that holds e.mu, or Unlocked
  notifyDue            \* LoadCaptures that have unlocked but not yet notified

timelineVars  == <<goroutines, activeSegments, closedSegments>>
stackVars     == <<stacksByGID, stackCount>>
revisionVars  == <<dataVersion, goroutineBornAt, goroutineChangedAt>>
cacheVars     == <<contentionDirty, contentionCache, groupsDirty, groupsCache>>
notifyVars    == <<subscribers, notifyDue>>
vars == <<session, timelineVars, edges, processorSegments, stackVars,
          revisionVars, cacheVars, notifyVars, loading>>

-----------------------------------------------------------------------------
(* Segments *)

\* A missing active segment has the zero start: an open one never does.
ActiveSegment ==
  [start: Nat, state: GoroutineStates \cup {""}, reason: Reason \cup {""},
   resource: Resource \cup {""}]
NoSegment == [start |-> 0, state |-> "", reason |-> "", resource |-> ""]

TimelineSegment ==
  [gid: Goroutine, start: Nat, end: Nat, state: GoroutineStates \cup {""},
   reason: Reason \cup {""}, resource: Resource \cup {""}]

segmentMatchesGoroutine(segment, goroutine) ==
  /\ segment.state = goroutine.state
  /\ segment.reason = goroutine.reason
  /\ segment.resource = goroutine.resource

\* Mutant: empty intervals are kept.
buildEmptySegments(gid, segment, end) ==
  IF segment.start # 0 /\ end >= segment.start
  THEN <<[gid |-> gid, start |-> segment.start, end |-> end,
          state |-> segment.state, reason |-> segment.reason,
          resource |-> segment.resource]>>
  ELSE <<>>

\* buildTimelineSegment as a sequence: empty when the interval is.
buildTimelineSegment(gid, segment, end) ==
  IF segment.start # 0 /\ end > segment.start
  THEN <<[gid |-> gid, start |-> segment.start, end |-> end,
          state |-> segment.state, reason |-> segment.reason,
          resource |-> segment.resource]>>
  ELSE <<>>

\* Mutant: only a change of state ends a stay.
LeavesSegmentByState(active, current, next) ==
  /\ active # NoSegment
  /\ segmentMatchesGoroutine(active, current)
  /\ active.state # next.state

\* The event moves the goroutine out of the stay its open segment records.
LeavesSegment(active, current, next) ==
  /\ active # NoSegment
  /\ segmentMatchesGoroutine(active, current)
  /\ ~ segmentMatchesGoroutine(active, next)

trimClosedSegments(segments) ==
  IF MaxClosedSegments > 0
       /\ Len(segments) > MaxClosedSegments + (MaxClosedSegments \div 10)
  THEN SubSeq(segments, Len(segments) - MaxClosedSegments + 1, Len(segments))
  ELSE segments

\* Timeline(): the closed segments and the open ones up to LastSeenAt.
Timeline ==
  {closedSegments[i] : i \in 1..Len(closedSegments)} \cup
  UNION {{s[1] : s \in {b \in {buildTimelineSegment(
                                 g, activeSegments[g], goroutines[g].lastSeenAt)}
                          : b # <<>>}} : g \in Goroutine}

(* A cache is modelled by what the answer depends on.  ComputeResource-      *)
(* Contention reads the timeline's segments that name a resource.            *)
ContentionInput == {s \in Timeline : s.resource # ""}

(* buildRequestGroups: a labelled goroutine belongs to its label's request,   *)
(* any other to an HTTP serve goroutine it descends from through unlabelled   *)
(* ones.  Of two nested serve goroutines map order decides; both are kept.    *)
Unlabelled(g) == goroutines[g].known /\ goroutines[g].label = NoLabel

Served(root) ==
  LET reach[n \in 0..Cardinality(Goroutine)] ==
        IF n = 0 THEN {root}
        ELSE reach[n - 1] \cup
             {g \in Goroutine : /\ Unlabelled(g)
                                /\ goroutines[g].parent \in reach[n - 1]}
  IN  reach[Cardinality(Goroutine)]

RequestsOf(g) ==
  IF goroutines[g].label # NoLabel
  THEN {goroutines[g].label}
  ELSE {root \in Goroutine : /\ Unlabelled(root)
                             /\ goroutines[root].lastStack \in ServeFrames
                             /\ g \in Served(root)}

RequestGroups ==
  {[gid |-> g, requests |-> RequestsOf(g), state |-> goroutines[g].state,
    createdAt |-> goroutines[g].createdAt, diedNS |-> goroutines[g].diedNS]
     : g \in {h \in Goroutine : RequestsOf(h) # {}}}

-----------------------------------------------------------------------------
(* Locked helpers: what each does to the fields it touches *)

Unlocked == [events |-> <<>>, stacks |-> <<>>, capture |-> NoCapture]
MuFree == loading.capture = NoCapture
CanBump(n) == dataVersion + n <= MaxVersion

\* Mutant: the segment a goroutine leaves stays in the map unless another opens.
updateSegmentsKeepingLeft(g, current, next, event) ==
  LET active == activeSegments[g]
      leaves == LeavesSegment(active, current, next)
      opens  == (active = NoSegment \/ leaves) /\ shouldTrackState(next.state)
      fresh  == [start |-> event.ts, state |-> next.state,
                 reason |-> next.reason, resource |-> next.resource]
      closed == IF leaves
                THEN closedSegments \o buildTimelineSegment(g, active, event.ts)
                ELSE closedSegments
  IN  IF isTimelineEventKind(event.kind) /\ event.ts # 0
      THEN /\ activeSegments' =
                [activeSegments EXCEPT ![g] = IF opens THEN fresh ELSE @]
           /\ closedSegments' = trimClosedSegments(closed)
      ELSE /\ closedSegments' = trimClosedSegments(closedSegments)
           /\ UNCHANGED activeSegments

updateSegmentsLocked(g, current, next, event) ==
  LET active == activeSegments[g]
      leaves == LeavesSegment(active, current, next)
      opens  == (active = NoSegment \/ leaves) /\ shouldTrackState(next.state)
      fresh  == [start |-> event.ts, state |-> next.state,
                 reason |-> next.reason, resource |-> next.resource]
      closed == IF leaves
                THEN closedSegments \o buildTimelineSegment(g, active, event.ts)
                ELSE closedSegments
  IN  IF isTimelineEventKind(event.kind) /\ event.ts # 0
      THEN /\ activeSegments' =
                [activeSegments EXCEPT
                   ![g] = IF opens THEN fresh
                          ELSE IF leaves THEN NoSegment ELSE @]
           /\ closedSegments' = trimClosedSegments(closed)
      ELSE /\ closedSegments' = trimClosedSegments(closedSegments)
           /\ UNCHANGED activeSegments

\* Mutant: the marks are taken before the version is bumped.
MarkTouchedEarly(g) ==
  /\ dataVersion' = dataVersion + 1
  /\ goroutineBornAt' =
       [goroutineBornAt EXCEPT ![g] = IF @ = 0 THEN dataVersion ELSE @]
  /\ goroutineChangedAt' = [goroutineChangedAt EXCEPT ![g] = dataVersion]

\* Mutant: only the first event of a goroutine marks it as changed.
MarkTouchedOnce(g) ==
  /\ dataVersion' = dataVersion + 1
  /\ goroutineBornAt' =
       [goroutineBornAt EXCEPT ![g] = IF @ = 0 THEN dataVersion' ELSE @]
  /\ goroutineChangedAt' =
       [goroutineChangedAt EXCEPT ![g] = IF @ = 0 THEN dataVersion' ELSE @]

\* The version marks of a goroutine that an event touched.
MarkTouched(g) ==
  /\ dataVersion' = dataVersion + 1
  /\ goroutineBornAt' =
       [goroutineBornAt EXCEPT ![g] = IF @ = 0 THEN dataVersion' ELSE @]
  /\ goroutineChangedAt' = [goroutineChangedAt EXCEPT ![g] = dataVersion']

\* Mutant: an event leaves the contention cache valid.
invalidateGroupsOnly == groupsDirty' = TRUE /\ UNCHANGED contentionDirty

invalidateCaches == contentionDirty' = TRUE /\ groupsDirty' = TRUE

applyEventLocked(raw) ==
  LET event == normalizeEvent(raw)
      g     == event.gid
      next  == NextGoroutine(goroutines[g], event)
  IN  IF g = NoID
      THEN UNCHANGED <<timelineVars, revisionVars, contentionDirty, groupsDirty>>
      ELSE /\ goroutines' = [goroutines EXCEPT ![g] = next]
           /\ updateSegmentsLocked(g, goroutines[g], next, event)
           /\ MarkTouched(g)
           /\ invalidateCaches

\* Mutant: a new stack leaves the request groups valid.
applyStackKeepingGroups(snapshot) ==
  IF snapshot.gid = NoID
  THEN UNCHANGED <<goroutines, dataVersion, groupsDirty>>
  ELSE /\ goroutines' = [goroutines EXCEPT ![snapshot.gid] = WithStack(@, snapshot)]
       /\ dataVersion' = dataVersion + 1
       /\ UNCHANGED groupsDirty

\* Mutant: a new stack does not bump the version.
applyStackUnversioned(snapshot) ==
  IF snapshot.gid = NoID
  THEN UNCHANGED <<goroutines, dataVersion, groupsDirty>>
  ELSE /\ goroutines' = [goroutines EXCEPT ![snapshot.gid] = WithStack(@, snapshot)]
       /\ groupsDirty' = TRUE
       /\ UNCHANGED dataVersion

applyStackSnapshotLocked(snapshot) ==
  IF snapshot.gid = NoID
  THEN UNCHANGED <<goroutines, dataVersion, groupsDirty>>
  ELSE /\ goroutines' = [goroutines EXCEPT ![snapshot.gid] = WithStack(@, snapshot)]
       /\ dataVersion' = dataVersion + 1
       /\ groupsDirty' = TRUE

trimStacks(snaps) ==
  IF MaxStacksPerGoroutine > 0 /\ Len(snaps) > MaxStacksPerGoroutine
  THEN SubSeq(snaps, Len(snaps) - MaxStacksPerGoroutine + 1, Len(snaps))
  ELSE snaps

\* Mutant: what trimming drops is not deducted.
evictedNone(snaps) == 0

\* How many snapshots trimming drops from the count.
evicted(snaps) == Len(snaps) - Len(trimStacks(snaps))

resetLocked(s) ==
  /\ session' = s
  /\ goroutines' = [g \in Goroutine |-> ZeroGoroutine]
  /\ closedSegments' = <<>>
  /\ activeSegments' = [g \in Goroutine |-> NoSegment]
  /\ edges' = NoEdges
  /\ processorSegments' = 0
  /\ stacksByGID' = [g \in Goroutine \cup {NoID} |-> <<>>]
  /\ stackCount' = 0
  /\ goroutineBornAt' = [g \in Goroutine |-> 0]
  /\ goroutineChangedAt' = [g \in Goroutine |-> 0]
  /\ dataVersion' = dataVersion + 1
  /\ invalidateCaches
  /\ contentionCache' = {}
  /\ groupsCache' = {}

\* A parent is set only on a tracked goroutine that has none.
MergeParents(gs, ids) ==
  [g \in Goroutine |->
     IF gs[g].known /\ gs[g].parent = NoID
     THEN [gs[g] EXCEPT !.parent = ids[g]] ELSE gs[g]]

MergeLabels(gs, overrides) ==
  [g \in Goroutine |->
     IF gs[g].known
     THEN [gs[g] EXCEPT !.label = OverrideLabel(overrides[g], @)]
     ELSE gs[g]]

notifySubscribers ==
  subscribers' = [s \in Subscribers |->
                    IF subscribers[s] = "empty" THEN "full" ELSE subscribers[s]]

-----------------------------------------------------------------------------
(* Operations *)

Init ==
  /\ session = NoSession
  /\ goroutines = [g \in Goroutine |-> ZeroGoroutine]
  /\ activeSegments = [g \in Goroutine |-> NoSegment]
  /\ closedSegments = <<>>
  /\ edges = NoEdges
  /\ processorSegments = 0
  /\ stacksByGID = [g \in Goroutine \cup {NoID} |-> <<>>]
  /\ stackCount = 0
  /\ dataVersion = 0
  /\ goroutineBornAt = [g \in Goroutine |-> 0]
  /\ goroutineChangedAt = [g \in Goroutine |-> 0]
  /\ contentionDirty = TRUE
  /\ contentionCache = {}
  /\ groupsDirty = TRUE
  /\ groupsCache = {}
  /\ subscribers = [s \in Subscribers |-> "off"]
  /\ loading = Unlocked
  /\ notifyDue = 0

ApplyEvent(event) ==
  /\ MuFree /\ CanBump(1)
  /\ applyEventLocked(event)
  /\ UNCHANGED <<session, edges, processorSegments, stackVars, contentionCache,
                 groupsCache, notifyVars, loading>>

ApplyStackSnapshot(snapshot) ==
  /\ MuFree /\ CanBump(1)
  /\ applyStackSnapshotLocked(snapshot)
  /\ IF snapshot.gid = NoID
     THEN UNCHANGED stackVars
     ELSE LET snaps == Append(stacksByGID[snapshot.gid], snapshot)
          IN  /\ stacksByGID' =
                   [stacksByGID EXCEPT ![snapshot.gid] = trimStacks(snaps)]
              /\ stackCount' = stackCount + 1 - evicted(snaps)
  /\ UNCHANGED <<session, activeSegments, closedSegments, edges,
                 processorSegments, goroutineBornAt, goroutineChangedAt,
                 contentionDirty, contentionCache, groupsCache, notifyVars,
                 loading>>

Reset(s) ==
  /\ MuFree /\ CanBump(1)
  /\ resetLocked(s)
  /\ UNCHANGED <<notifyVars, loading>>

\* LoadCapture takes e.mu and resets ...
LoadBegin(s, capture) ==
  /\ MuFree /\ CanBump(1 + Len(capture.events) + Len(capture.stacks))
  /\ resetLocked(s)
  /\ loading' = [events |-> capture.events, stacks |-> capture.stacks,
                 capture |-> capture]
  /\ UNCHANGED notifyVars

\* ... applies the events in order ...
LoadEvent ==
  /\ ~ MuFree /\ loading.events # <<>>
  /\ applyEventLocked(Head(loading.events))
  /\ loading' = [loading EXCEPT !.events = Tail(@)]
  /\ UNCHANGED <<session, edges, processorSegments, stackVars, contentionCache,
                 groupsCache, notifyVars>>

\* ... then the stacks (its two loops over them are one here: the history is
\* appended without the cap, the count is left for later) ...
LoadStack ==
  LET snapshot == Head(loading.stacks)
  IN  /\ ~ MuFree /\ loading.events = <<>> /\ loading.stacks # <<>>
      /\ applyStackSnapshotLocked(snapshot)
      /\ stacksByGID' = [stacksByGID EXCEPT ![snapshot.gid] = Append(@, snapshot)]
      /\ loading' = [loading EXCEPT !.stacks = Tail(@)]
      /\ UNCHANGED <<session, activeSegments, closedSegments, edges,
                     processorSegments, stackCount, goroutineBornAt,
                     goroutineChangedAt, contentionDirty, contentionCache,
                     groupsCache, notifyVars>>

\* ... and installs the count, graph, parents and labels before it unlocks.
LoadEnd ==
  LET capture == loading.capture
  IN  /\ ~ MuFree /\ loading.events = <<>> /\ loading.stacks = <<>>
      /\ stackCount' = Len(capture.stacks)
      /\ edges' = capture.edges
      /\ processorSegments' = capture.procs
      /\ goroutines' =
           MergeLabels(MergeParents(goroutines, capture.parents), capture.labels)
      /\ loading' = Unlocked
      /\ notifyDue' = notifyDue + 1
      /\ UNCHANGED <<session, activeSegments, closedSegments, stacksByGID,
                     revisionVars, cacheVars, subscribers>>

\* The notification LoadCapture sends after it has unlocked.
LoadNotify ==
  /\ notifyDue > 0
  /\ notifyDue' = notifyDue - 1
  /\ notifySubscribers
  /\ UNCHANGED <<session, timelineVars, edges, processorSegments, stackVars,
                 revisionVars, cacheVars, loading>>

Flush ==
  /\ notifySubscribers
  /\ UNCHANGED <<session, timelineVars, edges, processorSegments, stackVars,
                 revisionVars, cacheVars, notifyDue, loading>>

AddProcessorSegments(n) ==
  /\ MuFree /\ CanBump(1)
  /\ n > 0
  /\ processorSegments' = processorSegments + n
  /\ dataVersion' = dataVersion + 1
  /\ UNCHANGED <<session, timelineVars, edges, stackVars, goroutineBornAt,
                 goroutineChangedAt, cacheVars, notifyVars, loading>>

SetParentIDs(ids) ==
  /\ MuFree /\ CanBump(1)
  /\ \E g \in Goroutine : ids[g] # NoID
  /\ goroutines' = MergeParents(goroutines, ids)
  /\ dataVersion' = dataVersion + 1
  /\ UNCHANGED <<session, activeSegments, closedSegments, edges,
                 processorSegments, stackVars, goroutineBornAt,
                 goroutineChangedAt, cacheVars, notifyVars, loading>>

SetLabelOverrides(overrides) ==
  /\ MuFree /\ CanBump(1)
  /\ \E g \in Goroutine : overrides[g] # NoLabel
  /\ goroutines' = MergeLabels(goroutines, overrides)
  /\ dataVersion' = dataVersion + 1
  /\ groupsDirty' = TRUE
  /\ UNCHANGED <<session, activeSegments, closedSegments, edges,
                 processorSegments, stackVars, goroutineBornAt,
                 goroutineChangedAt, contentionDirty, contentionCache,
                 groupsCache, notifyVars, loading>>

SetResourceGraph(graph) ==
  /\ MuFree /\ CanBump(1)
  /\ edges' = graph
  /\ dataVersion' = dataVersion + 1
  /\ contentionDirty' = TRUE
  /\ UNCHANGED <<session, timelineVars, processorSegments, stackVars,
                 goroutineBornAt, goroutineChangedAt, contentionCache,
                 groupsDirty, groupsCache, notifyVars, loading>>

\* Both queries recompute under the write lock, and only when still dirty.
ResourceContention ==
  /\ MuFree /\ "contention" \in Queries
  /\ contentionDirty
  /\ contentionCache' = ContentionInput
  /\ contentionDirty' = FALSE
  /\ UNCHANGED <<session, timelineVars, edges, processorSegments, stackVars,
                 revisionVars, groupsDirty, groupsCache, notifyVars, loading>>

GroupByRequest ==
  /\ MuFree /\ "groups" \in Queries
  /\ groupsDirty
  /\ groupsCache' = RequestGroups
  /\ groupsDirty' = FALSE
  /\ UNCHANGED <<session, timelineVars, edges, processorSegments, stackVars,
                 revisionVars, contentionDirty, contentionCache, notifyVars,
                 loading>>

Subscribe(s) ==
  /\ subscribers[s] = "off"
  /\ subscribers' = [subscribers EXCEPT ![s] = "empty"]
  /\ UNCHANGED <<session, timelineVars, edges, processorSegments, stackVars,
                 revisionVars, cacheVars, notifyDue, loading>>

Unsubscribe(s) ==
  /\ subscribers[s] # "off"
  /\ subscribers' = [subscribers EXCEPT ![s] = "off"]
  /\ UNCHANGED <<session, timelineVars, edges, processorSegments, stackVars,
                 revisionVars, cacheVars, notifyDue, loading>>

\* The subscriber receives from its channel.
TakeSignal(s) ==
  /\ subscribers[s] = "full"
  /\ subscribers' = [subscribers EXCEPT ![s] = "empty"]
  /\ UNCHANGED <<session, timelineVars, edges, processorSegments, stackVars,
                 revisionVars, cacheVars, notifyDue, loading>>

(* Environment, which LiveRun shows of the trace bridge: the events of a       *)
(* goroutine arrive in the order of their times, and the stack of a tracked    *)
(* one is no newer than its event.                                             *)
InOrder(event) ==
  event.gid # NoID => event.ts >= goroutines[event.gid].lastSeenAt

WithItsEvent(snapshot) ==
  snapshot.gid # NoID =>
    LET g == goroutines[snapshot.gid] IN g.known => snapshot.ts <= g.lastSeenAt

\* The same of a loaded capture, where the events come before the stacks.
CaptureInOrder(capture) ==
  /\ \A i, j \in 1..Len(capture.events) :
       i < j /\ capture.events[i].gid = capture.events[j].gid
         => capture.events[i].ts <= capture.events[j].ts
  /\ \A k \in 1..Len(capture.stacks) :
       LET snapshot == capture.stacks[k]
           own == {i \in 1..Len(capture.events) :
                     capture.events[i].gid = snapshot.gid}
       IN  own # {} => \E i \in own : snapshot.ts <= capture.events[i].ts

Next ==
  \/ \E e \in Events : InOrder(e) /\ ApplyEvent(e)
  \/ \E s \in Snapshots : WithItsEvent(s) /\ ApplyStackSnapshot(s)
  \/ \E s \in Session : Reset(s)
  \/ \E s \in Session, c \in Captures : LoadBegin(s, c)
  \/ LoadEvent
  \/ LoadStack
  \/ LoadEnd
  \/ LoadNotify
  \/ Flush
  \/ AddProcessorSegments(1)
  \/ \E ids \in ParentMaps : SetParentIDs(ids)
  \/ \E overrides \in LabelMaps : SetLabelOverrides(overrides)
  \/ \E graph \in EdgeSets : SetResourceGraph(graph)
  \/ ResourceContention
  \/ GroupByRequest
  \/ \E s \in Subscribers : Subscribe(s) \/ Unsubscribe(s) \/ TakeSignal(s)

Spec == Init /\ [][Next]_vars

-----------------------------------------------------------------------------
(* Properties *)

\* What the theorems about times assume of the captures, and TLC evaluates.
CapturesInOrder == \A c \in Captures : CaptureInOrder(c)

\* Every variable holds a value of its kind.
TypeOK ==
  /\ session \in Session \cup {NoSession}
  /\ goroutines \in [Goroutine -> GoroutineRecord]
  /\ activeSegments \in [Goroutine -> ActiveSegment]
  /\ closedSegments \in Seq(TimelineSegment)
  /\ edges \in EdgeSets
  /\ processorSegments \in Nat
  /\ stacksByGID \in [Goroutine \cup {NoID} -> Seq(StackSnapshot)]
  /\ stackCount \in Int
  /\ dataVersion \in Nat
  /\ goroutineBornAt \in [Goroutine -> Nat]
  /\ goroutineChangedAt \in [Goroutine -> Nat]
  /\ contentionDirty \in BOOLEAN
  /\ contentionCache \in SUBSET TimelineSegment
  /\ groupsDirty \in BOOLEAN
  /\ subscribers \in [Subscribers -> {"off", "empty", "full"}]
  /\ loading \in [events: Seq(Event), stacks: Seq(StackSnapshot),
                  capture: Captures \cup {NoCapture}]
  /\ notifyDue \in Nat

\* The open bar of the timeline shows the state the goroutine is in: a tracked
\* goroutine has exactly one open segment, with its state, reason and resource,
\* and a finished one has none (updateSegmentsLocked keeps two maps in step).
ActiveSegmentMatches ==
  \A g \in Goroutine :
    /\ activeSegments[g] # NoSegment <=> shouldTrackState(goroutines[g].state)
    /\ activeSegments[g] # NoSegment =>
         segmentMatchesGoroutine(activeSegments[g], goroutines[g])

\* The wait time that leak detection compares with its threshold is the time
\* since the open segment began, however many events repeated the wait.
WaitAccounted ==
  \A g \in Goroutine :
    IF isWaitState(goroutines[g].state)
    THEN goroutines[g].waitNS = goroutines[g].lastSeenAt - activeSegments[g].start
    ELSE goroutines[g].waitNS = 0

\* The timeline of a goroutine is a sequence of non-empty intervals that do not
\* overlap, closed ones in order and the open one last, whatever was evicted.
SegmentsDisjoint ==
  LET Dom == 1..Len(closedSegments)
  IN  /\ \A i \in Dom : closedSegments[i].start < closedSegments[i].end
      /\ \A i, j \in Dom :
           i < j /\ closedSegments[i].gid = closedSegments[j].gid
             => closedSegments[i].end <= closedSegments[j].start
      /\ \A i \in Dom :
           LET open == activeSegments[closedSegments[i].gid]
           IN  open # NoSegment => closedSegments[i].end <= open.start

\* MemoryStats reports a counter kept beside the histories it counts; trimming
\* and loading must keep the two equal.
StackCountExact ==
  MuFree =>
    stackCount = MapThenSumSet(LAMBDA g : Len(stacksByGID[g]), DOMAIN stacksByGID)

\* What DeltaSince reads: a goroutine that any event touched has both marks, was
\* born no later than it changed, and neither mark is ahead of the version.
RevisionsOrdered ==
  \A g \in Goroutine :
    /\ goroutineBornAt[g] <= goroutineChangedAt[g]
    /\ goroutineChangedAt[g] <= dataVersion
    /\ goroutineBornAt[g] = 0 <=> goroutineChangedAt[g] = 0
    /\ goroutines[g].state # "" => goroutineBornAt[g] > 0

\* An ETag is a version: two states a reader can see under the same version
\* serve the same goroutines, timeline, graph and processor segments.
VersionCoversState ==
  [][ MuFree /\ dataVersion' = dataVersion
        => UNCHANGED <<timelineVars, edges, processorSegments, stackVars>> ]_vars

\* Whatever ResourceContention answers from its cache is what it would compute.
ContentionCacheFresh ==
  MuFree /\ ~ contentionDirty => contentionCache = ContentionInput

\* Whatever GroupByRequest answers from its cache is what it would compute from
\* the labels, stacks and parent chains of the goroutines it has now.
GroupsCacheFresh ==
  MuFree /\ ~ groupsDirty => groupsCache = RequestGroups
=============================================================================
