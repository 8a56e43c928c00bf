---------------------------- MODULE Engine_proofs ---------------------------
(***************************************************************************)
(* Theorems about Engine, for every set of goroutines, events, captures    *)
(* and subscribers and every retention limit: its types and what is kept   *)
(* in step (segments, marks, caches, versions, the stack counter), the     *)
(* times of waits and segments, and (last) the refinement of Revisions.    *)
(***************************************************************************)
EXTENDS EngineRefinement, GoroutineState_proofs, Sums_proofs, SequenceTheorems, TLAPS

LEMMA ZeroType == ZeroGoroutine \in GoroutineRecord /\ NoSegment \in ActiveSegment
BY ZeroGoroutineType DEF NoSegment, ActiveSegment

-----------------------------------------------------------------------------
(* Segments and histories *)

LEMMA BuildType ==
  ASSUME NEW g \in Goroutine, NEW seg \in ActiveSegment, NEW end \in Nat
  PROVE  buildTimelineSegment(g, seg, end) \in Seq(TimelineSegment)
<1>. DEFINE built == [gid |-> g, start |-> seg.start, end |-> end,
                      state |-> seg.state, reason |-> seg.reason,
                      resource |-> seg.resource]
<1>1. built \in TimelineSegment
  BY DEF ActiveSegment, TimelineSegment
<1>2. buildTimelineSegment(g, seg, end) \in {<<built>>, <<>>}
  BY DEF buildTimelineSegment
<1>. HIDE DEF built
<1>3. <<built>> \in Seq(TimelineSegment)
  BY <1>1
<1>4. <<>> \in Seq(TimelineSegment)
  OBVIOUS
<1>. QED
  BY ONLY <1>2, <1>3, <1>4, Zenon

LEMMA TrimType ==
  ASSUME NEW segs \in Seq(TimelineSegment)
  PROVE  trimClosedSegments(segs) \in Seq(TimelineSegment)
BY EngineAssumption DEF trimClosedSegments

LEMMA TrimStacksType ==
  ASSUME NEW snaps \in Seq(StackSnapshot)
  PROVE  trimStacks(snaps) \in Seq(StackSnapshot) /\ Len(trimStacks(snaps)) \in Nat
BY EngineAssumption DEF trimStacks

\* What a reader of the timeline is served has the type of a segment.
LEMMA TimelineType ==
  ASSUME TypeOK
  PROVE  ContentionInput \in SUBSET TimelineSegment
<1>1. \A i \in 1..Len(closedSegments) : closedSegments[i] \in TimelineSegment
  BY DEF TypeOK
<1>2. ASSUME NEW g \in Goroutine,
             NEW b \in {x \in {buildTimelineSegment(
                                 g, activeSegments[g], goroutines[g].lastSeenAt)}
                          : x # <<>>}
      PROVE  b[1] \in TimelineSegment
  <2>1. activeSegments[g] \in ActiveSegment /\ goroutines[g] \in GoroutineRecord
    BY DEF TypeOK
  <2>2. goroutines[g].lastSeenAt \in Nat
    BY <2>1 DEF GoroutineRecord
  <2>3. b \in Seq(TimelineSegment) /\ b # <<>>
    BY <1>2, <2>1, <2>2, BuildType
  <2>. QED
    BY <2>3
<1>3. Timeline \subseteq TimelineSegment
  BY <1>1, <1>2 DEF Timeline
<1>. QED
  BY <1>3 DEF ContentionInput

-----------------------------------------------------------------------------
(* Types of what the locked helpers leave *)

LEMMA UpdateSegmentsType ==
  ASSUME TypeOK, NEW g \in Goroutine, NEW current \in GoroutineRecord,
         NEW next \in GoroutineRecord, NEW e \in Event,
         updateSegmentsLocked(g, current, next, e)
  PROVE  /\ activeSegments' \in [Goroutine -> ActiveSegment]
         /\ closedSegments' \in Seq(TimelineSegment)
<1>1. /\ activeSegments \in [Goroutine -> ActiveSegment]
      /\ closedSegments \in Seq(TimelineSegment)
      /\ activeSegments[g] \in ActiveSegment
      /\ e.ts \in Nat
  BY DEF TypeOK, Event
<1>2. [start |-> e.ts, state |-> next.state, reason |-> next.reason,
       resource |-> next.resource] \in ActiveSegment
  BY <1>1 DEF ActiveSegment, GoroutineRecord
<1>3. NoSegment \in ActiveSegment
  BY ZeroType
<1>4. buildTimelineSegment(g, activeSegments[g], e.ts) \in Seq(TimelineSegment)
  BY <1>1, BuildType
<1>5. closedSegments \o buildTimelineSegment(g, activeSegments[g], e.ts)
        \in Seq(TimelineSegment)
  BY <1>1, <1>4, ConcatProperties
<1>6. activeSegments' \in [Goroutine -> ActiveSegment]
  BY <1>1, <1>2, <1>3 DEF updateSegmentsLocked
<1>7. closedSegments' \in Seq(TimelineSegment)
  BY <1>1, <1>5, TrimType DEF updateSegmentsLocked
<1>. QED
  BY <1>6, <1>7

LEMMA ApplyEventType ==
  ASSUME TypeOK, NEW raw \in Event, applyEventLocked(raw)
  PROVE  /\ goroutines' \in [Goroutine -> GoroutineRecord]
         /\ activeSegments' \in [Goroutine -> ActiveSegment]
         /\ closedSegments' \in Seq(TimelineSegment)
         /\ dataVersion' \in Nat
         /\ goroutineBornAt' \in [Goroutine -> Nat]
         /\ goroutineChangedAt' \in [Goroutine -> Nat]
         /\ contentionDirty' \in BOOLEAN
         /\ groupsDirty' \in BOOLEAN
<1>. DEFINE e == normalizeEvent(raw)
            next == NextGoroutine(goroutines[e.gid], e)
<1>1. e \in Event /\ e.gid \in Goroutine \cup {NoID}
  <2>1. e \in Event
    BY NormalizeType
  <2>. QED
    BY <2>1 DEF Event
<1>2. CASE e.gid = NoID
  BY <1>2 DEF applyEventLocked, timelineVars, revisionVars, TypeOK
<1>3. CASE e.gid # NoID
  <2>1. e.gid \in Goroutine /\ goroutines[e.gid] \in GoroutineRecord
    BY <1>1, <1>3 DEF TypeOK
  <2>2. next \in GoroutineRecord
    BY <1>1, <2>1, NextGoroutineType
  <2>3. /\ goroutines' = [goroutines EXCEPT ![e.gid] = next]
        /\ updateSegmentsLocked(e.gid, goroutines[e.gid], next, e)
        /\ dataVersion' = dataVersion + 1
        /\ contentionDirty' = TRUE
        /\ groupsDirty' = TRUE
        /\ goroutineBornAt' =
             [goroutineBornAt EXCEPT ![e.gid] = IF @ = 0 THEN dataVersion' ELSE @]
        /\ goroutineChangedAt' = [goroutineChangedAt EXCEPT ![e.gid] = dataVersion']
    BY <1>3 DEF applyEventLocked, MarkTouched, invalidateCaches
  <2>. HIDE DEF e, next
  <2>4. /\ activeSegments' \in [Goroutine -> ActiveSegment]
        /\ closedSegments' \in Seq(TimelineSegment)
    BY <1>1, <2>1, <2>2, <2>3, UpdateSegmentsType
  <2>5. goroutines' \in [Goroutine -> GoroutineRecord]
    BY <2>1, <2>2, <2>3 DEF TypeOK
  <2>6. dataVersion' \in Nat
    BY <2>3 DEF TypeOK
  <2>7. /\ goroutineBornAt' \in [Goroutine -> Nat]
        /\ goroutineChangedAt' \in [Goroutine -> Nat]
    BY <2>1, <2>3, <2>6 DEF TypeOK
  <2>. QED
    BY <2>3, <2>4, <2>5, <2>6, <2>7
<1>. QED
  BY <1>2, <1>3

LEMMA ApplyStackType ==
  ASSUME TypeOK, NEW s \in StackSnapshot, applyStackSnapshotLocked(s)
  PROVE  /\ goroutines' \in [Goroutine -> GoroutineRecord]
         /\ dataVersion' \in Nat
         /\ groupsDirty' \in BOOLEAN
<1>1. CASE s.gid = NoID
  BY <1>1 DEF applyStackSnapshotLocked, TypeOK
<1>2. CASE s.gid # NoID
  <2>1. s.gid \in Goroutine
    BY <1>2 DEF StackSnapshot
  <2>2. goroutines[s.gid] \in GoroutineRecord
    BY <2>1 DEF TypeOK
  <2>3. WithStack(goroutines[s.gid], s) \in GoroutineRecord
    BY <2>2, WithStackType
  <2>4. /\ goroutines' = [goroutines EXCEPT
                            ![s.gid] = WithStack(goroutines[s.gid], s)]
        /\ dataVersion' = dataVersion + 1
        /\ groupsDirty' = TRUE
    BY <1>2 DEF applyStackSnapshotLocked
  <2>5. goroutines' \in [Goroutine -> GoroutineRecord]
    BY <2>1, <2>3, <2>4 DEF TypeOK
  <2>. QED
    BY <2>4, <2>5 DEF TypeOK
<1>. QED
  BY <1>1, <1>2

LEMMA ResetType ==
  ASSUME TypeOK, NEW s \in Session, resetLocked(s)
  PROVE  /\ session' \in Session \cup {NoSession}
         /\ goroutines' \in [Goroutine -> GoroutineRecord]
         /\ activeSegments' \in [Goroutine -> ActiveSegment]
         /\ closedSegments' \in Seq(TimelineSegment)
         /\ edges' \in EdgeSets
         /\ processorSegments' \in Nat
         /\ stacksByGID' \in [Goroutine \cup {NoID} -> Seq(StackSnapshot)]
         /\ stackCount' \in Int
         /\ dataVersion' \in Nat
         /\ goroutineBornAt' \in [Goroutine -> Nat]
         /\ goroutineChangedAt' \in [Goroutine -> Nat]
         /\ contentionDirty' \in BOOLEAN
         /\ contentionCache' \in SUBSET TimelineSegment
         /\ groupsDirty' \in BOOLEAN
<1>1. /\ goroutines' \in [Goroutine -> GoroutineRecord]
      /\ activeSegments' \in [Goroutine -> ActiveSegment]
  BY ZeroType DEF resetLocked
<1>2. stacksByGID' \in [Goroutine \cup {NoID} -> Seq(StackSnapshot)]
  <2>1. <<>> \in Seq(StackSnapshot)
    OBVIOUS
  <2>. QED
    BY <2>1 DEF resetLocked
<1>3. closedSegments' \in Seq(TimelineSegment) /\ dataVersion' \in Nat
  BY DEF resetLocked, TypeOK
<1>4. /\ goroutineBornAt' \in [Goroutine -> Nat]
      /\ goroutineChangedAt' \in [Goroutine -> Nat]
  BY DEF resetLocked
<1>5. /\ session' \in Session \cup {NoSession}
      /\ edges' \in EdgeSets
      /\ processorSegments' \in Nat
      /\ stackCount' \in Int
      /\ contentionDirty' \in BOOLEAN
      /\ contentionCache' \in SUBSET TimelineSegment
      /\ groupsDirty' \in BOOLEAN
  BY EngineAssumption DEF resetLocked, invalidateCaches
<1>. QED
  BY <1>1, <1>2, <1>3, <1>4, <1>5

LEMMA MergeParentsType ==
  ASSUME NEW gs \in [Goroutine -> GoroutineRecord],
         NEW ids \in [Goroutine -> Goroutine \cup {NoID}]
  PROVE  MergeParents(gs, ids) \in [Goroutine -> GoroutineRecord]
<1>1. ASSUME NEW g \in Goroutine
      PROVE  [gs[g] EXCEPT !.parent = ids[g]] \in GoroutineRecord
  BY DEF GoroutineRecord
<1>. QED
  BY <1>1 DEF MergeParents

LEMMA MergeLabelsType ==
  ASSUME NEW gs \in [Goroutine -> GoroutineRecord],
         NEW overrides \in [Goroutine -> Label \cup {NoLabel}]
  PROVE  MergeLabels(gs, overrides) \in [Goroutine -> GoroutineRecord]
<1>1. ASSUME NEW g \in Goroutine
      PROVE  [gs[g] EXCEPT !.label = OverrideLabel(overrides[g], @)] \in GoroutineRecord
  BY DEF GoroutineRecord, OverrideLabel
<1>. QED
  BY <1>1 DEF MergeLabels

LEMMA NotifyType ==
  ASSUME TypeOK, notifySubscribers
  PROVE  subscribers' \in [Subscribers -> {"off", "empty", "full"}]
BY DEF TypeOK, notifySubscribers

\* What the assumptions say of a capture that may be loaded.
LEMMA CaptureType ==
  ASSUME NEW c \in Captures
  PROVE  /\ c.events \in Seq(Event)
         /\ c.stacks \in Seq(StackSnapshot)
         /\ c.edges \in EdgeSets
         /\ c.procs \in Nat
         /\ c.parents \in [Goroutine -> Goroutine \cup {NoID}]
         /\ c.labels \in [Goroutine -> Label \cup {NoLabel}]
         /\ \A i \in 1..Len(c.events) : Stamped(c.events[i])
BY EngineAssumption DEF Capture

LEMMA LoadEndType ==
  ASSUME TypeOK, LoadEnd
  PROVE  /\ goroutines' \in [Goroutine -> GoroutineRecord]
         /\ stackCount' \in Int
         /\ edges' \in EdgeSets
         /\ processorSegments' \in Nat
<1>. DEFINE capture == loading.capture
<1>1. capture \in Captures
  BY DEF TypeOK, LoadEnd, MuFree
<1>2. goroutines' \in [Goroutine -> GoroutineRecord]
  <2>1. goroutines \in [Goroutine -> GoroutineRecord]
    BY DEF TypeOK
  <2>2. MergeParents(goroutines, capture.parents) \in [Goroutine -> GoroutineRecord]
    BY <1>1, <2>1, CaptureType, MergeParentsType
  <2>3. MergeLabels(MergeParents(goroutines, capture.parents), capture.labels)
          \in [Goroutine -> GoroutineRecord]
    BY <1>1, <2>2, CaptureType, MergeLabelsType
  <2>. QED
    BY <2>3 DEF LoadEnd
<1>3. /\ stackCount' \in Int
      /\ edges' \in EdgeSets
      /\ processorSegments' \in Nat
  BY <1>1, CaptureType DEF LoadEnd
<1>. QED
  BY <1>2, <1>3

-----------------------------------------------------------------------------
(* Type correctness *)

LEMMA InitType == Init => TypeOK
<1>. SUFFICES ASSUME Init PROVE TypeOK
  OBVIOUS
<1>1. /\ goroutines \in [Goroutine -> GoroutineRecord]
      /\ activeSegments \in [Goroutine -> ActiveSegment]
  BY ZeroType DEF Init
<1>2. /\ closedSegments \in Seq(TimelineSegment)
      /\ stacksByGID \in [Goroutine \cup {NoID} -> Seq(StackSnapshot)]
  <2>1. <<>> \in Seq(StackSnapshot)
    OBVIOUS
  <2>. QED
    BY <2>1 DEF Init
<1>3. loading \in [events: Seq(Event), stacks: Seq(StackSnapshot),
                   capture: Captures \cup {NoCapture}]
  BY DEF Init, Unlocked
<1>4. /\ session \in Session \cup {NoSession}
      /\ edges \in EdgeSets
      /\ processorSegments \in Nat
      /\ stackCount \in Int
      /\ dataVersion \in Nat
      /\ goroutineBornAt \in [Goroutine -> Nat]
      /\ goroutineChangedAt \in [Goroutine -> Nat]
      /\ contentionDirty \in BOOLEAN
      /\ contentionCache \in SUBSET TimelineSegment
      /\ groupsDirty \in BOOLEAN
      /\ subscribers \in [Subscribers -> {"off", "empty", "full"}]
      /\ notifyDue \in Nat
  BY EngineAssumption DEF Init
<1>. QED
  BY <1>1, <1>2, <1>3, <1>4 DEF TypeOK

LEMMA NextType == TypeOK /\ [Next]_vars => TypeOK'
<1>. SUFFICES ASSUME TypeOK, [Next]_vars PROVE TypeOK'
  OBVIOUS
<1>. USE DEF timelineVars, stackVars, revisionVars, cacheVars, notifyVars
<1>1. ASSUME NEW e \in Events, ApplyEvent(e) PROVE TypeOK'
  <2>1. e \in Event
    BY EngineAssumption
  <2>. QED
    BY <1>1, <2>1, ApplyEventType DEF ApplyEvent, TypeOK
<1>2. ASSUME NEW s \in Snapshots, ApplyStackSnapshot(s) PROVE TypeOK'
  <2>1. s \in StackSnapshot
    BY EngineAssumption
  <2>2. /\ goroutines' \in [Goroutine -> GoroutineRecord]
        /\ dataVersion' \in Nat
        /\ groupsDirty' \in BOOLEAN
    BY <1>2, <2>1, ApplyStackType DEF ApplyStackSnapshot
  <2>3. /\ stacksByGID' \in [Goroutine \cup {NoID} -> Seq(StackSnapshot)]
        /\ stackCount' \in Int
    <3>1. CASE s.gid = NoID
      BY <1>2, <3>1 DEF ApplyStackSnapshot, TypeOK
    <3>2. CASE s.gid # NoID
      <4>. DEFINE snaps == Append(stacksByGID[s.gid], s)
      <4>1. s.gid \in Goroutine \cup {NoID}
        BY <2>1 DEF StackSnapshot
      <4>2. snaps \in Seq(StackSnapshot) /\ Len(snaps) \in Nat
        BY <2>1, <4>1 DEF TypeOK
      <4>3. trimStacks(snaps) \in Seq(StackSnapshot) /\ Len(trimStacks(snaps)) \in Nat
        BY <4>2, TrimStacksType
      <4>4. /\ stacksByGID' = [stacksByGID EXCEPT ![s.gid] = trimStacks(snaps)]
            /\ stackCount' = stackCount + 1 - (Len(snaps) - Len(trimStacks(snaps)))
        BY <1>2, <3>2 DEF ApplyStackSnapshot, evicted
      <4>. HIDE DEF snaps
      <4>. QED
        BY <4>1, <4>2, <4>3, <4>4 DEF TypeOK
    <3>. QED
      BY <3>1, <3>2
  <2>. QED
    BY <1>2, <2>2, <2>3 DEF ApplyStackSnapshot, TypeOK
<1>3. ASSUME NEW s \in Session, Reset(s) PROVE TypeOK'
  BY <1>3, ResetType DEF Reset, TypeOK
<1>4. ASSUME NEW s \in Session, NEW c \in Captures, LoadBegin(s, c) PROVE TypeOK'
  <2>1. loading' \in [events: Seq(Event), stacks: Seq(StackSnapshot),
                      capture: Captures \cup {NoCapture}]
    BY <1>4, CaptureType DEF LoadBegin
  <2>. QED
    BY <1>4, <2>1, ResetType DEF LoadBegin, TypeOK
<1>5. ASSUME LoadEvent PROVE TypeOK'
  <2>1. loading.events \in Seq(Event) /\ loading.events # <<>>
    BY <1>5 DEF LoadEvent, TypeOK
  <2>2. Head(loading.events) \in Event /\ Tail(loading.events) \in Seq(Event)
    BY <2>1
  <2>3. loading' \in [events: Seq(Event), stacks: Seq(StackSnapshot),
                      capture: Captures \cup {NoCapture}]
    BY <1>5, <2>2 DEF LoadEvent, TypeOK
  <2>. QED
    BY <1>5, <2>2, <2>3, ApplyEventType DEF LoadEvent, TypeOK
<1>6. ASSUME LoadStack PROVE TypeOK'
  <2>1. loading.stacks \in Seq(StackSnapshot) /\ loading.stacks # <<>>
    BY <1>6 DEF LoadStack, TypeOK
  <2>2. /\ Head(loading.stacks) \in StackSnapshot
        /\ Tail(loading.stacks) \in Seq(StackSnapshot)
    BY <2>1
  <2>3. loading' \in [events: Seq(Event), stacks: Seq(StackSnapshot),
                      capture: Captures \cup {NoCapture}]
    BY <1>6, <2>2 DEF LoadStack, TypeOK
  <2>4. stacksByGID' \in [Goroutine \cup {NoID} -> Seq(StackSnapshot)]
    <3>1. Head(loading.stacks).gid \in Goroutine \cup {NoID}
      BY <2>2 DEF StackSnapshot
    <3>2. Append(stacksByGID[Head(loading.stacks).gid], Head(loading.stacks))
            \in Seq(StackSnapshot)
      BY <2>2, <3>1 DEF TypeOK
    <3>. QED
      BY <1>6, <3>1, <3>2 DEF LoadStack, TypeOK
  <2>. QED
    BY <1>6, <2>2, <2>3, <2>4, ApplyStackType DEF LoadStack, TypeOK
<1>7. ASSUME LoadEnd PROVE TypeOK'
  <2>1. loading' \in [events: Seq(Event), stacks: Seq(StackSnapshot),
                      capture: Captures \cup {NoCapture}]
    BY <1>7 DEF LoadEnd, Unlocked
  <2>2. notifyDue' \in Nat
    BY <1>7 DEF LoadEnd, TypeOK
  <2>. QED
    BY <1>7, <2>1, <2>2, LoadEndType DEF LoadEnd, TypeOK
<1>8. ASSUME LoadNotify \/ Flush PROVE TypeOK'
  BY <1>8, NotifyType DEF LoadNotify, Flush, TypeOK
<1>9. ASSUME AddProcessorSegments(1) PROVE TypeOK'
  BY <1>9 DEF AddProcessorSegments, TypeOK
<1>10. ASSUME NEW ids \in ParentMaps, SetParentIDs(ids) PROVE TypeOK'
  <2>1. /\ ids \in [Goroutine -> Goroutine \cup {NoID}]
        /\ goroutines \in [Goroutine -> GoroutineRecord]
    BY EngineAssumption DEF TypeOK
  <2>2. goroutines' \in [Goroutine -> GoroutineRecord]
    BY <1>10, <2>1, MergeParentsType DEF SetParentIDs
  <2>. QED
    BY <1>10, <2>2 DEF SetParentIDs, TypeOK
<1>11. ASSUME NEW overrides \in LabelMaps, SetLabelOverrides(overrides)
       PROVE  TypeOK'
  <2>1. /\ overrides \in [Goroutine -> Label \cup {NoLabel}]
        /\ goroutines \in [Goroutine -> GoroutineRecord]
    BY EngineAssumption DEF TypeOK
  <2>2. goroutines' \in [Goroutine -> GoroutineRecord]
    BY <1>11, <2>1, MergeLabelsType DEF SetLabelOverrides
  <2>. QED
    BY <1>11, <2>2 DEF SetLabelOverrides, TypeOK
<1>12. ASSUME NEW graph \in EdgeSets, SetResourceGraph(graph) PROVE TypeOK'
  BY <1>12 DEF SetResourceGraph, TypeOK
<1>13. ASSUME ResourceContention PROVE TypeOK'
  BY <1>13, TimelineType DEF ResourceContention, TypeOK
<1>14. ASSUME GroupByRequest PROVE TypeOK'
  BY <1>14 DEF GroupByRequest, TypeOK
<1>15. ASSUME NEW s \in Subscribers, Subscribe(s) \/ Unsubscribe(s) \/ TakeSignal(s)
       PROVE  TypeOK'
  BY <1>15 DEF Subscribe, Unsubscribe, TakeSignal, TypeOK
<1>16. CASE UNCHANGED vars
  BY <1>16 DEF vars, TypeOK
<1>. QED
  BY <1>1, <1>2, <1>3, <1>4, <1>5, <1>6, <1>7, <1>8, <1>9, <1>10, <1>11,
     <1>12, <1>13, <1>14, <1>15, <1>16 DEF Next

\* The engine's variables keep their types, whatever its callers send it.
THEOREM Typing == Spec => []TypeOK
BY InitType, NextType, PTL DEF Spec

-----------------------------------------------------------------------------
(* The inductive invariant.  A capture being loaded still holds only stamped *)
(* events, and hides behind a dirty contention cache; a goroutine that was    *)
(* never seen has no state, so that a stack can create it without a segment.  *)

LoadingStamped == \A i \in 1..Len(loading.events) : Stamped(loading.events[i])
LoadingDirty == ~ MuFree => contentionDirty
UnseenBlank == \A g \in Goroutine : ~ goroutines[g].known => goroutines[g].state = ""

EngineInv ==
  /\ TypeOK
  /\ LoadingStamped
  /\ LoadingDirty
  /\ UnseenBlank
  /\ ActiveSegmentMatches
  /\ RevisionsOrdered
  /\ ContentionCacheFresh

LEMMA NormalizeStamped ==
  ASSUME NEW e \in Event, Stamped(e)
  PROVE  Stamped(normalizeEvent(e))
BY NormalizeType DEF Stamped

LEMMA ApplyKnown ==
  ASSUME NEW r \in GoroutineRecord, NEW e \in Event
  PROVE  NextGoroutine(r, e).known = TRUE
<1>1. Apply(r, e) \in GoroutineRecord
  BY ApplyType
<1>2. Apply(r, e).known = TRUE
  BY DEF Apply, GoroutineRecord
<1>. HIDE DEF Apply
<1>. QED
  BY <1>1, <1>2 DEF NextGoroutine, GoroutineRecord

\* Whatever the next goroutine is, its open segment ends up matching it.
LEMMA UpdateSegmentsMatches ==
  ASSUME TypeOK, ActiveSegmentMatches, NEW g \in Goroutine,
         NEW next \in GoroutineRecord, NEW e \in Event, Stamped(e),
         goroutines' = [goroutines EXCEPT ![g] = next],
         updateSegmentsLocked(g, goroutines[g], next, e)
  PROVE  ActiveSegmentMatches'
<1>. DEFINE active == activeSegments[g]
            leaves == LeavesSegment(active, goroutines[g], next)
            opens  == (active = NoSegment \/ leaves) /\ shouldTrackState(next.state)
            fresh  == [start |-> e.ts, state |-> next.state,
                       reason |-> next.reason, resource |-> next.resource]
<1>1. activeSegments' = [activeSegments EXCEPT
                           ![g] = IF opens THEN fresh
                                  ELSE IF leaves THEN NoSegment ELSE @]
  BY DEF updateSegmentsLocked, Stamped
<1>2. fresh # NoSegment /\ segmentMatchesGoroutine(fresh, next)
  BY DEF NoSegment, segmentMatchesGoroutine, Stamped
<1>3. ASSUME NEW h \in Goroutine, h # g
      PROVE  /\ goroutines'[h] = goroutines[h]
             /\ activeSegments'[h] = activeSegments[h]
  BY <1>1, <1>3 DEF TypeOK
<1>4. /\ goroutines'[g] = next
      /\ activeSegments'[g] = IF opens THEN fresh
                              ELSE IF leaves THEN NoSegment ELSE active
  BY <1>1 DEF TypeOK
<1>5. /\ active # NoSegment <=> shouldTrackState(goroutines[g].state)
      /\ active # NoSegment => segmentMatchesGoroutine(active, goroutines[g])
  BY DEF ActiveSegmentMatches
<1>6. /\ activeSegments'[g] # NoSegment <=> shouldTrackState(next.state)
      /\ activeSegments'[g] # NoSegment =>
           segmentMatchesGoroutine(activeSegments'[g], next)
  <2>. HIDE DEF fresh, active
  <2>1. CASE opens
    BY <1>2, <1>4, <2>1
  <2>2. CASE ~ opens /\ leaves
    BY <1>4, <2>2
  <2>3. CASE ~ opens /\ ~ leaves /\ active = NoSegment
    BY <1>4, <2>3
  <2>4. CASE ~ opens /\ ~ leaves /\ active # NoSegment
    <3>1. segmentMatchesGoroutine(active, next)
      BY <1>5, <2>4 DEF LeavesSegment
    <3>2. next.state = goroutines[g].state
      BY <1>5, <2>4, <3>1 DEF segmentMatchesGoroutine
    <3>. QED
      BY <1>4, <1>5, <2>4, <3>1, <3>2
  <2>. QED
    BY <2>1, <2>2, <2>3, <2>4
<1>. QED
  BY <1>3, <1>4, <1>6 DEF ActiveSegmentMatches

\* An event keeps the segments in step, the marks ordered, the cache dirty.
LEMMA ApplyEventInv ==
  ASSUME EngineInv, NEW raw \in Event, Stamped(raw), applyEventLocked(raw)
  PROVE  /\ UnseenBlank'
         /\ ActiveSegmentMatches'
         /\ RevisionsOrdered'
         /\ contentionDirty' = TRUE \/ UNCHANGED <<timelineVars, contentionDirty>>
<1>. DEFINE e == normalizeEvent(raw)
            next == NextGoroutine(goroutines[e.gid], e)
<1>1. e \in Event /\ Stamped(e) /\ e.gid \in Goroutine \cup {NoID}
  <2>1. e \in Event
    BY NormalizeType
  <2>2. Stamped(e)
    BY NormalizeStamped
  <2>. QED
    BY <2>1, <2>2 DEF Event
<1>2. CASE e.gid = NoID
  BY <1>2 DEF applyEventLocked, timelineVars, revisionVars, EngineInv, UnseenBlank,
              ActiveSegmentMatches, RevisionsOrdered
<1>3. CASE e.gid # NoID
  <2>1. e.gid \in Goroutine /\ goroutines[e.gid] \in GoroutineRecord
    BY <1>1, <1>3 DEF EngineInv, TypeOK
  <2>2. next \in GoroutineRecord /\ next.known = TRUE
    BY <1>1, <2>1, NextGoroutineType, ApplyKnown
  <2>3. /\ goroutines' = [goroutines EXCEPT ![e.gid] = next]
        /\ updateSegmentsLocked(e.gid, goroutines[e.gid], next, e)
        /\ dataVersion' = dataVersion + 1
        /\ contentionDirty' = TRUE
        /\ goroutineBornAt' =
             [goroutineBornAt EXCEPT ![e.gid] = IF @ = 0 THEN dataVersion' ELSE @]
        /\ goroutineChangedAt' = [goroutineChangedAt EXCEPT ![e.gid] = dataVersion']
    BY <1>3 DEF applyEventLocked, MarkTouched, invalidateCaches
  <2>. HIDE DEF e, next
  <2>4. ActiveSegmentMatches'
    BY <1>1, <2>1, <2>2, <2>3, UpdateSegmentsMatches DEF EngineInv
  <2>5. UnseenBlank'
    BY <2>1, <2>2, <2>3 DEF EngineInv, TypeOK, UnseenBlank
  <2>6. RevisionsOrdered'
    <3>. SUFFICES ASSUME NEW g \in Goroutine
                  PROVE  /\ goroutineBornAt'[g] <= goroutineChangedAt'[g]
                         /\ goroutineChangedAt'[g] <= dataVersion'
                         /\ goroutineBornAt'[g] = 0 <=> goroutineChangedAt'[g] = 0
                         /\ goroutines'[g].state # "" => goroutineBornAt'[g] > 0
      BY DEF RevisionsOrdered
    <3>0. /\ dataVersion \in Nat
          /\ goroutineBornAt[g] \in Nat /\ goroutineChangedAt[g] \in Nat
          /\ goroutineBornAt[g] <= goroutineChangedAt[g]
          /\ goroutineChangedAt[g] <= dataVersion
          /\ goroutineBornAt[g] = 0 <=> goroutineChangedAt[g] = 0
      BY DEF EngineInv, TypeOK, RevisionsOrdered
    <3>1. goroutines[g].state # "" => goroutineBornAt[g] > 0
      BY DEF EngineInv, RevisionsOrdered
    <3>2. CASE g = e.gid
      <4>1. /\ goroutineBornAt'[g] = IF goroutineBornAt[g] = 0
                                     THEN dataVersion + 1 ELSE goroutineBornAt[g]
            /\ goroutineChangedAt'[g] = dataVersion + 1
        BY <2>1, <2>3, <3>2 DEF EngineInv, TypeOK
      <4>2. dataVersion' = dataVersion + 1
        BY <2>3
      <4>3. goroutineBornAt'[g] > 0
        BY ONLY <3>0, <4>1
      <4>4. /\ goroutineBornAt'[g] <= goroutineChangedAt'[g]
            /\ goroutineChangedAt'[g] <= dataVersion'
            /\ goroutineBornAt'[g] = 0 <=> goroutineChangedAt'[g] = 0
        BY ONLY <3>0, <4>1, <4>2
      <4>. QED
        BY ONLY <4>3, <4>4, Zenon
    <3>3. CASE g # e.gid
      <4>1. /\ goroutineBornAt'[g] = goroutineBornAt[g]
            /\ goroutineChangedAt'[g] = goroutineChangedAt[g]
            /\ goroutines'[g] = goroutines[g]
        BY <2>3, <3>3 DEF EngineInv, TypeOK
      <4>2. dataVersion' = dataVersion + 1
        BY <2>3
      <4>3. /\ goroutineBornAt'[g] <= goroutineChangedAt'[g]
            /\ goroutineChangedAt'[g] <= dataVersion'
            /\ goroutineBornAt'[g] = 0 <=> goroutineChangedAt'[g] = 0
        BY ONLY <3>0, <4>1, <4>2
      <4>4. goroutines'[g].state # "" => goroutineBornAt'[g] > 0
        BY ONLY <3>1, <4>1, Zenon
      <4>. QED
        BY ONLY <4>3, <4>4, Zenon
    <3>. QED
      BY <3>2, <3>3
  <2>. QED
    BY <2>3, <2>4, <2>5, <2>6
<1>. QED
  BY <1>2, <1>3

\* What a step that touches no segment, mark or state must keep of a goroutine.
SameState(gs, hs) ==
  \A g \in Goroutine :
    /\ hs[g].state = gs[g].state
    /\ hs[g].reason = gs[g].reason
    /\ hs[g].resource = gs[g].resource

LEMMA StackSame ==
  ASSUME TypeOK, UnseenBlank, NEW s \in StackSnapshot, applyStackSnapshotLocked(s)
  PROVE  /\ SameState(goroutines, goroutines')
         /\ UnseenBlank'
         /\ dataVersion' >= dataVersion
<1>1. dataVersion \in Nat /\ (dataVersion' = dataVersion \/ dataVersion' = dataVersion + 1)
  BY DEF TypeOK, applyStackSnapshotLocked
<1>2. ASSUME NEW g \in Goroutine
      PROVE  \/ goroutines'[g] = goroutines[g]
             \/ goroutines'[g] = WithStack(goroutines[g], s)
  BY DEF applyStackSnapshotLocked, TypeOK
<1>3. ASSUME NEW g \in Goroutine
      PROVE  /\ WithStack(goroutines[g], s).state = goroutines[g].state
             /\ WithStack(goroutines[g], s).reason = goroutines[g].reason
             /\ WithStack(goroutines[g], s).resource = goroutines[g].resource
             /\ WithStack(goroutines[g], s).known = TRUE
  <2>1. goroutines[g] \in GoroutineRecord
    BY DEF TypeOK
  <2>. QED
    BY <2>1, WithStackType
<1>4. SameState(goroutines, goroutines')
  BY <1>2, <1>3 DEF SameState
<1>5. UnseenBlank'
  BY <1>2, <1>3 DEF UnseenBlank
<1>. QED
  BY <1>1, <1>4, <1>5

LEMMA MergeParentsSame ==
  ASSUME NEW gs \in [Goroutine -> GoroutineRecord],
         NEW ids \in [Goroutine -> Goroutine \cup {NoID}], NEW g \in Goroutine
  PROVE  /\ MergeParents(gs, ids)[g].state = gs[g].state
         /\ MergeParents(gs, ids)[g].reason = gs[g].reason
         /\ MergeParents(gs, ids)[g].resource = gs[g].resource
         /\ MergeParents(gs, ids)[g].known = gs[g].known
         /\ MergeParents(gs, ids)[g].lastSeenAt = gs[g].lastSeenAt
<1>1. gs[g] \in GoroutineRecord
  OBVIOUS
<1>. QED
  BY <1>1 DEF MergeParents, GoroutineRecord

LEMMA MergeLabelsSame ==
  ASSUME NEW gs \in [Goroutine -> GoroutineRecord],
         NEW overrides \in [Goroutine -> Label \cup {NoLabel}], NEW g \in Goroutine
  PROVE  /\ MergeLabels(gs, overrides)[g].state = gs[g].state
         /\ MergeLabels(gs, overrides)[g].reason = gs[g].reason
         /\ MergeLabels(gs, overrides)[g].resource = gs[g].resource
         /\ MergeLabels(gs, overrides)[g].known = gs[g].known
         /\ MergeLabels(gs, overrides)[g].lastSeenAt = gs[g].lastSeenAt
<1>1. gs[g] \in GoroutineRecord
  OBVIOUS
<1>. QED
  BY <1>1 DEF MergeLabels, GoroutineRecord

\* A step that keeps segments, marks and states keeps the invariants on them.
LEMMA SameStateInv ==
  ASSUME TypeOK, ActiveSegmentMatches, RevisionsOrdered, dataVersion' >= dataVersion,
         dataVersion' \in Nat, SameState(goroutines, goroutines'),
         UNCHANGED <<activeSegments, goroutineBornAt, goroutineChangedAt>>
  PROVE  ActiveSegmentMatches' /\ RevisionsOrdered'
<1>1. ActiveSegmentMatches'
  BY DEF ActiveSegmentMatches, SameState, segmentMatchesGoroutine
<1>2. RevisionsOrdered'
  <2>. SUFFICES ASSUME NEW g \in Goroutine
                PROVE  /\ goroutineBornAt[g] <= goroutineChangedAt[g]
                       /\ goroutineChangedAt[g] <= dataVersion'
                       /\ goroutineBornAt[g] = 0 <=> goroutineChangedAt[g] = 0
                       /\ goroutines'[g].state # "" => goroutineBornAt[g] > 0
    BY DEF RevisionsOrdered
  <2>1. /\ goroutineBornAt[g] \in Nat /\ goroutineChangedAt[g] \in Nat
        /\ dataVersion \in Nat /\ dataVersion' \in Nat /\ dataVersion' >= dataVersion
    BY DEF TypeOK
  <2>2. /\ goroutineBornAt[g] <= goroutineChangedAt[g]
        /\ goroutineChangedAt[g] <= dataVersion
        /\ goroutineBornAt[g] = 0 <=> goroutineChangedAt[g] = 0
    BY DEF RevisionsOrdered
  <2>3. goroutines'[g].state # "" => goroutineBornAt[g] > 0
    BY DEF RevisionsOrdered, SameState
  <2>4. goroutineChangedAt[g] <= dataVersion'
    BY ONLY <2>1, <2>2
  <2>. QED
    BY ONLY <2>2, <2>3, <2>4, Zenon
<1>. QED
  BY <1>1, <1>2

\* The contention answer depends on the segments and on how far the open ones
\* reach; a goroutine without an open segment does not count.
LEMMA ContentionSame ==
  ASSUME UNCHANGED <<activeSegments, closedSegments>>,
         \A g \in Goroutine : \/ activeSegments[g] = NoSegment
                              \/ goroutines'[g].lastSeenAt = goroutines[g].lastSeenAt
  PROVE  ContentionInput' = ContentionInput
<1>1. ASSUME NEW g \in Goroutine
      PROVE  buildTimelineSegment(g, activeSegments[g], goroutines'[g].lastSeenAt)
               = buildTimelineSegment(g, activeSegments[g], goroutines[g].lastSeenAt)
  <2>1. ASSUME activeSegments[g] = NoSegment, NEW end
        PROVE  buildTimelineSegment(g, activeSegments[g], end) = <<>>
    <3>1. NoSegment.start = 0
      BY Zenon DEF NoSegment
    <3>2. activeSegments[g].start = 0
      BY ONLY <2>1, <3>1, Zenon
    <3>. QED
      BY ONLY <3>2, SMT DEF buildTimelineSegment
  <2>. QED
    BY <2>1
<1>2. Timeline' = Timeline
  BY <1>1 DEF Timeline
<1>. QED
  BY <1>2 DEF ContentionInput

LEMMA InitInv == Init => EngineInv
<1>. SUFFICES ASSUME Init PROVE EngineInv
  OBVIOUS
<1>1. TypeOK
  BY InitType
<1>2. LoadingStamped
  BY DEF Init, Unlocked, LoadingStamped
<1>3. LoadingDirty /\ ContentionCacheFresh
  BY DEF Init, LoadingDirty, ContentionCacheFresh
<1>4. \A g \in Goroutine : /\ goroutines[g].state = ""
                           /\ activeSegments[g] = NoSegment
                           /\ goroutineBornAt[g] = 0 /\ goroutineChangedAt[g] = 0
  BY DEF Init, ZeroGoroutine
<1>5. UnseenBlank /\ ActiveSegmentMatches
  BY <1>4 DEF UnseenBlank, ActiveSegmentMatches, shouldTrackState
<1>6. RevisionsOrdered
  <2>1. \A g \in Goroutine : ~ (goroutines[g].state # "")
    BY <1>4, Zenon
  <2>2. \A g \in Goroutine : goroutineBornAt[g] = 0 /\ goroutineChangedAt[g] = 0
    BY <1>4, Zenon
  <2>3. \A g \in Goroutine : /\ goroutineBornAt[g] <= goroutineChangedAt[g]
                             /\ goroutineChangedAt[g] <= dataVersion
                             /\ goroutineBornAt[g] = 0 <=> goroutineChangedAt[g] = 0
    <3>1. dataVersion \in Nat
      BY <1>1 DEF TypeOK
    <3>2. ASSUME NEW g \in Goroutine, goroutineBornAt[g] = 0,
                 goroutineChangedAt[g] = 0
          PROVE  /\ goroutineBornAt[g] <= goroutineChangedAt[g]
                 /\ goroutineChangedAt[g] <= dataVersion
                 /\ goroutineBornAt[g] = 0 <=> goroutineChangedAt[g] = 0
      BY ONLY <3>1, <3>2, SMT
    <3>. QED
      BY ONLY <2>2, <3>2, Zenon
  <2>. QED
    BY ONLY <2>1, <2>3, Zenon DEF RevisionsOrdered
<1>. QED
  BY <1>1, <1>2, <1>3, <1>5, <1>6 DEF EngineInv

\* Starting over: nothing is tracked, nothing is marked.
LEMMA ResetInv ==
  ASSUME TypeOK, NEW s \in Session, resetLocked(s)
  PROVE  /\ UnseenBlank' /\ ActiveSegmentMatches' /\ RevisionsOrdered'
         /\ contentionDirty' = TRUE
<1>1. \A g \in Goroutine : /\ goroutines'[g].state = ""
                           /\ activeSegments'[g] = NoSegment
                           /\ goroutineBornAt'[g] = 0 /\ goroutineChangedAt'[g] = 0
  BY DEF resetLocked, ZeroGoroutine
<1>2. UnseenBlank' /\ ActiveSegmentMatches'
  BY <1>1 DEF UnseenBlank, ActiveSegmentMatches, shouldTrackState
<1>3. RevisionsOrdered'
  <2>1. \A g \in Goroutine : ~ (goroutines'[g].state # "")
    BY <1>1, Zenon
  <2>2. dataVersion' \in Nat
    BY DEF resetLocked, TypeOK
  <2>3. \A g \in Goroutine : goroutineBornAt'[g] = 0 /\ goroutineChangedAt'[g] = 0
    BY <1>1, Zenon
  <2>4. \A g \in Goroutine :
          /\ goroutineBornAt'[g] <= goroutineChangedAt'[g]
          /\ goroutineChangedAt'[g] <= dataVersion'
          /\ goroutineBornAt'[g] = 0 <=> goroutineChangedAt'[g] = 0
    BY ONLY <2>2, <2>3
  <2>. QED
    BY ONLY <2>1, <2>4, Zenon DEF RevisionsOrdered
<1>4. contentionDirty' = TRUE
  BY DEF resetLocked, invalidateCaches
<1>. QED
  BY <1>2, <1>3, <1>4

\* A step that leaves goroutines, segments, marks, cache and load alone.
LEMMA QuietInv ==
  ASSUME EngineInv, TypeOK', dataVersion' >= dataVersion,
         UNCHANGED <<timelineVars, goroutineBornAt, goroutineChangedAt,
                     contentionDirty, contentionCache, loading>>
  PROVE  EngineInv'
<1>. USE DEF timelineVars
<1>1. SameState(goroutines, goroutines')
  BY DEF SameState
<1>2. ActiveSegmentMatches' /\ RevisionsOrdered'
  <2>1. dataVersion' \in Nat
    BY DEF TypeOK
  <2>. QED
    BY <1>1, <2>1, SameStateInv DEF EngineInv
<1>3. LoadingStamped' /\ LoadingDirty' /\ UnseenBlank'
  BY DEF EngineInv, LoadingStamped, LoadingDirty, UnseenBlank, MuFree
<1>4. ContentionInput' = ContentionInput
  BY ContentionSame
<1>5. ContentionCacheFresh'
  BY <1>4 DEF EngineInv, ContentionCacheFresh, MuFree
<1>. QED
  BY <1>2, <1>3, <1>5 DEF EngineInv

\* A merge of parents or labels, outside a load.
LEMMA MergeInv ==
  ASSUME EngineInv, TypeOK', dataVersion' >= dataVersion,
         UNCHANGED <<activeSegments, closedSegments, goroutineBornAt,
                     goroutineChangedAt, contentionDirty, contentionCache, loading>>,
         \A g \in Goroutine :
           /\ goroutines'[g].state = goroutines[g].state
           /\ goroutines'[g].reason = goroutines[g].reason
           /\ goroutines'[g].resource = goroutines[g].resource
           /\ goroutines'[g].known = goroutines[g].known
           /\ goroutines'[g].lastSeenAt = goroutines[g].lastSeenAt
  PROVE  EngineInv'
<1>1. SameState(goroutines, goroutines')
  BY DEF SameState
<1>2. ActiveSegmentMatches' /\ RevisionsOrdered'
  <2>1. dataVersion' \in Nat
    BY DEF TypeOK
  <2>. QED
    BY <1>1, <2>1, SameStateInv DEF EngineInv
<1>3. LoadingStamped' /\ LoadingDirty' /\ UnseenBlank'
  BY DEF EngineInv, LoadingStamped, LoadingDirty, UnseenBlank, MuFree
<1>4. ContentionInput' = ContentionInput
  BY ContentionSame
<1>5. ContentionCacheFresh'
  BY <1>4 DEF EngineInv, ContentionCacheFresh, MuFree
<1>. QED
  BY <1>2, <1>3, <1>5 DEF EngineInv

LEMMA NextInv == EngineInv /\ [Next]_vars => EngineInv'
<1>. SUFFICES ASSUME EngineInv, [Next]_vars PROVE EngineInv'
  OBVIOUS
<1>. USE DEF timelineVars, stackVars, revisionVars, cacheVars, notifyVars
<1>0. TypeOK /\ TypeOK' /\ dataVersion \in Nat /\ dataVersion' \in Nat
  <2>1. TypeOK /\ TypeOK'
    BY NextType DEF EngineInv
  <2>. QED
    BY <2>1 DEF TypeOK
<1>1. ASSUME NEW e \in Events, ApplyEvent(e) PROVE EngineInv'
  <2>1. e \in Event /\ Stamped(e) /\ applyEventLocked(e)
    BY <1>1, EngineAssumption DEF ApplyEvent
  <2>2. /\ UnseenBlank' /\ ActiveSegmentMatches' /\ RevisionsOrdered'
        /\ contentionDirty' = TRUE \/ UNCHANGED <<timelineVars, contentionDirty>>
    BY <2>1, ApplyEventInv
  <2>3. LoadingStamped' /\ LoadingDirty'
    BY <1>1 DEF ApplyEvent, EngineInv, LoadingStamped, LoadingDirty, MuFree
  <2>4. ContentionCacheFresh'
    <3>1. CASE contentionDirty' = TRUE
      BY <3>1 DEF ContentionCacheFresh
    <3>2. CASE UNCHANGED <<timelineVars, contentionDirty>>
      <4>1. ContentionInput' = ContentionInput
        BY <3>2, ContentionSame
      <4>. QED
        BY <1>1, <3>2, <4>1 DEF ApplyEvent, EngineInv, ContentionCacheFresh, MuFree
    <3>. QED
      BY <2>2, <3>1, <3>2
  <2>. QED
    BY <1>0, <2>2, <2>3, <2>4 DEF EngineInv
<1>2. ASSUME NEW s \in Snapshots, WithItsEvent(s), ApplyStackSnapshot(s)
      PROVE EngineInv'
  <2>1. s \in StackSnapshot /\ applyStackSnapshotLocked(s)
    BY <1>2, EngineAssumption DEF ApplyStackSnapshot
  <2>2. /\ SameState(goroutines, goroutines')
        /\ UnseenBlank'
        /\ dataVersion' >= dataVersion
    BY <2>1, StackSame DEF EngineInv
  <2>3. UNCHANGED <<activeSegments, closedSegments, goroutineBornAt,
                    goroutineChangedAt, contentionDirty, contentionCache, loading>>
    BY <1>2 DEF ApplyStackSnapshot
  <2>4. ActiveSegmentMatches' /\ RevisionsOrdered'
    BY <1>0, <2>2, <2>3, SameStateInv DEF EngineInv
  <2>5. LoadingStamped' /\ LoadingDirty'
    BY <2>3 DEF EngineInv, LoadingStamped, LoadingDirty, MuFree
  <2>6. ASSUME NEW g \in Goroutine
        PROVE  \/ activeSegments[g] = NoSegment
               \/ goroutines'[g].lastSeenAt = goroutines[g].lastSeenAt
    <3>1. CASE goroutines'[g] = goroutines[g]
      BY <3>1
    <3>2. CASE goroutines'[g] # goroutines[g] /\ goroutines[g].known
      <4>1. s.gid = g /\ goroutines'[g] = WithStack(goroutines[g], s) /\ s.gid # NoID
        BY <1>0, <2>1, <3>2 DEF applyStackSnapshotLocked, TypeOK
      <4>2. s.ts <= goroutines[g].lastSeenAt
        BY <1>2, <3>2, <4>1 DEF ApplyStackSnapshot, WithItsEvent
      <4>3. /\ goroutines[g] \in GoroutineRecord
            /\ goroutines[g].lastSeenAt \in Nat /\ s.ts \in Nat
        BY <1>0, <2>1 DEF TypeOK, GoroutineRecord, StackSnapshot
      <4>4. ~ (s.ts > goroutines[g].lastSeenAt)
        BY ONLY <4>2, <4>3, SMT
      <4>. QED
        BY <2>1, <3>2, <4>1, <4>3, <4>4, WithStackSeen
    <3>3. CASE ~ goroutines[g].known
      <4>1. goroutines[g].state = ""
        BY <3>3 DEF EngineInv, UnseenBlank
      <4>2. activeSegments[g] = NoSegment
        BY <4>1 DEF EngineInv, ActiveSegmentMatches, shouldTrackState
      <4>. QED
        BY <4>2
    <3>. QED
      BY <3>1, <3>2, <3>3
  <2>7. ContentionInput' = ContentionInput
    BY <2>3, <2>6, ContentionSame
  <2>8. ContentionCacheFresh'
    BY <2>3, <2>7 DEF EngineInv, ContentionCacheFresh, MuFree
  <2>. QED
    BY <1>0, <2>2, <2>4, <2>5, <2>8 DEF EngineInv
<1>3. ASSUME NEW s \in Session, Reset(s) PROVE EngineInv'
  <2>1. /\ UnseenBlank' /\ ActiveSegmentMatches' /\ RevisionsOrdered'
        /\ contentionDirty' = TRUE
    BY <1>0, <1>3, ResetInv DEF Reset
  <2>2. LoadingStamped'
    BY <1>3 DEF Reset, EngineInv, LoadingStamped
  <2>. QED
    BY <1>0, <2>1, <2>2 DEF EngineInv, LoadingDirty, ContentionCacheFresh
<1>4. ASSUME NEW s \in Session, NEW c \in Captures, LoadBegin(s, c) PROVE EngineInv'
  <2>1. /\ UnseenBlank' /\ ActiveSegmentMatches' /\ RevisionsOrdered'
        /\ contentionDirty' = TRUE
    BY <1>0, <1>4, ResetInv DEF LoadBegin
  <2>2. LoadingStamped'
    BY <1>4, CaptureType DEF LoadBegin, LoadingStamped
  <2>. QED
    BY <1>0, <2>1, <2>2 DEF EngineInv, LoadingDirty, ContentionCacheFresh
<1>5. ASSUME LoadEvent PROVE EngineInv'
  <2>1. loading.events \in Seq(Event) /\ loading.events # <<>>
    BY <1>0, <1>5 DEF LoadEvent, TypeOK
  <2>2. Head(loading.events) \in Event /\ Stamped(Head(loading.events))
    <3>1. Head(loading.events) = loading.events[1] /\ 1 \in 1..Len(loading.events)
      BY <2>1
    <3>. QED
      BY <2>1, <3>1 DEF EngineInv, LoadingStamped
  <2>3. /\ UnseenBlank' /\ ActiveSegmentMatches' /\ RevisionsOrdered'
        /\ contentionDirty' = TRUE \/ UNCHANGED <<timelineVars, contentionDirty>>
    BY <1>5, <2>2, ApplyEventInv DEF LoadEvent
  <2>4. contentionDirty' /\ ~ MuFree'
    <3>1. loading'.capture = loading.capture
      BY <1>0, <1>5 DEF LoadEvent, TypeOK
    <3>2. ~ MuFree /\ contentionDirty
      BY <1>5 DEF LoadEvent, EngineInv, LoadingDirty
    <3>. QED
      BY <2>3, <3>1, <3>2 DEF MuFree
  <2>5. LoadingStamped'
    <3>1. loading'.events = Tail(loading.events)
      BY <1>0, <1>5 DEF LoadEvent, TypeOK
    <3>2. \A i \in 1..Len(Tail(loading.events)) :
            /\ i + 1 \in 1..Len(loading.events)
            /\ Tail(loading.events)[i] = loading.events[i + 1]
      BY <2>1
    <3>. QED
      BY <3>1, <3>2 DEF EngineInv, LoadingStamped
  <2>. QED
    BY <1>0, <2>3, <2>4, <2>5 DEF EngineInv, LoadingDirty, ContentionCacheFresh
<1>6. ASSUME LoadStack PROVE EngineInv'
  <2>1. Head(loading.stacks) \in StackSnapshot
    BY <1>0, <1>6 DEF LoadStack, TypeOK
  <2>2. /\ SameState(goroutines, goroutines')
        /\ UnseenBlank'
        /\ dataVersion' >= dataVersion
    BY <1>6, <2>1, StackSame DEF EngineInv, LoadStack
  <2>3. ActiveSegmentMatches' /\ RevisionsOrdered'
    BY <1>0, <1>6, <2>2, SameStateInv DEF EngineInv, LoadStack
  <2>4. contentionDirty'
    BY <1>6 DEF LoadStack, EngineInv, LoadingDirty
  <2>5. LoadingStamped'
    BY <1>0, <1>6 DEF LoadStack, EngineInv, LoadingStamped, TypeOK
  <2>. QED
    BY <1>0, <2>2, <2>3, <2>4, <2>5 DEF EngineInv, LoadingDirty, ContentionCacheFresh
<1>7. ASSUME LoadEnd PROVE EngineInv'
  <2>. DEFINE capture == loading.capture
              merged == MergeParents(goroutines, capture.parents)
  <2>1. /\ capture.parents \in [Goroutine -> Goroutine \cup {NoID}]
        /\ capture.labels \in [Goroutine -> Label \cup {NoLabel}]
    <3>1. capture \in Captures
      BY <1>0, <1>7 DEF TypeOK, LoadEnd, MuFree
    <3>. QED
      BY <3>1, CaptureType
  <2>2. /\ goroutines \in [Goroutine -> GoroutineRecord]
        /\ goroutines' = MergeLabels(merged, capture.labels)
    BY <1>0, <1>7 DEF LoadEnd, TypeOK
  <2>3. merged \in [Goroutine -> GoroutineRecord]
    BY <2>1, <2>2, MergeParentsType
  <2>. HIDE DEF merged, capture
  <2>4. ASSUME NEW g \in Goroutine
        PROVE  /\ goroutines'[g].state = merged[g].state
               /\ goroutines'[g].reason = merged[g].reason
               /\ goroutines'[g].resource = merged[g].resource
               /\ goroutines'[g].known = merged[g].known
    BY ONLY <2>1, <2>2, <2>3, <2>4, MergeLabelsSame, Zenon
  <2>5. ASSUME NEW g \in Goroutine
        PROVE  /\ goroutines[g].state = merged[g].state
               /\ goroutines[g].reason = merged[g].reason
               /\ goroutines[g].resource = merged[g].resource
               /\ goroutines[g].known = merged[g].known
    BY ONLY <2>1, <2>2, <2>5, MergeParentsSame, Zenon DEF merged
  <2>6. SameState(goroutines, goroutines') /\ UnseenBlank'
    BY <2>4, <2>5 DEF EngineInv, SameState, UnseenBlank
  <2>7. ActiveSegmentMatches' /\ RevisionsOrdered'
    BY <1>0, <1>7, <2>6, SameStateInv DEF EngineInv, LoadEnd
  <2>8. contentionDirty'
    BY <1>7 DEF LoadEnd, EngineInv, LoadingDirty
  <2>9. LoadingStamped'
    BY <1>7 DEF LoadEnd, Unlocked, LoadingStamped
  <2>. QED
    BY <1>0, <2>6, <2>7, <2>8, <2>9 DEF EngineInv, LoadingDirty, ContentionCacheFresh
<1>8. ASSUME LoadNotify \/ Flush PROVE EngineInv'
  BY <1>0, <1>8, QuietInv DEF LoadNotify, Flush
<1>9. ASSUME AddProcessorSegments(1) PROVE EngineInv'
  BY <1>0, <1>9, QuietInv DEF AddProcessorSegments
<1>10. ASSUME NEW ids \in ParentMaps, SetParentIDs(ids) PROVE EngineInv'
  <2>1. /\ ids \in [Goroutine -> Goroutine \cup {NoID}]
        /\ goroutines \in [Goroutine -> GoroutineRecord]
        /\ goroutines' = MergeParents(goroutines, ids)
        /\ dataVersion' = dataVersion + 1
    BY <1>0, <1>10, EngineAssumption DEF TypeOK, SetParentIDs
  <2>2. dataVersion' >= dataVersion
    BY <1>0, <2>1
  <2>. QED
    BY <1>0, <1>10, <2>1, <2>2, MergeInv, MergeParentsSame DEF SetParentIDs
<1>11. ASSUME NEW overrides \in LabelMaps, SetLabelOverrides(overrides)
       PROVE  EngineInv'
  <2>1. /\ overrides \in [Goroutine -> Label \cup {NoLabel}]
        /\ goroutines \in [Goroutine -> GoroutineRecord]
        /\ goroutines' = MergeLabels(goroutines, overrides)
        /\ dataVersion' = dataVersion + 1
    BY <1>0, <1>11, EngineAssumption DEF TypeOK, SetLabelOverrides
  <2>2. dataVersion' >= dataVersion
    BY <1>0, <2>1
  <2>. QED
    BY <1>0, <1>11, <2>1, <2>2, MergeInv, MergeLabelsSame DEF SetLabelOverrides
<1>12. ASSUME NEW graph \in EdgeSets, SetResourceGraph(graph) PROVE EngineInv'
  <2>1. SameState(goroutines, goroutines')
    BY <1>12 DEF SetResourceGraph, SameState
  <2>2. ActiveSegmentMatches' /\ RevisionsOrdered'
    BY <1>0, <1>12, <2>1, SameStateInv DEF EngineInv, SetResourceGraph
  <2>3. LoadingStamped' /\ LoadingDirty' /\ UnseenBlank' /\ ContentionCacheFresh'
    BY <1>12 DEF SetResourceGraph, EngineInv, LoadingStamped, LoadingDirty,
                 UnseenBlank, ContentionCacheFresh
  <2>. QED
    BY <1>0, <2>2, <2>3 DEF EngineInv
<1>13. ASSUME ResourceContention PROVE EngineInv'
  <2>1. SameState(goroutines, goroutines')
    BY <1>13 DEF ResourceContention, SameState
  <2>2. ActiveSegmentMatches' /\ RevisionsOrdered'
    BY <1>0, <1>13, <2>1, SameStateInv DEF EngineInv, ResourceContention
  <2>3. ContentionInput' = ContentionInput
    BY <1>13, ContentionSame DEF ResourceContention
  <2>4. LoadingStamped' /\ LoadingDirty' /\ UnseenBlank' /\ ContentionCacheFresh'
    BY <1>13, <2>3 DEF ResourceContention, EngineInv, LoadingStamped, LoadingDirty,
                       UnseenBlank, ContentionCacheFresh, MuFree
  <2>. QED
    BY <1>0, <2>2, <2>4 DEF EngineInv
<1>14. ASSUME GroupByRequest PROVE EngineInv'
  BY <1>0, <1>14, QuietInv DEF GroupByRequest
<1>15. ASSUME NEW s \in Subscribers, Subscribe(s) \/ Unsubscribe(s) \/ TakeSignal(s)
       PROVE  EngineInv'
  BY <1>0, <1>15, QuietInv DEF Subscribe, Unsubscribe, TakeSignal
<1>16. CASE UNCHANGED vars
  BY <1>0, <1>16, QuietInv DEF vars
<1>. QED
  BY <1>1, <1>2, <1>3, <1>4, <1>5, <1>6, <1>7, <1>8, <1>9, <1>10, <1>11,
     <1>12, <1>13, <1>14, <1>15, <1>16 DEF Next

LEMMA Invariance == Spec => []EngineInv
BY InitInv, NextInv, PTL DEF Spec

-----------------------------------------------------------------------------
(* The theorems *)

\* The open segment of every goroutine shows the state it is in.
THEOREM SegmentsInStep == Spec => []ActiveSegmentMatches
<1>1. EngineInv => ActiveSegmentMatches
  BY DEF EngineInv
<1>. QED
  BY <1>1, Invariance, PTL

\* The two marks DeltaSince reads are ordered, and never ahead of the version.
THEOREM MarksOrdered == Spec => []RevisionsOrdered
<1>1. EngineInv => RevisionsOrdered
  BY DEF EngineInv
<1>. QED
  BY <1>1, Invariance, PTL

\* A clean contention cache is what recomputing it would give.
THEOREM ContentionFresh == Spec => []ContentionCacheFresh
<1>1. EngineInv => ContentionCacheFresh
  BY DEF EngineInv
<1>. QED
  BY <1>1, Invariance, PTL

LEMMA VersionStep ==
  ASSUME TypeOK, Next, MuFree, dataVersion' = dataVersion
  PROVE  UNCHANGED <<timelineVars, edges, processorSegments, stackVars>>
<1>. USE DEF timelineVars, stackVars, revisionVars, cacheVars, notifyVars
<1>1. dataVersion + 1 # dataVersion
  BY DEF TypeOK
<1>2. ASSUME NEW e \in Events, ApplyEvent(e)
      PROVE  UNCHANGED <<timelineVars, edges, processorSegments, stackVars>>
  BY <1>1, <1>2 DEF ApplyEvent, applyEventLocked, MarkTouched
<1>3. ASSUME NEW s \in Snapshots, ApplyStackSnapshot(s)
      PROVE  UNCHANGED <<timelineVars, edges, processorSegments, stackVars>>
  BY <1>1, <1>3 DEF ApplyStackSnapshot, applyStackSnapshotLocked
<1>4. ~ \E s \in Session : Reset(s)
  BY <1>1 DEF Reset, resetLocked
<1>5. ~ \E s \in Session, c \in Captures : LoadBegin(s, c)
  BY <1>1 DEF LoadBegin, resetLocked
<1>6. ~ (LoadEvent \/ LoadStack \/ LoadEnd)
  BY DEF LoadEvent, LoadStack, LoadEnd
<1>7. ~ \/ AddProcessorSegments(1)
        \/ \E ids \in ParentMaps : SetParentIDs(ids)
        \/ \E overrides \in LabelMaps : SetLabelOverrides(overrides)
        \/ \E graph \in EdgeSets : SetResourceGraph(graph)
  BY <1>1 DEF AddProcessorSegments, SetParentIDs, SetLabelOverrides, SetResourceGraph
<1>8. ASSUME \/ LoadNotify \/ Flush \/ ResourceContention \/ GroupByRequest
             \/ \E s \in Subscribers : Subscribe(s) \/ Unsubscribe(s) \/ TakeSignal(s)
      PROVE  UNCHANGED <<timelineVars, edges, processorSegments, stackVars>>
  BY <1>8 DEF LoadNotify, Flush, ResourceContention, GroupByRequest, Subscribe,
              Unsubscribe, TakeSignal
<1>. QED
  BY <1>2, <1>3, <1>4, <1>5, <1>6, <1>7, <1>8 DEF Next

\* What a reader is served never changes under an ETag he already holds.
THEOREM VersionCovers == Spec => VersionCoversState
<1>1. TypeOK /\ [Next]_vars
        => [MuFree /\ dataVersion' = dataVersion
              => UNCHANGED <<timelineVars, edges, processorSegments, stackVars>>]_vars
  BY VersionStep
<1>. QED
  BY <1>1, Typing, PTL DEF Spec, VersionCoversState

-----------------------------------------------------------------------------
(* The other cache.  Every method that moves a goroutine marks it, but for   *)
(* SetParentIDs: the cache is fresh unless a parent arrives after the groups *)
(* were asked for, which is what the run engine_groups shows.                *)

ParentsArriveDirty ==
  [][ (\E ids \in ParentMaps : SetParentIDs(ids))
        => groupsDirty \/ UNCHANGED goroutines ]_vars

LoadingGroupsDirty == ~ MuFree => groupsDirty

GroupsInv == TypeOK /\ LoadingGroupsDirty /\ GroupsCacheFresh

\* The groups are computed from the goroutines alone.
LEMMA GroupsSame ==
  ASSUME UNCHANGED goroutines
  PROVE  RequestGroups' = RequestGroups
<1>1. \A g \in Goroutine : Unlabelled(g)' = Unlabelled(g)
  BY DEF Unlabelled
<1>2. \A root \in Goroutine : Served(root)' = Served(root)
  BY DEF Served, Unlabelled
<1>3. \A g \in Goroutine : RequestsOf(g)' = RequestsOf(g)
  BY <1>1, <1>2 DEF RequestsOf
<1>. QED
  BY <1>3 DEF RequestGroups

LEMMA GroupsStep ==
  ASSUME GroupsInv, Next, TypeOK',
         (\E ids \in ParentMaps : SetParentIDs(ids))
           => groupsDirty \/ UNCHANGED goroutines
  PROVE  GroupsInv'
<1>. USE DEF timelineVars, stackVars, revisionVars, cacheVars, notifyVars
<1>. SUFFICES LoadingGroupsDirty' /\ GroupsCacheFresh'
  BY DEF GroupsInv
\* A step that marks the cache, or leaves it and the goroutines alone.
<1>1. ASSUME groupsDirty' = TRUE PROVE LoadingGroupsDirty' /\ GroupsCacheFresh'
  BY <1>1 DEF LoadingGroupsDirty, GroupsCacheFresh
<1>2. ASSUME UNCHANGED <<goroutines, groupsDirty, groupsCache>>, MuFree' = MuFree
      PROVE  LoadingGroupsDirty' /\ GroupsCacheFresh'
  <2>1. RequestGroups' = RequestGroups
    BY <1>2, GroupsSame
  <2>. QED
    BY <1>2, <2>1 DEF GroupsInv, LoadingGroupsDirty, GroupsCacheFresh
<1>3. ASSUME groupsDirty, UNCHANGED groupsDirty
      PROVE  LoadingGroupsDirty' /\ GroupsCacheFresh'
  BY <1>3 DEF LoadingGroupsDirty, GroupsCacheFresh
<1>4. ASSUME NEW e \in Events, ApplyEvent(e)
      PROVE  LoadingGroupsDirty' /\ GroupsCacheFresh'
  <2>1. \/ groupsDirty' = TRUE
        \/ UNCHANGED <<goroutines, groupsDirty>>
    BY <1>4 DEF ApplyEvent, applyEventLocked, invalidateCaches
  <2>2. UNCHANGED <<groupsCache, loading>>
    BY <1>4 DEF ApplyEvent
  <2>. QED
    BY <1>1, <1>2, <2>1, <2>2 DEF MuFree
<1>5. ASSUME NEW s \in Snapshots, ApplyStackSnapshot(s)
      PROVE  LoadingGroupsDirty' /\ GroupsCacheFresh'
  <2>1. \/ groupsDirty' = TRUE
        \/ UNCHANGED <<goroutines, groupsDirty>>
    BY <1>5 DEF ApplyStackSnapshot, applyStackSnapshotLocked
  <2>2. UNCHANGED <<groupsCache, loading>>
    BY <1>5 DEF ApplyStackSnapshot
  <2>. QED
    BY <1>1, <1>2, <2>1, <2>2 DEF MuFree
<1>6. ASSUME \/ \E s \in Session : Reset(s)
             \/ \E s \in Session, c \in Captures : LoadBegin(s, c)
      PROVE  LoadingGroupsDirty' /\ GroupsCacheFresh'
  BY <1>1, <1>6 DEF Reset, LoadBegin, resetLocked, invalidateCaches
<1>7. ASSUME LoadEvent \/ LoadStack \/ LoadEnd
      PROVE  LoadingGroupsDirty' /\ GroupsCacheFresh'
  <2>1. groupsDirty
    BY <1>7 DEF GroupsInv, LoadingGroupsDirty, LoadEvent, LoadStack, LoadEnd
  <2>2. groupsDirty' = TRUE \/ UNCHANGED groupsDirty
    BY <1>7 DEF LoadEvent, LoadStack, LoadEnd, applyEventLocked,
                applyStackSnapshotLocked, invalidateCaches
  <2>. QED
    BY <1>1, <1>3, <2>1, <2>2
<1>8. ASSUME NEW ids \in ParentMaps, SetParentIDs(ids)
      PROVE  LoadingGroupsDirty' /\ GroupsCacheFresh'
  <2>1. groupsDirty \/ UNCHANGED goroutines
    BY <1>8
  <2>2. UNCHANGED <<groupsDirty, groupsCache, loading>>
    BY <1>8 DEF SetParentIDs
  <2>. QED
    BY <1>2, <1>3, <2>1, <2>2 DEF MuFree
<1>9. ASSUME NEW overrides \in LabelMaps, SetLabelOverrides(overrides)
      PROVE  LoadingGroupsDirty' /\ GroupsCacheFresh'
  BY <1>1, <1>9 DEF SetLabelOverrides
<1>10. ASSUME GroupByRequest PROVE LoadingGroupsDirty' /\ GroupsCacheFresh'
  <2>1. RequestGroups' = RequestGroups
    BY <1>10, GroupsSame DEF GroupByRequest
  <2>. QED
    BY <1>10, <2>1 DEF GroupByRequest, LoadingGroupsDirty, GroupsCacheFresh, MuFree
<1>11. ASSUME \/ LoadNotify \/ Flush \/ AddProcessorSegments(1) \/ ResourceContention
              \/ \E graph \in EdgeSets : SetResourceGraph(graph)
              \/ \E s \in Subscribers : Subscribe(s) \/ Unsubscribe(s) \/ TakeSignal(s)
       PROVE  LoadingGroupsDirty' /\ GroupsCacheFresh'
  <2>1. UNCHANGED <<goroutines, groupsDirty, groupsCache, loading>>
    BY <1>11 DEF LoadNotify, Flush, AddProcessorSegments, ResourceContention,
                 SetResourceGraph, Subscribe, Unsubscribe, TakeSignal
  <2>. QED
    BY <1>2, <2>1 DEF MuFree
<1>. QED
  BY <1>4, <1>5, <1>6, <1>7, <1>8, <1>9, <1>10, <1>11 DEF Next

\* As long as no parent moves a goroutine behind a clean cache, the groups that
\* GroupByRequest answers are those it would compute.
THEOREM GroupsFresh == Spec /\ ParentsArriveDirty => []GroupsCacheFresh
<1>. DEFINE Arrives == (\E ids \in ParentMaps : SetParentIDs(ids))
                         => groupsDirty \/ UNCHANGED goroutines
<1>1. Init => GroupsInv
  BY InitType DEF GroupsInv, Init, LoadingGroupsDirty, GroupsCacheFresh
<1>2. GroupsInv /\ [Next]_vars /\ [Arrives]_vars => GroupsInv'
  <2>. SUFFICES ASSUME GroupsInv, [Next]_vars, [Arrives]_vars PROVE GroupsInv'
    OBVIOUS
  <2>1. TypeOK'
    BY NextType DEF GroupsInv
  <2>2. CASE UNCHANGED vars
    <3>1. RequestGroups' = RequestGroups
      BY <2>2, GroupsSame DEF vars, timelineVars
    <3>. QED
      BY <2>1, <2>2, <3>1 DEF vars, cacheVars, GroupsInv, LoadingGroupsDirty,
                              GroupsCacheFresh, MuFree
  <2>3. CASE ~ UNCHANGED vars
    BY <2>1, <2>3, GroupsStep
  <2>. QED
    BY <2>2, <2>3
<1>3. GroupsInv => GroupsCacheFresh
  BY DEF GroupsInv
<1>. QED
  BY <1>1, <1>2, <1>3, PTL DEF Spec, ParentsArriveDirty

-----------------------------------------------------------------------------
(* The counter of stacks.  During a load it is left for later: then the      *)
(* histories and what the load has still to append make up its capture.      *)

StackTotal == SumOver(LengthsOf(stacksByGID), Goroutine \cup {NoID})

CountInv ==
  /\ TypeOK
  /\ MuFree => stackCount = StackTotal
  /\ ~ MuFree =>
       StackTotal + Len(loading.stacks) = Len(loading.capture.stacks)

\* Replacing one history changes the total by the difference of their lengths.
LEMMA TotalChange ==
  ASSUME NEW S, IsFiniteSet(S), NEW h \in [S -> Seq(StackSnapshot)],
         NEW k \in [S -> Seq(StackSnapshot)], NEW g \in S,
         \A x \in S : x # g => k[x] = h[x]
  PROVE  /\ SumOver(LengthsOf(h), S) \in Int
         /\ SumOver(LengthsOf(k), S)
              = SumOver(LengthsOf(h), S) + (Len(k[g]) - Len(h[g]))
<1>1. ASSUME NEW m \in [S -> Seq(StackSnapshot)]
      PROVE  /\ LengthsOf(m) \in [S -> Int]
             /\ \A x \in S : LengthsOf(m)[x] = Len(m[x])
  <2>1. \A x \in S : Len(m[x]) \in Int
    <3>1. \A x \in S : m[x] \in Seq(StackSnapshot)
      OBVIOUS
    <3>. QED
      BY <3>1
  <2>. QED
    BY <2>1 DEF LengthsOf
<1>2. /\ LengthsOf(k) \in [S -> Int] /\ LengthsOf(h) \in [S -> Int]
      /\ \A x \in S : x # g => LengthsOf(k)[x] = LengthsOf(h)[x]
      /\ IsFiniteSet(S) /\ g \in S
  BY <1>1
<1>3. SumOver(LengthsOf(k), S)
        = SumOver(LengthsOf(h), S) + (LengthsOf(k)[g] - LengthsOf(h)[g])
  BY ONLY <1>2, SumChange, Zenon
<1>4. LengthsOf(k)[g] = Len(k[g]) /\ LengthsOf(h)[g] = Len(h[g])
  BY <1>1
<1>5. SumOver(LengthsOf(h), S) \in Int
  BY <1>1, SumType
<1>. QED
  BY <1>3, <1>4, <1>5

LEMMA HistoryChange ==
  ASSUME IsFiniteSet(Goroutine \cup {NoID}),
         stacksByGID \in [Goroutine \cup {NoID} -> Seq(StackSnapshot)],
         NEW g \in Goroutine \cup {NoID}, NEW q \in Seq(StackSnapshot),
         stacksByGID' = [stacksByGID EXCEPT ![g] = q]
  PROVE  /\ StackTotal \in Int
         /\ StackTotal' = StackTotal + (Len(q) - Len(stacksByGID[g]))
<1>1. /\ stacksByGID' \in [Goroutine \cup {NoID} -> Seq(StackSnapshot)]
      /\ stacksByGID'[g] = q
      /\ \A x \in Goroutine \cup {NoID} : x # g => stacksByGID'[x] = stacksByGID[x]
  OBVIOUS
<1>. DEFINE S == Goroutine \cup {NoID}
<1>2. /\ IsFiniteSet(S) /\ g \in S
      /\ stacksByGID \in [S -> Seq(StackSnapshot)]
      /\ stacksByGID' \in [S -> Seq(StackSnapshot)]
      /\ \A x \in S : x # g => stacksByGID'[x] = stacksByGID[x]
  BY <1>1
<1>3. /\ StackTotal = SumOver(LengthsOf(stacksByGID), S)
      /\ StackTotal' = SumOver(LengthsOf(stacksByGID'), S)
  BY DEF StackTotal
<1>. HIDE DEF S
<1>4. /\ SumOver(LengthsOf(stacksByGID), S) \in Int
      /\ SumOver(LengthsOf(stacksByGID'), S)
           = SumOver(LengthsOf(stacksByGID), S)
             + (Len(stacksByGID'[g]) - Len(stacksByGID[g]))
  BY ONLY <1>2, TotalChange, Zenon
<1>. QED
  BY <1>1, <1>3, <1>4

LEMMA TotalZero ==
  ASSUME IsFiniteSet(Goroutine)
  PROVE  SumOver(LengthsOf([g \in Goroutine \cup {NoID} |-> <<>>]),
                 Goroutine \cup {NoID}) = 0
<1>1. IsFiniteSet(Goroutine \cup {NoID})
  BY FS_AddElement
<1>2. \A g \in Goroutine \cup {NoID} :
        LengthsOf([h \in Goroutine \cup {NoID} |-> <<>>])[g] = 0
  BY DEF LengthsOf
<1>. QED
  BY <1>1, <1>2, SumZero

\* The counter is what MemoryStats would count.
LEMMA CountIsExact ==
  ASSUME IsFiniteSet(Goroutine), CountInv
  PROVE  StackCountExact
<1>1. IsFiniteSet(Goroutine \cup {NoID}) /\ DOMAIN stacksByGID = Goroutine \cup {NoID}
  BY FS_AddElement DEF CountInv, TypeOK
<1>2. MapThenSumSet(LAMBDA g : Len(stacksByGID[g]), DOMAIN stacksByGID) = StackTotal
  BY <1>1, SumOfLengths DEF StackTotal
<1>. QED
  BY <1>2 DEF CountInv, StackCountExact

\* A step that leaves histories, counter and load alone.
LEMMA CountQuiet ==
  ASSUME CountInv, TypeOK', UNCHANGED <<stackVars, loading>>
  PROVE  CountInv'
BY DEF stackVars, CountInv, StackTotal, MuFree

LEMMA CountStep ==
  ASSUME IsFiniteSet(Goroutine), CountInv, Next, TypeOK'
  PROVE  CountInv'
<1>. USE DEF timelineVars, revisionVars, cacheVars, notifyVars
<1>0. /\ TypeOK /\ IsFiniteSet(Goroutine \cup {NoID})
      /\ stacksByGID \in [Goroutine \cup {NoID} -> Seq(StackSnapshot)]
      /\ stackCount \in Int
  BY FS_AddElement DEF CountInv, TypeOK
<1>1. ASSUME NEW s \in Snapshots, ApplyStackSnapshot(s) PROVE CountInv'
  <2>1. CASE s.gid = NoID
    BY <1>1, <2>1, CountQuiet DEF ApplyStackSnapshot
  <2>2. CASE s.gid # NoID
    <3>. DEFINE old == stacksByGID[s.gid]
                snaps == Append(old, s)
    <3>1. /\ s \in StackSnapshot /\ s.gid \in Goroutine \cup {NoID}
          /\ old \in Seq(StackSnapshot)
      <4>1. s \in StackSnapshot
        BY EngineAssumption
      <4>2. s.gid \in Goroutine \cup {NoID}
        BY <4>1 DEF StackSnapshot
      <4>. QED
        BY <1>0, <4>1, <4>2
    <3>2. /\ snaps \in Seq(StackSnapshot) /\ Len(snaps) = Len(old) + 1
          /\ Len(old) \in Nat
      BY <3>1
    <3>3. /\ trimStacks(snaps) \in Seq(StackSnapshot)
          /\ Len(trimStacks(snaps)) \in Nat
      BY <3>2, TrimStacksType
    <3>4. /\ stacksByGID' = [stacksByGID EXCEPT ![s.gid] = trimStacks(snaps)]
          /\ stackCount' = stackCount + 1 - evicted(snaps)
          /\ UNCHANGED loading /\ MuFree
      BY <1>1, <2>2 DEF ApplyStackSnapshot
    <3>. HIDE DEF snaps, old
    <3>5. /\ StackTotal \in Int
          /\ StackTotal' = StackTotal + (Len(trimStacks(snaps)) - Len(old))
      BY ONLY <1>0, <3>1, <3>3, <3>4, HistoryChange, Zenon DEF old
    <3>6. stackCount = StackTotal
      BY <3>4 DEF CountInv
    <3>7. evicted(snaps) = Len(snaps) - Len(trimStacks(snaps))
      BY DEF evicted
    <3>8. stackCount' = StackTotal'
      BY ONLY <1>0, <3>2, <3>3, <3>4, <3>5, <3>6, <3>7, SMT
    <3>. QED
      BY <3>4, <3>8 DEF CountInv, MuFree
  <2>. QED
    BY <2>1, <2>2
<1>2. ASSUME NEW s \in Session, Reset(s) PROVE CountInv'
  <2>1. /\ stacksByGID' = [g \in Goroutine \cup {NoID} |-> <<>>]
        /\ stackCount' = 0 /\ UNCHANGED loading /\ MuFree
    BY <1>2 DEF Reset, resetLocked
  <2>2. StackTotal' = 0
    BY <2>1, TotalZero DEF StackTotal
  <2>. QED
    BY <2>1, <2>2 DEF CountInv, MuFree
<1>3. ASSUME NEW s \in Session, NEW c \in Captures, LoadBegin(s, c) PROVE CountInv'
  <2>1. /\ stacksByGID' = [g \in Goroutine \cup {NoID} |-> <<>>]
        /\ loading'.stacks = c.stacks /\ loading'.capture = c
    BY <1>3 DEF LoadBegin, resetLocked
  <2>2. StackTotal' = 0
    BY <2>1, TotalZero DEF StackTotal
  <2>3. c # NoCapture
    BY EngineAssumption
  <2>4. Len(c.stacks) \in Nat
    <3>1. c.stacks \in Seq(StackSnapshot)
      BY EngineAssumption DEF Capture
    <3>. QED
      BY <3>1
  <2>. QED
    BY <2>1, <2>2, <2>3, <2>4 DEF CountInv, MuFree
<1>4. ASSUME LoadEvent PROVE CountInv'
  <2>1. /\ UNCHANGED stackVars /\ ~ MuFree
        /\ loading'.stacks = loading.stacks /\ loading'.capture = loading.capture
    BY <1>0, <1>4 DEF LoadEvent, TypeOK
  <2>. QED
    BY <2>1 DEF CountInv, StackTotal, stackVars, MuFree
<1>5. ASSUME LoadStack PROVE CountInv'
  <2>. DEFINE s == Head(loading.stacks)
              old == stacksByGID[s.gid]
  <2>1. /\ loading.stacks \in Seq(StackSnapshot) /\ loading.stacks # <<>>
        /\ ~ MuFree
        /\ loading'.stacks = Tail(loading.stacks)
        /\ loading'.capture = loading.capture
        /\ stacksByGID' = [stacksByGID EXCEPT ![s.gid] = Append(@, s)]
    BY <1>0, <1>5 DEF LoadStack, TypeOK
  <2>2. s \in StackSnapshot /\ Len(Tail(loading.stacks)) = Len(loading.stacks) - 1
    BY <2>1
  <2>3. s.gid \in Goroutine \cup {NoID}
    BY <2>2 DEF StackSnapshot
  <2>4. old \in Seq(StackSnapshot)
    BY <1>0, <2>3
  <2>5. /\ Append(old, s) \in Seq(StackSnapshot)
        /\ Len(Append(old, s)) = Len(old) + 1
        /\ Len(old) \in Nat /\ Len(loading.stacks) \in Nat
    BY <2>1, <2>2, <2>4
  <2>6. stacksByGID' = [stacksByGID EXCEPT ![s.gid] = Append(old, s)]
    BY <2>1
  <2>. HIDE DEF s
  <2>7. /\ StackTotal \in Int
        /\ StackTotal' = StackTotal + (Len(Append(old, s)) - Len(old))
    BY ONLY <1>0, <2>3, <2>5, <2>6, HistoryChange, Zenon DEF old
  <2>8. StackTotal + Len(loading.stacks) = Len(loading.capture.stacks)
    BY <2>1 DEF CountInv
  <2>. HIDE DEF old
  <2>9. StackTotal' + Len(loading'.stacks) = Len(loading'.capture.stacks)
    <3>. DEFINE a == StackTotal
                b == StackTotal'
                m == Len(old)
                n == Len(loading.stacks)
                k == Len(loading.capture.stacks)
    <3>1. /\ a \in Int /\ m \in Nat /\ n \in Nat
          /\ b = a + ((m + 1) - m) /\ a + n = k
      BY ONLY <2>5, <2>7, <2>8, Zenon
    <3>. HIDE DEF a, b, m, n, k
    <3>2. b + (n - 1) = k
      BY ONLY <3>1, SMT
    <3>3. StackTotal' + (Len(loading.stacks) - 1) = Len(loading.capture.stacks)
      BY ONLY <3>2, Zenon DEF a, b, m, n, k
    <3>. QED
      BY ONLY <2>1, <2>2, <3>3, Zenon
  <2>. QED
    BY <2>1, <2>9 DEF CountInv, MuFree
<1>6. ASSUME LoadEnd PROVE CountInv'
  <2>1. /\ ~ MuFree /\ loading.stacks = <<>>
        /\ stackCount' = Len(loading.capture.stacks)
        /\ UNCHANGED stacksByGID /\ loading' = Unlocked
    BY <1>6 DEF LoadEnd
  <2>2. StackTotal + Len(loading.stacks) = Len(loading.capture.stacks)
    BY <2>1 DEF CountInv
  <2>3. StackTotal \in Int
    <3>1. LengthsOf(stacksByGID) \in [Goroutine \cup {NoID} -> Int]
      <4>1. \A g \in Goroutine \cup {NoID} : stacksByGID[g] \in Seq(StackSnapshot)
        BY <1>0
      <4>2. \A g \in Goroutine \cup {NoID} : Len(stacksByGID[g]) \in Int
        BY <4>1
      <4>. QED
        BY <1>0, <4>2 DEF LengthsOf
    <3>. QED
      BY <1>0, <3>1, SumType DEF StackTotal
  <2>4. Len(<<>>) = 0
    OBVIOUS
  <2>5. stackCount' = StackTotal
    BY ONLY <2>1, <2>2, <2>3, <2>4, SMT
  <2>6. StackTotal' = StackTotal
    BY <2>1 DEF StackTotal
  <2>. QED
    BY <2>1, <2>5, <2>6 DEF CountInv, Unlocked, MuFree
<1>7. ASSUME \/ \E e \in Events : ApplyEvent(e)
             \/ LoadNotify \/ Flush \/ AddProcessorSegments(1) \/ ResourceContention
             \/ GroupByRequest
             \/ \E ids \in ParentMaps : SetParentIDs(ids)
             \/ \E overrides \in LabelMaps : SetLabelOverrides(overrides)
             \/ \E graph \in EdgeSets : SetResourceGraph(graph)
             \/ \E s \in Subscribers : Subscribe(s) \/ Unsubscribe(s) \/ TakeSignal(s)
      PROVE  CountInv'
  <2>1. UNCHANGED <<stackVars, loading>>
    BY <1>7 DEF ApplyEvent, LoadNotify, Flush, AddProcessorSegments,
                ResourceContention, GroupByRequest, SetParentIDs, SetLabelOverrides,
                SetResourceGraph, Subscribe, Unsubscribe, TakeSignal
  <2>. QED
    BY <2>1, CountQuiet
<1>. QED
  BY <1>1, <1>2, <1>3, <1>4, <1>5, <1>6, <1>7 DEF Next

\* Trimming and loading keep the counter of MemoryStats equal to the histories it
\* counts.  Goroutine IDs are 64-bit numbers, so there are finitely many.
THEOREM StackCountKept == IsFiniteSet(Goroutine) => (Spec => []StackCountExact)
<1>. SUFFICES ASSUME IsFiniteSet(Goroutine) PROVE Spec => []StackCountExact
  OBVIOUS
<1>1. Init => CountInv
  <2>. SUFFICES ASSUME Init PROVE CountInv
    OBVIOUS
  <2>1. TypeOK /\ MuFree /\ stackCount = 0
    BY InitType DEF Init, Unlocked, MuFree
  <2>2. StackTotal = 0
    BY TotalZero DEF Init, StackTotal
  <2>. QED
    BY <2>1, <2>2 DEF CountInv
<1>2. CountInv /\ [Next]_vars => CountInv'
  <2>. SUFFICES ASSUME CountInv, [Next]_vars PROVE CountInv'
    OBVIOUS
  <2>1. TypeOK'
    BY NextType DEF CountInv
  <2>2. CASE Next
    BY <2>1, <2>2, CountStep
  <2>3. CASE UNCHANGED vars
    BY <2>1, <2>3, CountQuiet DEF vars
  <2>. QED
    BY <2>2, <2>3
<1>3. CountInv => StackCountExact
  BY CountIsExact
<1>. QED
  BY <1>1, <1>2, <1>3, PTL DEF Spec

-----------------------------------------------------------------------------
(* Times.  What follows rests on times that do not run backwards.  The        *)
(* streaming writer's do not (InOrder, WithItsEvent); of the captures it is   *)
(* the hypothesis CapturesInOrder, which holds of what the bridge and the     *)
(* pollers build, and not of every file an upload may contain.                *)

-----------------------------------------------------------------------------
(* The inductive invariant: nothing on a goroutine's timeline is later than  *)
(* its last event, and what a load still has to apply is no earlier.         *)

SegmentTimes ==
  /\ \A g \in Goroutine :
       activeSegments[g] # NoSegment =>
         /\ activeSegments[g].start # 0
         /\ activeSegments[g].start <= goroutines[g].lastSeenAt
  /\ \A i \in 1..Len(closedSegments) :
       closedSegments[i].end <= goroutines[closedSegments[i].gid].lastSeenAt

\* An event still to be applied.
Pending(g, events) == {i \in 1..Len(events) : events[i].gid = g}

EventsAhead(gs, events) ==
  /\ \A i, j \in 1..Len(events) :
       i < j /\ events[i].gid = events[j].gid => events[i].ts <= events[j].ts
  /\ \A g \in Goroutine : \A i \in Pending(g, events) :
       gs[g].lastSeenAt <= events[i].ts

\* A stack is no later than an event that is still to come, or than the last one
\* applied, unless its goroutine has no events at all.
StackCovered(gs, events, stack) ==
  \/ stack.gid = NoID
  \/ \E i \in Pending(stack.gid, events) : stack.ts <= events[i].ts
  \/ stack.ts <= gs[stack.gid].lastSeenAt
  \/ Pending(stack.gid, events) = {} /\ gs[stack.gid].state = ""

StacksCovered(gs, events, stacks) ==
  \A k \in 1..Len(stacks) : StackCovered(gs, events, stacks[k])

LoadingInOrder ==
  ~ MuFree => /\ EventsAhead(goroutines, loading.events)
              /\ StacksCovered(goroutines, loading.events, loading.stacks)

TimelineInv ==
  /\ EngineInv
  /\ SegmentTimes
  /\ WaitAccounted
  /\ SegmentsDisjoint
  /\ LoadingInOrder

-----------------------------------------------------------------------------
(* One goroutine, one event *)

\* What an event with a time does to the wait of its goroutine.
LEMMA NextTimes ==
  ASSUME NEW r \in GoroutineRecord, NEW e \in Event, Stamped(e)
  PROVE  /\ NextGoroutine(r, e).lastSeenAt = e.ts
         /\ continuingWait(r, e)
              => /\ NextGoroutine(r, e).state = r.state
                 /\ NextGoroutine(r, e).reason = r.reason
                 /\ NextGoroutine(r, e).resource = r.resource
                 /\ NextGoroutine(r, e).waitNS
                      = r.waitNS + elapsedNS(r.lastSeenAt, e.ts)
         /\ ~ continuingWait(r, e)
              => /\ NextGoroutine(r, e).state = resolveNextState(r, e)
                 /\ NextGoroutine(r, e).waitNS = 0
                 /\ isWaitState(NextGoroutine(r, e).state)
                      => /\ NextGoroutine(r, e).reason = FirstOf(e.reason, "unknown")
                         /\ NextGoroutine(r, e).resource = e.resource
<1>1. Apply(r, e) \in GoroutineRecord
  BY ApplyType
<1>2. /\ NextGoroutine(r, e).lastSeenAt = Apply(r, e).lastSeenAt
      /\ NextGoroutine(r, e).state = Apply(r, e).state
      /\ NextGoroutine(r, e).reason = Apply(r, e).reason
      /\ NextGoroutine(r, e).resource = Apply(r, e).resource
      /\ NextGoroutine(r, e).waitNS = Apply(r, e).waitNS
  BY <1>1 DEF NextGoroutine, GoroutineRecord
<1>3. Apply(r, e).lastSeenAt = e.ts
  BY DEF Apply, Stamped, GoroutineRecord
<1>4. ASSUME continuingWait(r, e)
      PROVE  /\ Apply(r, e).state = r.state
             /\ Apply(r, e).reason = r.reason
             /\ Apply(r, e).resource = r.resource
             /\ Apply(r, e).waitNS = r.waitNS + elapsedNS(r.lastSeenAt, e.ts)
  BY <1>4 DEF Apply, GoroutineRecord
<1>5. ASSUME ~ continuingWait(r, e)
      PROVE  /\ Apply(r, e).state = resolveNextState(r, e)
             /\ Apply(r, e).waitNS = 0
             /\ isWaitState(Apply(r, e).state)
                  => /\ Apply(r, e).reason = FirstOf(e.reason, "unknown")
                     /\ Apply(r, e).resource = e.resource
  BY <1>5 DEF Apply, GoroutineRecord
<1>. QED
  BY <1>2, <1>3, <1>4, <1>5

\* An event that finds a goroutine in a wait and leaves it in the same one, with
\* the same reason and resource, continues the wait.
LEMMA SameWaitContinues ==
  ASSUME NEW r \in GoroutineRecord, NEW e \in Event, Stamped(e),
         isWaitState(NextGoroutine(r, e).state),
         NextGoroutine(r, e).state = r.state,
         NextGoroutine(r, e).reason = r.reason,
         NextGoroutine(r, e).resource = r.resource
  PROVE  continuingWait(r, e)
<1>. SUFFICES ASSUME ~ continuingWait(r, e) PROVE FALSE
  OBVIOUS
<1>1. /\ NextGoroutine(r, e).state = resolveNextState(r, e)
      /\ NextGoroutine(r, e).reason = FirstOf(e.reason, "unknown")
      /\ NextGoroutine(r, e).resource = e.resource
  BY NextTimes
<1>. QED
  BY <1>1 DEF continuingWait, FirstOf

LEMMA ElapsedInOrder ==
  ASSUME NEW a \in Nat, NEW b \in Nat, NEW start \in Nat, NEW w \in Nat,
         start # 0, start <= a, a <= b, w = a - start
  PROVE  w + elapsedNS(a, b) = b - start
BY DEF elapsedNS

-----------------------------------------------------------------------------
(* Sequences of segments *)

\* SegmentsDisjoint of any closed segments and any open ones.
DisjointOver(segs, active) ==
  /\ \A i \in 1..Len(segs) : segs[i].start < segs[i].end
  /\ \A i, j \in 1..Len(segs) :
       i < j /\ segs[i].gid = segs[j].gid => segs[i].end <= segs[j].start
  /\ \A i \in 1..Len(segs) :
       active[segs[i].gid] # NoSegment => segs[i].end <= active[segs[i].gid].start

LEMMA DisjointIs == SegmentsDisjoint <=> DisjointOver(closedSegments, activeSegments)
BY DEF SegmentsDisjoint, DisjointOver

\* Eviction keeps a suffix.
LEMMA TrimSuffix ==
  ASSUME NEW segs \in Seq(TimelineSegment)
  PROVE  \E d \in Nat : \A i \in 1..Len(trimClosedSegments(segs)) :
           i + d \in 1..Len(segs) /\ trimClosedSegments(segs)[i] = segs[i + d]
<1>1. MaxClosedSegments \in Nat /\ Len(segs) \in Nat
  BY EngineAssumption
<1>2. CASE trimClosedSegments(segs) = segs
  <2>1. \A i \in 1..Len(segs) : i + 0 \in 1..Len(segs) /\ segs[i] = segs[i + 0]
    BY <1>1
  <2>. QED
    BY <1>2, <2>1
<1>3. CASE trimClosedSegments(segs) # segs
  <2>. DEFINE d == Len(segs) - MaxClosedSegments
  <2>1. /\ MaxClosedSegments > 0
        /\ Len(segs) > MaxClosedSegments + (MaxClosedSegments \div 10)
        /\ trimClosedSegments(segs) = SubSeq(segs, d + 1, Len(segs))
    BY <1>1, <1>3 DEF trimClosedSegments
  <2>2. d \in Nat /\ d + 1 \in 1..Len(segs)
    <3>1. MaxClosedSegments \div 10 \in Nat
      BY <1>1
    <3>. QED
      BY <1>1, <2>1, <3>1
  <2>. HIDE DEF d
  <2>3. /\ Len(SubSeq(segs, d + 1, Len(segs))) = Len(segs) - d
        /\ \A i \in 1..(Len(segs) - d) :
             SubSeq(segs, d + 1, Len(segs))[i] = segs[i + d]
    BY <1>1, <2>2
  <2>4. \A i \in 1..(Len(segs) - d) : i + d \in 1..Len(segs)
    BY <1>1, <2>2
  <2>. QED
    BY <2>1, <2>2, <2>3, <2>4
<1>. QED
  BY <1>2, <1>3

\* The segments after an event: the old ones, and the stay that ended, if any.
LEMMA ClosedShape ==
  ASSUME NEW segs \in Seq(TimelineSegment), NEW gid \in Goroutine,
         NEW open \in ActiveSegment, NEW end \in Nat
  PROVE  \/ segs \o buildTimelineSegment(gid, open, end) = segs
         \/ /\ open.start # 0 /\ open.start < end
            /\ \E built \in TimelineSegment :
                 /\ built.gid = gid /\ built.start = open.start /\ built.end = end
                 /\ segs \o buildTimelineSegment(gid, open, end) = Append(segs, built)
<1>. DEFINE built == [gid |-> gid, start |-> open.start, end |-> end,
                      state |-> open.state, reason |-> open.reason,
                      resource |-> open.resource]
<1>1. built \in TimelineSegment
  BY DEF ActiveSegment, TimelineSegment
<1>2. built.gid = gid /\ built.start = open.start /\ built.end = end
  OBVIOUS
<1>3. CASE open.start # 0 /\ end > open.start
  <2>1. buildTimelineSegment(gid, open, end) = <<built>>
    BY <1>3 DEF buildTimelineSegment
  <2>. HIDE DEF built
  <2>2. open.start < end
    BY <1>3 DEF ActiveSegment
  <2>3. segs \o <<built>> = Append(segs, built)
    BY <1>1
  <2>. QED
    BY <1>1, <1>2, <1>3, <2>1, <2>2, <2>3
<1>4. CASE ~ (open.start # 0 /\ end > open.start)
  <2>1. buildTimelineSegment(gid, open, end) = <<>>
    BY <1>4 DEF buildTimelineSegment
  <2>. QED
    BY <2>1
<1>. QED
  BY <1>3, <1>4

\* Eviction breaks nothing that holds of all the segments.
LEMMA TrimKeeps ==
  ASSUME NEW segs \in Seq(TimelineSegment), NEW active, NEW gs,
         DisjointOver(segs, active),
         \A i \in 1..Len(segs) : segs[i].end <= gs[segs[i].gid].lastSeenAt
  PROVE  LET kept == trimClosedSegments(segs)
         IN  /\ DisjointOver(kept, active)
             /\ \A i \in 1..Len(kept) : kept[i].end <= gs[kept[i].gid].lastSeenAt
<1>. DEFINE kept == trimClosedSegments(segs)
<1>1. PICK d \in Nat : \A i \in 1..Len(kept) :
                         i + d \in 1..Len(segs) /\ kept[i] = segs[i + d]
  BY TrimSuffix
<1>2. Len(kept) \in Nat
  <2>1. kept \in Seq(TimelineSegment)
    BY TrimType
  <2>. HIDE DEF kept
  <2>. QED
    BY <2>1
<1>. HIDE DEF kept
<1>3. \A i, j \in 1..Len(kept) : i < j => i + d < j + d
  BY <1>1, <1>2
<1>4. DisjointOver(kept, active)
  BY <1>1, <1>3 DEF DisjointOver
<1>5. \A i \in 1..Len(kept) : kept[i].end <= gs[kept[i].gid].lastSeenAt
  BY <1>1
<1>. QED
  BY <1>4, <1>5 DEF kept

-----------------------------------------------------------------------------
(* The steps *)

\* An event that is not earlier than the last one of its goroutine.
LEMMA EventKeepsTimes ==
  ASSUME TimelineInv, TypeOK', NEW raw \in Event, Stamped(raw), raw.gid # NoID,
         goroutines[raw.gid].lastSeenAt <= raw.ts, applyEventLocked(raw)
  PROVE  /\ SegmentTimes' /\ WaitAccounted' /\ SegmentsDisjoint'
         /\ goroutines'[raw.gid].lastSeenAt = raw.ts
         /\ \A h \in Goroutine : h # raw.gid => goroutines'[h] = goroutines[h]
<1>. DEFINE e == normalizeEvent(raw)
            g == raw.gid
            current == goroutines[g]
            next == NextGoroutine(current, e)
            active == activeSegments[g]
            leaves == LeavesSegment(active, current, next)
            opens  == (active = NoSegment \/ leaves) /\ shouldTrackState(next.state)
            fresh  == [start |-> e.ts, state |-> next.state,
                       reason |-> next.reason, resource |-> next.resource]
            all == IF leaves
                   THEN closedSegments \o buildTimelineSegment(g, active, e.ts)
                   ELSE closedSegments
<1>1. /\ e \in Event /\ Stamped(e) /\ e.gid = g /\ e.ts = raw.ts
      /\ g \in Goroutine /\ e.ts \in Nat /\ e.ts # 0
  <2>1. e \in Event /\ e.gid = g /\ e.ts = raw.ts
    BY NormalizeType
  <2>2. Stamped(e)
    BY NormalizeStamped
  <2>. QED
    BY <2>1, <2>2 DEF Event, Stamped
<1>2. /\ TypeOK /\ current \in GoroutineRecord /\ active \in ActiveSegment
      /\ closedSegments \in Seq(TimelineSegment)
      /\ current.lastSeenAt \in Nat /\ active.start \in Nat
      /\ current.lastSeenAt <= e.ts
  <2>1. TypeOK
    BY DEF TimelineInv, EngineInv
  <2>. QED
    BY <1>1, <2>1 DEF TypeOK, GoroutineRecord, ActiveSegment
<1>3. /\ goroutines' = [goroutines EXCEPT ![g] = next]
      /\ updateSegmentsLocked(g, current, next, e)
  BY <1>1 DEF applyEventLocked
<1>4. /\ activeSegments' = [activeSegments EXCEPT
                              ![g] = IF opens THEN fresh
                                     ELSE IF leaves THEN NoSegment ELSE @]
      /\ closedSegments' = trimClosedSegments(all)
  BY <1>1, <1>3 DEF updateSegmentsLocked, Stamped
<1>5. /\ goroutines'[g] = next
      /\ activeSegments'[g] = IF opens THEN fresh
                              ELSE IF leaves THEN NoSegment ELSE active
      /\ \A h \in Goroutine : h # g => /\ goroutines'[h] = goroutines[h]
                                       /\ activeSegments'[h] = activeSegments[h]
  BY <1>1, <1>2, <1>3, <1>4 DEF TypeOK
<1>6. /\ active # NoSegment <=> shouldTrackState(current.state)
      /\ active # NoSegment => segmentMatchesGoroutine(active, current)
      /\ active # NoSegment => active.start # 0 /\ active.start <= current.lastSeenAt
  BY <1>1 DEF TimelineInv, EngineInv, ActiveSegmentMatches, SegmentTimes
<1>7. /\ next.lastSeenAt = e.ts
      /\ continuingWait(current, e)
           => /\ next.state = current.state
              /\ next.reason = current.reason
              /\ next.resource = current.resource
              /\ next.waitNS = current.waitNS + elapsedNS(current.lastSeenAt, e.ts)
      /\ ~ continuingWait(current, e) => next.waitNS = 0
      /\ isWaitState(next.state) /\ next.state = current.state
           /\ next.reason = current.reason /\ next.resource = current.resource
           => continuingWait(current, e)
  BY <1>1, <1>2, NextTimes, SameWaitContinues
<1>8. fresh.start = e.ts /\ fresh # NoSegment
  BY <1>1 DEF NoSegment
<1>. HIDE DEF e, current, next, active, fresh, all
<1>9. isWaitState(next.state) => shouldTrackState(next.state)
  BY DEF isWaitState, shouldTrackState
<1>10. active # NoSegment /\ ~ leaves => segmentMatchesGoroutine(active, next)
  BY <1>6 DEF LeavesSegment
<1>11. IF isWaitState(next.state)
       THEN next.waitNS = next.lastSeenAt - activeSegments'[g].start
       ELSE next.waitNS = 0
  <2>1. CASE continuingWait(current, e)
    <3>1. isWaitState(current.state) /\ next.state = current.state
      BY <1>7, <2>1 DEF continuingWait
    <3>2. active # NoSegment
      BY <1>6, <1>9, <3>1
    <3>3. segmentMatchesGoroutine(active, next)
      BY <1>6, <1>7, <2>1, <3>2 DEF segmentMatchesGoroutine
    <3>4. activeSegments'[g] = active
      BY <1>5, <3>2, <3>3 DEF LeavesSegment
    <3>5. current.waitNS = current.lastSeenAt - active.start
      BY <1>1, <3>1 DEF TimelineInv, WaitAccounted, current, active
    <3>6. current.waitNS \in Nat
      BY <1>2 DEF GoroutineRecord
    <3>7. current.waitNS + elapsedNS(current.lastSeenAt, e.ts) = e.ts - active.start
      BY <1>1, <1>2, <1>6, <3>2, <3>5, <3>6, ElapsedInOrder
    <3>. QED
      BY <1>7, <2>1, <3>1, <3>4, <3>7
  <2>2. CASE ~ continuingWait(current, e) /\ isWaitState(next.state)
    <3>1. active = NoSegment \/ leaves
      <4>. SUFFICES ASSUME active # NoSegment, ~ leaves PROVE FALSE
        OBVIOUS
      <4>1. /\ next.state = current.state /\ next.reason = current.reason
            /\ next.resource = current.resource
        BY <1>6, <1>10 DEF segmentMatchesGoroutine
      <4>. QED
        BY <1>7, <2>2, <4>1
    <3>2. activeSegments'[g].start = e.ts
      BY <1>5, <1>8, <1>9, <2>2, <3>1
    <3>. QED
      BY <1>1, <1>7, <2>2, <3>2
  <2>3. CASE ~ continuingWait(current, e) /\ ~ isWaitState(next.state)
    BY <1>7, <2>3
  <2>. QED
    BY <2>1, <2>2, <2>3
<1>12. WaitAccounted'
  BY <1>5, <1>11 DEF TimelineInv, WaitAccounted
\* What opens, opens now; what stays open, opened before.
<1>13. activeSegments'[g] # NoSegment =>
         \/ activeSegments'[g].start = e.ts
         \/ /\ activeSegments'[g] = active /\ active # NoSegment /\ ~ leaves
            /\ active.start # 0 /\ active.start <= e.ts
  <2>1. active # NoSegment => active.start # 0 /\ active.start <= e.ts
    BY <1>1, <1>2, <1>6
  <2>2. CASE opens
    BY <1>5, <1>8, <2>2
  <2>3. CASE ~ opens
    BY <1>5, <2>1, <2>3
  <2>. QED
    BY <2>2, <2>3
<1>14. /\ all \in Seq(TimelineSegment)
       /\ \A i \in 1..Len(all) :
            \/ i \in 1..Len(closedSegments) /\ all[i] = closedSegments[i]
            \/ /\ i = Len(closedSegments) + 1
               /\ leaves /\ active.start < e.ts
               /\ all[i].gid = g /\ all[i].start = active.start /\ all[i].end = e.ts
  <2>1. CASE leaves
    <3>1. all = closedSegments \o buildTimelineSegment(g, active, e.ts)
      BY <2>1 DEF all
    <3>2. CASE all = closedSegments
      BY <1>2, <3>2
    <3>3. CASE /\ active.start < e.ts
               /\ \E built \in TimelineSegment :
                    /\ built.gid = g /\ built.start = active.start
                    /\ built.end = e.ts
                    /\ all = Append(closedSegments, built)
      BY <1>2, <2>1, <3>3
    <3>. QED
      BY <1>1, <1>2, <3>1, <3>2, <3>3, ClosedShape
  <2>2. CASE ~ leaves
    BY <1>2, <2>2 DEF all
  <2>. QED
    BY <2>1, <2>2
\* The old segments end by the last event, and before the open one begins.
<1>15. \A i \in 1..Len(closedSegments) :
         /\ closedSegments[i].gid \in Goroutine
         /\ closedSegments[i].start \in Nat /\ closedSegments[i].end \in Nat
         /\ closedSegments[i].start < closedSegments[i].end
         /\ closedSegments[i].end <= goroutines[closedSegments[i].gid].lastSeenAt
         /\ activeSegments[closedSegments[i].gid] # NoSegment =>
              closedSegments[i].end <= activeSegments[closedSegments[i].gid].start
  <2>1. \A i \in 1..Len(closedSegments) : closedSegments[i] \in TimelineSegment
    BY <1>2
  <2>2. \A i \in 1..Len(closedSegments) : /\ closedSegments[i].gid \in Goroutine
                                         /\ closedSegments[i].start \in Nat
                                         /\ closedSegments[i].end \in Nat
    BY <2>1 DEF TimelineSegment
  <2>. QED
    BY <2>2 DEF TimelineInv, SegmentTimes, SegmentsDisjoint
<1>16. \A i, j \in 1..Len(closedSegments) :
         i < j /\ closedSegments[i].gid = closedSegments[j].gid
           => closedSegments[i].end <= closedSegments[j].start
  BY DEF TimelineInv, SegmentsDisjoint
<1>17. \A i \in 1..Len(closedSegments) :
         closedSegments[i].gid = g =>
           /\ closedSegments[i].end <= e.ts
           /\ active # NoSegment => closedSegments[i].end <= active.start
  BY <1>1, <1>2, <1>15 DEF current, active
<1>18. leaves => active # NoSegment
  BY DEF LeavesSegment
<1>. HIDE DEF leaves, opens, g
<1>19. DisjointOver(all, activeSegments')
  <2>1. \A i \in 1..Len(all) : all[i].start < all[i].end
    BY <1>14, <1>15
  <2>2. ASSUME NEW i \in 1..Len(all), NEW j \in 1..Len(all), i < j,
               all[i].gid = all[j].gid
        PROVE  all[i].end <= all[j].start
    <3>1. i \in 1..Len(closedSegments) /\ all[i] = closedSegments[i]
      BY <1>2, <1>14, <2>2
    <3>2. CASE j \in 1..Len(closedSegments) /\ all[j] = closedSegments[j]
      BY <1>16, <2>2, <3>1, <3>2
    <3>3. CASE leaves /\ all[j].gid = g /\ all[j].start = active.start
      BY <1>17, <1>18, <2>2, <3>1, <3>3
    <3>. QED
      BY <1>14, <3>2, <3>3
  <2>3. ASSUME NEW i \in 1..Len(all), activeSegments'[all[i].gid] # NoSegment
        PROVE  all[i].end <= activeSegments'[all[i].gid].start
    <3>1. CASE i \in 1..Len(closedSegments) /\ all[i] = closedSegments[i]
      <4>1. CASE all[i].gid # g
        BY <1>5, <1>15, <2>3, <3>1, <4>1
      <4>2. CASE all[i].gid = g
        BY <1>13, <1>17, <2>3, <3>1, <4>2
      <4>. QED
        BY <4>1, <4>2
    <3>2. CASE leaves /\ all[i].gid = g /\ all[i].end = e.ts
      BY <1>1, <1>13, <2>3, <3>2
    <3>. QED
      BY <1>14, <3>1, <3>2
  <2>. QED
    BY <2>1, <2>2, <2>3 DEF DisjointOver
<1>20. \A i \in 1..Len(all) : all[i].end <= goroutines'[all[i].gid].lastSeenAt
  <2>. SUFFICES ASSUME NEW i \in 1..Len(all)
                PROVE  all[i].end <= goroutines'[all[i].gid].lastSeenAt
    OBVIOUS
  <2>1. CASE i \in 1..Len(closedSegments) /\ all[i] = closedSegments[i]
    BY <1>5, <1>7, <1>15, <1>17, <2>1
  <2>2. CASE all[i].gid = g /\ all[i].end = e.ts
    BY <1>1, <1>5, <1>7, <2>2
  <2>. QED
    BY <1>14, <2>1, <2>2
<1>21. /\ DisjointOver(closedSegments', activeSegments')
       /\ \A i \in 1..Len(closedSegments') :
            closedSegments'[i].end <= goroutines'[closedSegments'[i].gid].lastSeenAt
  BY <1>4, <1>14, <1>19, <1>20, TrimKeeps
<1>22. SegmentsDisjoint'
  BY <1>21 DEF SegmentsDisjoint, DisjointOver
<1>23. SegmentTimes'
  <2>1. ASSUME NEW h \in Goroutine, activeSegments'[h] # NoSegment
        PROVE  /\ activeSegments'[h].start # 0
               /\ activeSegments'[h].start <= goroutines'[h].lastSeenAt
    <3>1. CASE h = g
      BY <1>1, <1>5, <1>7, <1>13, <2>1, <3>1
    <3>2. CASE h # g
      BY <1>5, <2>1, <3>2 DEF TimelineInv, SegmentTimes
    <3>. QED
      BY <3>1, <3>2
  <2>. QED
    BY <1>21, <2>1 DEF SegmentTimes
<1>. QED
  BY <1>1, <1>5, <1>7, <1>12, <1>22, <1>23 DEF g

\* A step that keeps segments, states and waits, and moves the last time only of
\* a goroutine that no event has given a state.
LEMMA QuietTimes ==
  ASSUME TimelineInv, TypeOK', UNCHANGED <<activeSegments, closedSegments>>,
         \A g \in Goroutine :
           /\ goroutines'[g].state = goroutines[g].state
           /\ goroutines'[g].waitNS = goroutines[g].waitNS
           /\ \/ goroutines'[g].lastSeenAt = goroutines[g].lastSeenAt
              \/ /\ goroutines[g].state = ""
                 /\ goroutines[g].lastSeenAt <= goroutines'[g].lastSeenAt
  PROVE  SegmentTimes' /\ WaitAccounted' /\ SegmentsDisjoint'
<1>0. TypeOK
  BY DEF TimelineInv, EngineInv
<1>1. SegmentsDisjoint'
  BY DEF TimelineInv, SegmentsDisjoint
<1>2. WaitAccounted'
  <2>1. ~ isWaitState("")
    BY DEF isWaitState
  <2>. QED
    BY <2>1 DEF TimelineInv, WaitAccounted
<1>3. SegmentTimes'
  <2>1. ASSUME NEW g \in Goroutine, activeSegments[g] # NoSegment
        PROVE  /\ activeSegments[g].start # 0
               /\ activeSegments[g].start <= goroutines'[g].lastSeenAt
    <3>1. goroutines[g].state # ""
      BY <2>1 DEF TimelineInv, EngineInv, ActiveSegmentMatches, shouldTrackState
    <3>. QED
      BY <2>1, <3>1 DEF TimelineInv, SegmentTimes
  <2>2. \A g \in Goroutine : /\ goroutines[g] \in GoroutineRecord
                             /\ goroutines'[g] \in GoroutineRecord
    BY <1>0 DEF TypeOK
  <2>3. \A g \in Goroutine : /\ goroutines[g].lastSeenAt \in Nat
                             /\ goroutines'[g].lastSeenAt \in Nat
    BY <2>2 DEF GoroutineRecord
  <2>4. \A g \in Goroutine : goroutines[g].lastSeenAt <= goroutines'[g].lastSeenAt
    <3>1. \A g \in Goroutine : \/ goroutines'[g].lastSeenAt = goroutines[g].lastSeenAt
                               \/ goroutines[g].lastSeenAt <= goroutines'[g].lastSeenAt
      OBVIOUS
    <3>. QED
      BY ONLY <2>3, <3>1, SMT
  <2>5. \A i \in 1..Len(closedSegments) : closedSegments[i] \in TimelineSegment
    <3>1. closedSegments \in Seq(TimelineSegment)
      BY <1>0 DEF TypeOK
    <3>. QED
      BY ONLY <3>1
  <2>6. \A i \in 1..Len(closedSegments) : /\ closedSegments[i].gid \in Goroutine
                                         /\ closedSegments[i].end \in Nat
    BY <2>5 DEF TimelineSegment
  <2>7. \A i \in 1..Len(closedSegments) :
          closedSegments[i].end <= goroutines[closedSegments[i].gid].lastSeenAt
    BY DEF TimelineInv, SegmentTimes
  <2>8. \A i \in 1..Len(closedSegments) :
          closedSegments[i].end <= goroutines'[closedSegments[i].gid].lastSeenAt
    BY ONLY <2>3, <2>4, <2>6, <2>7, SMT
  <2>. QED
    BY <2>1, <2>8 DEF SegmentTimes
<1>. QED
  BY <1>1, <1>2, <1>3

LEMMA WithStackTimes ==
  ASSUME NEW r \in GoroutineRecord, NEW s \in StackSnapshot
  PROVE  /\ WithStack(r, s).state = r.state
         /\ WithStack(r, s).waitNS = r.waitNS
         /\ r.lastSeenAt <= WithStack(r, s).lastSeenAt
         /\ s.ts <= r.lastSeenAt => WithStack(r, s).lastSeenAt = r.lastSeenAt
<1>1. r.lastSeenAt \in Nat /\ s.ts \in Nat
  BY DEF StackSnapshot, GoroutineRecord
<1>2. /\ WithStack(r, s).state = r.state
      /\ WithStack(r, s).waitNS = r.waitNS
      /\ WithStack(r, s).lastSeenAt
           = IF s.ts > r.lastSeenAt THEN s.ts ELSE r.lastSeenAt
  BY DEF WithStack, GoroutineRecord
<1>. QED
  BY <1>1, <1>2

\* A stack that is no newer than its goroutine, or whose goroutine has no events.
LEMMA StackTimes ==
  ASSUME TypeOK, NEW s \in StackSnapshot, applyStackSnapshotLocked(s),
         \/ s.gid = NoID
         \/ s.ts <= goroutines[s.gid].lastSeenAt
         \/ goroutines[s.gid].state = ""
  PROVE  \A g \in Goroutine :
           /\ goroutines'[g].state = goroutines[g].state
           /\ goroutines'[g].waitNS = goroutines[g].waitNS
           /\ \/ goroutines'[g].lastSeenAt = goroutines[g].lastSeenAt
              \/ /\ goroutines[g].state = ""
                 /\ goroutines[g].lastSeenAt <= goroutines'[g].lastSeenAt
<1>. SUFFICES ASSUME NEW g \in Goroutine
              PROVE  /\ goroutines'[g].state = goroutines[g].state
                     /\ goroutines'[g].waitNS = goroutines[g].waitNS
                     /\ \/ goroutines'[g].lastSeenAt = goroutines[g].lastSeenAt
                        \/ /\ goroutines[g].state = ""
                           /\ goroutines[g].lastSeenAt <= goroutines'[g].lastSeenAt
  OBVIOUS
<1>1. CASE s.gid = g
  <2>1. /\ goroutines[g] \in GoroutineRecord
        /\ goroutines'[g] = WithStack(goroutines[g], s)
    BY <1>1, NoIDAssumption DEF TypeOK, applyStackSnapshotLocked
  <2>. DEFINE r == goroutines[g]
              q == WithStack(r, s)
  <2>2. /\ q.state = r.state /\ q.waitNS = r.waitNS
        /\ s.ts <= r.lastSeenAt => q.lastSeenAt = r.lastSeenAt
        /\ r.lastSeenAt <= q.lastSeenAt
    BY <2>1, WithStackTimes
  <2>3. s.ts <= r.lastSeenAt \/ r.state = ""
    BY <1>1, NoIDAssumption
  <2>. HIDE DEF q, r
  <2>4. /\ q.state = r.state /\ q.waitNS = r.waitNS
        /\ \/ q.lastSeenAt = r.lastSeenAt
           \/ r.state = "" /\ r.lastSeenAt <= q.lastSeenAt
    BY ONLY <2>2, <2>3, Zenon
  <2>. QED
    BY <2>1, <2>4 DEF q, r
<1>2. CASE s.gid # g
  BY <1>2 DEF TypeOK, applyStackSnapshotLocked
<1>. QED
  BY <1>1, <1>2

LEMMA ParentsKeepTimes ==
  ASSUME NEW gs \in [Goroutine -> GoroutineRecord],
         NEW ids \in [Goroutine -> Goroutine \cup {NoID}], NEW g \in Goroutine
  PROVE  /\ MergeParents(gs, ids)[g].state = gs[g].state
         /\ MergeParents(gs, ids)[g].waitNS = gs[g].waitNS
         /\ MergeParents(gs, ids)[g].lastSeenAt = gs[g].lastSeenAt
<1>1. gs[g] \in GoroutineRecord
  OBVIOUS
<1>. QED
  BY <1>1 DEF MergeParents, GoroutineRecord

LEMMA LabelsKeepTimes ==
  ASSUME NEW gs \in [Goroutine -> GoroutineRecord],
         NEW overrides \in [Goroutine -> Label \cup {NoLabel}], NEW g \in Goroutine
  PROVE  /\ MergeLabels(gs, overrides)[g].state = gs[g].state
         /\ MergeLabels(gs, overrides)[g].waitNS = gs[g].waitNS
         /\ MergeLabels(gs, overrides)[g].lastSeenAt = gs[g].lastSeenAt
<1>1. gs[g] \in GoroutineRecord
  OBVIOUS
<1>. QED
  BY <1>1 DEF MergeLabels, GoroutineRecord

-----------------------------------------------------------------------------
(* Loading a capture *)

\* The next event of a load is not earlier than the last one of its goroutine,
\* and what is left of the capture is still ahead of what was applied.
LEMMA LoadEventAhead ==
  ASSUME TimelineInv, TypeOK', LoadEvent
  PROVE  /\ Head(loading.events) \in Event /\ Stamped(Head(loading.events))
         /\ Head(loading.events).gid # NoID =>
              goroutines[Head(loading.events).gid].lastSeenAt
                <= Head(loading.events).ts
         /\ loading.events \in Seq(Event) /\ loading.events # <<>>
         /\ loading'.events = Tail(loading.events)
         /\ loading'.stacks = loading.stacks
         /\ ~ MuFree /\ ~ MuFree'
<1>0. TypeOK /\ LoadingStamped
  BY DEF TimelineInv, EngineInv
<1>1. /\ loading.events \in Seq(Event) /\ loading.events # <<>> /\ ~ MuFree
      /\ loading' = [loading EXCEPT !.events = Tail(@)]
  BY <1>0 DEF TypeOK, LoadEvent
<1>2. /\ loading'.events = Tail(loading.events)
      /\ loading'.stacks = loading.stacks
      /\ loading'.capture = loading.capture
  BY <1>0, <1>1 DEF TypeOK
<1>3. Head(loading.events) = loading.events[1] /\ 1 \in 1..Len(loading.events)
  BY <1>1
<1>4. Head(loading.events) \in Event /\ Stamped(Head(loading.events))
  BY <1>0, <1>1, <1>3 DEF LoadingStamped
<1>5. ASSUME Head(loading.events).gid # NoID
      PROVE  goroutines[Head(loading.events).gid].lastSeenAt
               <= Head(loading.events).ts
  <2>1. Head(loading.events).gid \in Goroutine
    BY <1>4, <1>5 DEF Event
  <2>2. 1 \in Pending(Head(loading.events).gid, loading.events)
    BY <1>3 DEF Pending
  <2>3. EventsAhead(goroutines, loading.events)
    BY <1>1 DEF TimelineInv, LoadingInOrder
  <2>. QED
    BY <1>3, <2>1, <2>2, <2>3 DEF EventsAhead
<1>. QED
  BY <1>1, <1>2, <1>4, <1>5 DEF MuFree

\* Shortening a sequence of events by its head.
LEMMA PendingTail ==
  ASSUME NEW events \in Seq(Event), events # <<>>
  PROVE  /\ \A i \in 1..Len(Tail(events)) :
              i + 1 \in 1..Len(events) /\ Tail(events)[i] = events[i + 1]
         /\ \A i \in 1..Len(events) :
              i = 1 \/ (i - 1 \in 1..Len(Tail(events)) /\ Tail(events)[i - 1] = events[i])
         /\ \A i \in 1..Len(Tail(events)) : i \in Nat /\ 1 < i + 1
         /\ \A i, j \in 1..Len(Tail(events)) : i < j => i + 1 < j + 1
         /\ 1 \in 1..Len(events)
OBVIOUS

\* gs and hs are the goroutines before and after the head of the events.
LEMMA AheadTail ==
  ASSUME NEW gs \in [Goroutine -> GoroutineRecord],
         NEW hs \in [Goroutine -> GoroutineRecord],
         NEW events \in Seq(Event), events # <<>>,
         NEW stacks \in Seq(StackSnapshot),
         EventsAhead(gs, events), StacksCovered(gs, events, stacks),
         events[1].gid # NoID => hs[events[1].gid].lastSeenAt = events[1].ts,
         \A h \in Goroutine : h # events[1].gid => hs[h] = gs[h]
  PROVE  EventsAhead(hs, Tail(events)) /\ StacksCovered(hs, Tail(events), stacks)
<1>. DEFINE rest == Tail(events)
<1>1. /\ \A i \in 1..Len(rest) : i + 1 \in 1..Len(events) /\ rest[i] = events[i + 1]
      /\ \A i \in 1..Len(events) :
           i = 1 \/ (i - 1 \in 1..Len(rest) /\ rest[i - 1] = events[i])
      /\ \A i \in 1..Len(rest) : i \in Nat /\ 1 < i + 1
      /\ \A i, j \in 1..Len(rest) : i < j => i + 1 < j + 1
      /\ 1 \in 1..Len(events)
  BY PendingTail
<1>2. \A i \in 1..Len(events) : /\ events[i].ts \in Nat
                               /\ events[i].gid \in Goroutine \cup {NoID}
  <2>1. \A i \in 1..Len(events) : events[i] \in Event
    OBVIOUS
  <2>. QED
    BY <2>1 DEF Event
<1>4. \A h \in Goroutine : gs[h].lastSeenAt \in Nat
  <2>1. \A h \in Goroutine : gs[h] \in GoroutineRecord
    OBVIOUS
  <2>. QED
    BY <2>1 DEF GoroutineRecord
<1>. HIDE DEF rest
<1>5. EventsAhead(hs, rest)
  <2>1. ASSUME NEW i \in 1..Len(rest), NEW j \in 1..Len(rest),
               i < j, rest[i].gid = rest[j].gid
        PROVE  rest[i].ts <= rest[j].ts
    <3>1. /\ i + 1 \in 1..Len(events) /\ rest[i] = events[i + 1]
          /\ j + 1 \in 1..Len(events) /\ rest[j] = events[j + 1]
          /\ i + 1 < j + 1
      BY <1>1, <2>1
    <3>. QED
      BY <2>1, <3>1 DEF EventsAhead
  <2>2. ASSUME NEW h \in Goroutine, NEW i \in Pending(h, rest)
        PROVE  hs[h].lastSeenAt <= rest[i].ts
    <3>1. /\ i \in 1..Len(rest) /\ i + 1 \in 1..Len(events) /\ rest[i] = events[i + 1]
          /\ events[i + 1].gid = h /\ 1 < i + 1
      BY <1>1, <2>2 DEF Pending
    <3>2. CASE h = events[1].gid
      <4>1. events[1].ts <= events[i + 1].ts
        BY <1>1, <3>1, <3>2 DEF EventsAhead
      <4>. QED
        BY <3>1, <3>2, <4>1, NoIDAssumption
    <3>3. CASE h # events[1].gid
      <4>1. i + 1 \in Pending(h, events)
        BY <3>1 DEF Pending
      <4>2. gs[h].lastSeenAt <= events[i + 1].ts
        BY <4>1 DEF EventsAhead
      <4>. QED
        BY <3>1, <3>3, <4>2
    <3>. QED
      BY <3>2, <3>3
  <2>. QED
    BY <2>1, <2>2 DEF EventsAhead
<1>6. ASSUME NEW stack \in StackSnapshot, StackCovered(gs, events, stack)
      PROVE  StackCovered(hs, rest, stack)
  <2>1. StackCovered(gs, events, stack)
    BY <1>6
  <2>2. stack.ts \in Nat /\ stack.gid \in Goroutine \cup {NoID}
    BY DEF StackSnapshot
  <2>3. CASE stack.gid = NoID
    BY <2>3 DEF StackCovered
  <2>4. CASE /\ stack.gid # NoID
             /\ \E i \in Pending(stack.gid, events) : stack.ts <= events[i].ts
    <3>1. PICK i \in Pending(stack.gid, events) : stack.ts <= events[i].ts
      BY <2>4
    <3>2. i \in 1..Len(events) /\ events[i].gid = stack.gid
      BY DEF Pending
    <3>3. CASE i = 1
      <4>1. hs[stack.gid].lastSeenAt = events[1].ts
        BY <2>4, <3>2, <3>3
      <4>. QED
        BY <3>1, <3>3, <4>1 DEF StackCovered
    <3>4. CASE i # 1
      <4>1. i - 1 \in Pending(stack.gid, rest) /\ rest[i - 1] = events[i]
        BY <1>1, <3>2, <3>4 DEF Pending
      <4>2. stack.ts <= rest[i - 1].ts
        BY <3>1, <4>1
      <4>. QED
        BY <4>1, <4>2 DEF StackCovered
    <3>. QED
      BY <3>3, <3>4
  <2>5. CASE stack.gid # NoID /\ stack.ts <= gs[stack.gid].lastSeenAt
    <3>1. CASE stack.gid = events[1].gid
      <4>1. 1 \in Pending(stack.gid, events) /\ stack.gid \in Goroutine
        BY <1>1, <2>2, <2>5, <3>1 DEF Pending
      <4>2. gs[stack.gid].lastSeenAt <= events[1].ts
        BY <4>1 DEF EventsAhead
      <4>3. stack.ts <= events[1].ts
        BY <1>1, <1>2, <1>4, <2>2, <2>5, <4>1, <4>2
      <4>4. hs[stack.gid].lastSeenAt = events[1].ts
        BY <2>5, <3>1
      <4>. QED
        BY <4>3, <4>4 DEF StackCovered
    <3>2. CASE stack.gid # events[1].gid
      <4>1. hs[stack.gid] = gs[stack.gid]
        BY <2>2, <2>5, <3>2
      <4>. QED
        BY <2>5, <4>1 DEF StackCovered
    <3>. QED
      BY <3>1, <3>2
  <2>6. CASE /\ stack.gid # NoID
             /\ Pending(stack.gid, events) = {} /\ gs[stack.gid].state = ""
    <3>1. events[1].gid # stack.gid
      BY <1>1, <2>6 DEF Pending
    <3>2. hs[stack.gid] = gs[stack.gid]
      BY <2>2, <2>6, <3>1
    <3>3. ASSUME NEW i \in Pending(stack.gid, rest) PROVE FALSE
      <4>1. i + 1 \in Pending(stack.gid, events)
        BY <1>1 DEF Pending
      <4>. QED
        BY <2>6, <4>1
    <3>. QED
      BY <2>6, <3>2, <3>3 DEF StackCovered
  <2>. QED
    BY <2>1, <2>3, <2>4, <2>5, <2>6 DEF StackCovered
<1>7. \A k \in 1..Len(stacks) : stacks[k] \in StackSnapshot
  OBVIOUS
<1>. QED
  BY <1>5, <1>6, <1>7 DEF StacksCovered, rest

\* A load begins with nothing tracked, so everything is ahead.
LEMMA LoadBeginAhead ==
  ASSUME CapturesInOrder, NEW s \in Session, NEW c \in Captures, LoadBegin(s, c)
  PROVE  LoadingInOrder'
<1>1. /\ loading'.events = c.events /\ loading'.stacks = c.stacks
      /\ CaptureInOrder(c)
      /\ \A g \in Goroutine : /\ goroutines'[g].lastSeenAt = 0
                              /\ goroutines'[g].state = ""
  BY DEF LoadBegin, resetLocked, ZeroGoroutine, CapturesInOrder
<1>2. c.events \in Seq(Event) /\ c.stacks \in Seq(StackSnapshot)
  BY EngineAssumption DEF Capture
<1>3. EventsAhead(goroutines', c.events)
  <2>1. \A i \in 1..Len(c.events) : c.events[i] \in Event
    BY <1>2
  <2>2. \A i \in 1..Len(c.events) : 0 <= c.events[i].ts
    <3>1. \A i \in 1..Len(c.events) : c.events[i].ts \in Nat
      BY <2>1 DEF Event
    <3>. QED
      BY ONLY <3>1
  <2>. QED
    BY <1>1, <2>2 DEF EventsAhead, CaptureInOrder, Pending
<1>4. StacksCovered(goroutines', c.events, c.stacks)
  <2>. SUFFICES ASSUME NEW k \in 1..Len(c.stacks)
                PROVE  StackCovered(goroutines', c.events, c.stacks[k])
    BY DEF StacksCovered
  <2>1. c.stacks[k] \in StackSnapshot
    BY <1>2
  <2>2. c.stacks[k].gid \in Goroutine \cup {NoID}
    BY <2>1 DEF StackSnapshot
  <2>3. Pending(c.stacks[k].gid, c.events) # {} =>
          \E i \in Pending(c.stacks[k].gid, c.events) :
            c.stacks[k].ts <= c.events[i].ts
    BY <1>1 DEF CaptureInOrder, Pending
  <2>. QED
    BY <1>1, <2>2, <2>3 DEF StackCovered
<1>. QED
  BY <1>1, <1>3, <1>4 DEF LoadingInOrder

\* What the stacks of a load find once its events are applied.
LEMMA LoadStackTimes ==
  ASSUME TimelineInv, TypeOK', LoadStack
  PROVE  /\ SegmentTimes' /\ WaitAccounted' /\ SegmentsDisjoint'
         /\ LoadingInOrder'
<1>. DEFINE stack == Head(loading.stacks)
<1>0. TypeOK
  BY DEF TimelineInv, EngineInv
<1>1. /\ loading.stacks \in Seq(StackSnapshot) /\ loading.stacks # <<>>
      /\ loading.events = <<>> /\ ~ MuFree
      /\ applyStackSnapshotLocked(stack)
      /\ loading' = [loading EXCEPT !.stacks = Tail(@)]
      /\ UNCHANGED <<activeSegments, closedSegments>>
  BY <1>0 DEF TypeOK, LoadStack
<1>2. loading'.events = <<>> /\ loading'.stacks = Tail(loading.stacks)
  BY <1>0, <1>1 DEF TypeOK
<1>3. /\ stack = loading.stacks[1] /\ 1 \in 1..Len(loading.stacks)
      /\ stack \in StackSnapshot
      /\ \A k \in 1..Len(Tail(loading.stacks)) :
           /\ k + 1 \in 1..Len(loading.stacks)
           /\ Tail(loading.stacks)[k] = loading.stacks[k + 1]
  BY <1>1
<1>4. \A k \in 1..Len(loading.stacks) :
        StackCovered(goroutines, <<>>, loading.stacks[k])
  BY <1>1 DEF TimelineInv, LoadingInOrder, StacksCovered
<1>. HIDE DEF stack
<1>5. \A g \in Goroutine \cup {NoID} : Pending(g, <<>>) = {}
  BY DEF Pending
<1>6. StackCovered(goroutines, <<>>, stack)
  BY <1>3, <1>4
<1>7. stack.gid \in Goroutine \cup {NoID}
  BY <1>3 DEF StackSnapshot
<1>8. \A g \in Goroutine :
        /\ goroutines'[g].state = goroutines[g].state
        /\ goroutines'[g].waitNS = goroutines[g].waitNS
        /\ \/ goroutines'[g].lastSeenAt = goroutines[g].lastSeenAt
           \/ /\ goroutines[g].state = ""
              /\ goroutines[g].lastSeenAt <= goroutines'[g].lastSeenAt
  BY <1>0, <1>1, <1>3, <1>5, <1>6, <1>7, StackTimes DEF StackCovered
<1>9. SegmentTimes' /\ WaitAccounted' /\ SegmentsDisjoint'
  BY <1>1, <1>8, QuietTimes
<1>10. EventsAhead(goroutines', <<>>)
  BY <1>5 DEF EventsAhead
<1>11. ASSUME NEW k \in 1..Len(Tail(loading.stacks))
       PROVE  StackCovered(goroutines', <<>>, Tail(loading.stacks)[k])
  <2>. DEFINE next == Tail(loading.stacks)[k]
  <2>1. StackCovered(goroutines, <<>>, next) /\ next \in StackSnapshot
    BY <1>1, <1>3, <1>4
  <2>. HIDE DEF next
  <2>2. next.gid \in Goroutine \cup {NoID}
    BY <2>1 DEF StackSnapshot
  <2>3. StackCovered(goroutines', <<>>, next)
    BY <1>5, <1>8, <2>1, <2>2 DEF StackCovered
  <2>. QED
    BY <2>3 DEF next
<1>12. LoadingInOrder'
  BY <1>2, <1>10, <1>11 DEF LoadingInOrder, StacksCovered
<1>. QED
  BY <1>9, <1>12

-----------------------------------------------------------------------------
(* The theorems *)

LEMMA InitTimeline == Init => TimelineInv
<1>. SUFFICES ASSUME Init PROVE TimelineInv
  OBVIOUS
<1>1. EngineInv
  BY InitInv
<1>2. \A g \in Goroutine : /\ activeSegments[g] = NoSegment
                           /\ goroutines[g].state = ""
                           /\ goroutines[g].waitNS = 0
  BY DEF Init, ZeroGoroutine
<1>3. 1..Len(closedSegments) = {}
  BY DEF Init
<1>4. SegmentTimes
  BY ONLY <1>2, <1>3, Zenon DEF SegmentTimes
<1>5. WaitAccounted
  BY <1>2 DEF WaitAccounted, isWaitState
<1>6. SegmentsDisjoint
  BY <1>3 DEF SegmentsDisjoint
<1>7. LoadingInOrder
  BY DEF Init, Unlocked, MuFree, LoadingInOrder
<1>. QED
  BY <1>1, <1>4, <1>5, <1>6, <1>7 DEF TimelineInv

\* A reset clears everything the invariant speaks of.
LEMMA ResetTimes ==
  ASSUME NEW s \in Session, resetLocked(s)
  PROVE  SegmentTimes' /\ WaitAccounted' /\ SegmentsDisjoint'
<1>1. \A g \in Goroutine : /\ activeSegments'[g] = NoSegment
                           /\ goroutines'[g].state = ""
                           /\ goroutines'[g].waitNS = 0
  BY DEF resetLocked, ZeroGoroutine
<1>2. 1..Len(closedSegments') = {}
  BY DEF resetLocked
<1>3. SegmentTimes'
  BY ONLY <1>1, <1>2, Zenon DEF SegmentTimes
<1>4. WaitAccounted'
  BY <1>1 DEF WaitAccounted, isWaitState
<1>5. SegmentsDisjoint'
  BY <1>2 DEF SegmentsDisjoint
<1>. QED
  BY <1>3, <1>4, <1>5

\* A step that touches neither goroutines, segments nor the load.
LEMMA UntouchedTimes ==
  ASSUME TimelineInv, EngineInv', UNCHANGED <<timelineVars, loading>>
  PROVE  TimelineInv'
<1>. USE DEF timelineVars
<1>1. SegmentTimes' /\ WaitAccounted' /\ SegmentsDisjoint'
  BY DEF TimelineInv, SegmentTimes, WaitAccounted, SegmentsDisjoint
<1>2. LoadingInOrder'
  BY DEF TimelineInv, LoadingInOrder, MuFree
<1>. QED
  BY <1>1, <1>2 DEF TimelineInv

LEMMA NextTimeline == CapturesInOrder /\ TimelineInv /\ [Next]_vars => TimelineInv'
<1>. SUFFICES ASSUME CapturesInOrder, TimelineInv, [Next]_vars PROVE TimelineInv'
  OBVIOUS
<1>0. EngineInv /\ EngineInv' /\ TypeOK /\ TypeOK'
  BY NextInv DEF TimelineInv, EngineInv
<1>1. ASSUME NEW e \in Events, InOrder(e), ApplyEvent(e) PROVE TimelineInv'
  <2>1. e \in Event /\ Stamped(e) /\ applyEventLocked(e)
    BY <1>1, EngineAssumption DEF ApplyEvent
  <2>2. LoadingInOrder'
    BY <1>1 DEF ApplyEvent, LoadingInOrder, MuFree
  <2>3. CASE e.gid # NoID
    <3>1. goroutines[e.gid].lastSeenAt <= e.ts
      <4>1. e.gid \in Goroutine /\ e.ts \in Nat
        BY <2>1, <2>3 DEF Event
      <4>2. goroutines[e.gid] \in GoroutineRecord
        BY <1>0, <4>1 DEF TypeOK
      <4>3. goroutines[e.gid].lastSeenAt \in Nat
        BY <4>2 DEF GoroutineRecord
      <4>. QED
        BY <1>1, <2>3, <4>1, <4>3 DEF InOrder
    <3>2. SegmentTimes' /\ WaitAccounted' /\ SegmentsDisjoint'
      BY <1>0, <2>1, <2>3, <3>1, EventKeepsTimes
    <3>. QED
      BY <1>0, <2>2, <3>2 DEF TimelineInv
  <2>4. CASE e.gid = NoID
    <3>1. normalizeEvent(e).gid = NoID
      BY <2>1, <2>4, NormalizeType
    <3>2. UNCHANGED <<timelineVars, loading>>
      BY <1>1, <2>1, <3>1 DEF applyEventLocked, ApplyEvent
    <3>. QED
      BY <1>0, <3>2, UntouchedTimes
  <2>. QED
    BY <2>3, <2>4
<1>2. ASSUME NEW s \in Snapshots, WithItsEvent(s), ApplyStackSnapshot(s)
      PROVE  TimelineInv'
  <2>1. s \in StackSnapshot /\ applyStackSnapshotLocked(s)
    BY <1>2, EngineAssumption DEF ApplyStackSnapshot
  <2>2. s.gid \in Goroutine \cup {NoID}
    BY <2>1 DEF StackSnapshot
  <2>3. \/ s.gid = NoID
        \/ s.ts <= goroutines[s.gid].lastSeenAt
        \/ goroutines[s.gid].state = ""
    BY <1>0, <1>2, <2>2 DEF WithItsEvent, EngineInv, UnseenBlank
  <2>4. UNCHANGED <<activeSegments, closedSegments>>
    BY <1>2 DEF ApplyStackSnapshot
  <2>5. SegmentTimes' /\ WaitAccounted' /\ SegmentsDisjoint'
    BY <1>0, <2>1, <2>3, <2>4, StackTimes, QuietTimes
  <2>6. LoadingInOrder'
    BY <1>2 DEF ApplyStackSnapshot, LoadingInOrder, MuFree
  <2>. QED
    BY <1>0, <2>5, <2>6 DEF TimelineInv
<1>3. ASSUME NEW s \in Session, Reset(s) PROVE TimelineInv'
  <2>1. SegmentTimes' /\ WaitAccounted' /\ SegmentsDisjoint'
    BY <1>3, ResetTimes DEF Reset
  <2>2. LoadingInOrder'
    BY <1>3 DEF Reset, LoadingInOrder, MuFree
  <2>. QED
    BY <1>0, <2>1, <2>2 DEF TimelineInv
<1>4. ASSUME NEW s \in Session, NEW c \in Captures, LoadBegin(s, c)
      PROVE  TimelineInv'
  <2>1. SegmentTimes' /\ WaitAccounted' /\ SegmentsDisjoint'
    BY <1>4, ResetTimes DEF LoadBegin
  <2>2. LoadingInOrder'
    BY <1>4, LoadBeginAhead
  <2>. QED
    BY <1>0, <2>1, <2>2 DEF TimelineInv
<1>5. ASSUME LoadEvent PROVE TimelineInv'
  <2>. DEFINE e == Head(loading.events)
  <2>1. /\ e \in Event /\ Stamped(e)
        /\ e.gid # NoID => goroutines[e.gid].lastSeenAt <= e.ts
        /\ loading.events \in Seq(Event) /\ loading.events # <<>>
        /\ loading'.events = Tail(loading.events)
        /\ loading'.stacks = loading.stacks
        /\ ~ MuFree /\ ~ MuFree'
    BY <1>0, <1>5, LoadEventAhead
  <2>2. applyEventLocked(e) /\ e = loading.events[1]
    BY <1>5, <2>1 DEF LoadEvent
  <2>3. /\ EventsAhead(goroutines, loading.events)
        /\ StacksCovered(goroutines, loading.events, loading.stacks)
    BY <2>1 DEF TimelineInv, LoadingInOrder
  <2>4. /\ goroutines \in [Goroutine -> GoroutineRecord]
        /\ goroutines' \in [Goroutine -> GoroutineRecord]
        /\ loading.stacks \in Seq(StackSnapshot)
    BY <1>0 DEF TypeOK
  <2>. HIDE DEF e
  <2>5. CASE e.gid # NoID
    <3>1. /\ SegmentTimes' /\ WaitAccounted' /\ SegmentsDisjoint'
          /\ goroutines'[e.gid].lastSeenAt = e.ts
          /\ \A h \in Goroutine : h # e.gid => goroutines'[h] = goroutines[h]
      BY <1>0, <2>1, <2>2, <2>5, EventKeepsTimes
    <3>2. /\ EventsAhead(goroutines', Tail(loading.events))
          /\ StacksCovered(goroutines', Tail(loading.events), loading.stacks)
      BY <2>1, <2>2, <2>3, <2>4, <3>1, AheadTail
    <3>3. LoadingInOrder'
      BY <2>1, <3>2 DEF LoadingInOrder
    <3>. QED
      BY <1>0, <3>1, <3>3 DEF TimelineInv
  <2>6. CASE e.gid = NoID
    <3>1. normalizeEvent(e).gid = NoID
      BY <2>1, <2>6, NormalizeType
    <3>2. UNCHANGED timelineVars
      BY <2>2, <3>1 DEF applyEventLocked
    <3>3. UNCHANGED <<goroutines, activeSegments, closedSegments>>
      BY <3>2 DEF timelineVars
    <3>4. /\ EventsAhead(goroutines', Tail(loading.events))
          /\ StacksCovered(goroutines', Tail(loading.events), loading.stacks)
      BY <2>1, <2>2, <2>3, <2>4, <2>6, <3>3, AheadTail
    <3>5. LoadingInOrder'
      BY <2>1, <3>4 DEF LoadingInOrder
    <3>6. SegmentTimes' /\ WaitAccounted' /\ SegmentsDisjoint'
      BY <3>3 DEF TimelineInv, SegmentTimes, WaitAccounted, SegmentsDisjoint
    <3>. QED
      BY <1>0, <3>5, <3>6 DEF TimelineInv
  <2>. QED
    BY <2>5, <2>6
<1>6. ASSUME LoadStack PROVE TimelineInv'
  <2>1. /\ SegmentTimes' /\ WaitAccounted' /\ SegmentsDisjoint'
        /\ LoadingInOrder'
    BY <1>0, <1>6, LoadStackTimes
  <2>. QED
    BY <1>0, <2>1 DEF TimelineInv
<1>7. ASSUME LoadEnd PROVE TimelineInv'
  <2>. DEFINE capture == loading.capture
              merged == MergeParents(goroutines, capture.parents)
  <2>1. /\ capture.parents \in [Goroutine -> Goroutine \cup {NoID}]
        /\ capture.labels \in [Goroutine -> Label \cup {NoLabel}]
    <3>1. capture \in Captures
      BY <1>0, <1>7 DEF TypeOK, LoadEnd, MuFree
    <3>. QED
      BY <3>1, CaptureType
  <2>2. /\ goroutines \in [Goroutine -> GoroutineRecord]
        /\ goroutines' = MergeLabels(merged, capture.labels)
        /\ UNCHANGED <<activeSegments, closedSegments>>
        /\ loading' = Unlocked
    BY <1>0, <1>7 DEF LoadEnd, TypeOK
  <2>3. merged \in [Goroutine -> GoroutineRecord]
    BY <2>1, <2>2, MergeParentsType
  <2>. HIDE DEF merged, capture
  <2>4. ASSUME NEW g \in Goroutine
        PROVE  /\ goroutines'[g].state = merged[g].state
               /\ goroutines'[g].waitNS = merged[g].waitNS
               /\ goroutines'[g].lastSeenAt = merged[g].lastSeenAt
    BY ONLY <2>1, <2>2, <2>3, <2>4, LabelsKeepTimes, Zenon
  <2>5. ASSUME NEW g \in Goroutine
        PROVE  /\ merged[g].state = goroutines[g].state
               /\ merged[g].waitNS = goroutines[g].waitNS
               /\ merged[g].lastSeenAt = goroutines[g].lastSeenAt
    BY ONLY <2>1, <2>2, <2>5, ParentsKeepTimes, Zenon DEF merged
  <2>6. SegmentTimes' /\ WaitAccounted' /\ SegmentsDisjoint'
    BY <1>0, <2>2, <2>4, <2>5, QuietTimes
  <2>7. LoadingInOrder'
    BY <2>2 DEF Unlocked, MuFree, LoadingInOrder
  <2>. QED
    BY <1>0, <2>6, <2>7 DEF TimelineInv
<1>8. ASSUME \/ LoadNotify \/ Flush \/ AddProcessorSegments(1) \/ ResourceContention
             \/ GroupByRequest
             \/ \E graph \in EdgeSets : SetResourceGraph(graph)
             \/ \E s \in Subscribers : Subscribe(s) \/ Unsubscribe(s) \/ TakeSignal(s)
      PROVE  TimelineInv'
  <2>1. UNCHANGED <<timelineVars, loading>>
    BY <1>8 DEF LoadNotify, Flush, AddProcessorSegments, ResourceContention,
                GroupByRequest, SetResourceGraph, Subscribe, Unsubscribe, TakeSignal
  <2>. QED
    BY <1>0, <2>1, UntouchedTimes
<1>9. ASSUME NEW ids \in ParentMaps, SetParentIDs(ids) PROVE TimelineInv'
  <2>1. /\ ids \in [Goroutine -> Goroutine \cup {NoID}]
        /\ goroutines \in [Goroutine -> GoroutineRecord]
        /\ goroutines' = MergeParents(goroutines, ids)
        /\ UNCHANGED <<activeSegments, closedSegments, loading>> /\ MuFree
    BY <1>0, <1>9, EngineAssumption DEF TypeOK, SetParentIDs
  <2>2. \A g \in Goroutine :
          /\ goroutines'[g].state = goroutines[g].state
          /\ goroutines'[g].waitNS = goroutines[g].waitNS
          /\ goroutines'[g].lastSeenAt = goroutines[g].lastSeenAt
    BY ONLY <2>1, ParentsKeepTimes, Zenon
  <2>3. SegmentTimes' /\ WaitAccounted' /\ SegmentsDisjoint'
    BY <1>0, <2>1, <2>2, QuietTimes
  <2>4. LoadingInOrder'
    BY <2>1 DEF LoadingInOrder, MuFree
  <2>. QED
    BY <1>0, <2>3, <2>4 DEF TimelineInv
<1>10. ASSUME NEW overrides \in LabelMaps, SetLabelOverrides(overrides)
       PROVE  TimelineInv'
  <2>1. /\ overrides \in [Goroutine -> Label \cup {NoLabel}]
        /\ goroutines \in [Goroutine -> GoroutineRecord]
        /\ goroutines' = MergeLabels(goroutines, overrides)
        /\ UNCHANGED <<activeSegments, closedSegments, loading>> /\ MuFree
    BY <1>0, <1>10, EngineAssumption DEF TypeOK, SetLabelOverrides
  <2>2. \A g \in Goroutine :
          /\ goroutines'[g].state = goroutines[g].state
          /\ goroutines'[g].waitNS = goroutines[g].waitNS
          /\ goroutines'[g].lastSeenAt = goroutines[g].lastSeenAt
    BY ONLY <2>1, LabelsKeepTimes, Zenon
  <2>3. SegmentTimes' /\ WaitAccounted' /\ SegmentsDisjoint'
    BY <1>0, <2>1, <2>2, QuietTimes
  <2>4. LoadingInOrder'
    BY <2>1 DEF LoadingInOrder, MuFree
  <2>. QED
    BY <1>0, <2>3, <2>4 DEF TimelineInv
<1>11. CASE UNCHANGED vars
  BY <1>0, <1>11, UntouchedTimes DEF vars
<1>. QED
  BY <1>1, <1>2, <1>3, <1>4, <1>5, <1>6, <1>7, <1>8, <1>9, <1>10, <1>11 DEF Next

LEMMA TimelineInvariance == CapturesInOrder => (Spec => []TimelineInv)
<1>. SUFFICES ASSUME CapturesInOrder PROVE Spec => []TimelineInv
  OBVIOUS
<1>1. TimelineInv /\ [Next]_vars => TimelineInv'
  BY NextTimeline
<1>. QED
  BY <1>1, InitTimeline, PTL DEF Spec

\* The wait a goroutine is charged with is the time since the wait began, as far
\* as times do not run backwards in a capture (elapsedNS, applyEventLocked).
THEOREM WaitsAccounted == CapturesInOrder => (Spec => []WaitAccounted)
<1>1. TimelineInv => WaitAccounted
  BY DEF TimelineInv
<1>. QED
  BY <1>1, TimelineInvariance, PTL

\* Under the same hypothesis the segments of a goroutine never overlap, whatever
\* is evicted and however a load is interleaved with the readers.
THEOREM SegmentsNeverOverlap == CapturesInOrder => (Spec => []SegmentsDisjoint)
<1>1. TimelineInv => SegmentsDisjoint
  BY DEF TimelineInv
<1>. QED
  BY <1>1, TimelineInvariance, PTL

-----------------------------------------------------------------------------
(* The engine implements Revisions.  Each action maps to one of Revisions or *)
(* leaves what it speaks of alone:                                           *)
(*                                                                           *)
(*   an event of a goroutine, streamed or loaded      Touch                  *)
(*   a stack of a goroutine, streamed or loaded       Amend                  *)
(*   processors, parents, labels, the graph           Amend                  *)
(*   Reset, LoadBegin                                 Clear                  *)
(*   LoadEnd                                          Release                *)
(*   an event or a stack without a goroutine, a query a stutter              *)
(*                                                                           *)
(* What the mapping needs to know of a reachable state: an entry that is not *)
(* tracked is really missing, and a load has reserved the versions it will   *)
(* use, so that the bound never stops it half way.                           *)

UntrackedZero ==
  \A g \in Goroutine : ~ goroutines[g].known => goroutines[g] = ZeroGoroutine

LoadingReserved ==
  ~ MuFree => dataVersion + Len(loading.events) + Len(loading.stacks) <= MaxVersion

RefineInv == TypeOK /\ UntrackedZero /\ LoadingReserved

\* The part of a record that only events write is untouched by a merge ...
LEMMA MergeParentsPart ==
  ASSUME NEW gs \in [Goroutine -> GoroutineRecord],
         NEW ids \in [Goroutine -> Goroutine \cup {NoID}], NEW g \in Goroutine
  PROVE  /\ MergeParents(gs, ids)[g].known = gs[g].known
         /\ EventPart(MergeParents(gs, ids)[g]) = EventPart(gs[g])
         /\ ~ gs[g].known => MergeParents(gs, ids)[g] = gs[g]
<1>1. gs[g] \in GoroutineRecord
  OBVIOUS
<1>. QED
  BY <1>1 DEF MergeParents, GoroutineRecord, EventPart

LEMMA MergeLabelsPart ==
  ASSUME NEW gs \in [Goroutine -> GoroutineRecord],
         NEW overrides \in [Goroutine -> Label \cup {NoLabel}], NEW g \in Goroutine
  PROVE  /\ MergeLabels(gs, overrides)[g].known = gs[g].known
         /\ EventPart(MergeLabels(gs, overrides)[g]) = EventPart(gs[g])
         /\ ~ gs[g].known => MergeLabels(gs, overrides)[g] = gs[g]
<1>1. gs[g] \in GoroutineRecord
  OBVIOUS
<1>. QED
  BY <1>1 DEF MergeLabels, GoroutineRecord, EventPart

\* ... and by a stack, when the goroutine is already tracked.
LEMMA WithStackPart ==
  ASSUME NEW r \in GoroutineRecord, NEW s \in StackSnapshot
  PROVE  /\ WithStack(r, s).known = TRUE
         /\ r.known => EventPart(WithStack(r, s)) = EventPart(r)
BY DEF WithStack, StackSnapshot, GoroutineRecord, EventPart

\* A step that uses one of the versions left leaves room for the others.
LEMMA RoomLeft ==
  ASSUME NEW v \in Nat, NEW n \in Nat, NEW m \in Nat, NEW k \in Nat,
         v + (1 + n + m) <= k
  PROVE  v < k /\ v + 1 + n + m <= k
OBVIOUS

LEMMA RoomUsed ==
  ASSUME NEW v \in Nat, NEW n \in Nat \ {0}, NEW m \in Nat, NEW k \in Nat,
         v + n + m <= k \/ v + m + n <= k, NEW w \in {v, v + 1}
  PROVE  v < k /\ w + (n - 1) + m <= k /\ w + m + (n - 1) <= k
OBVIOUS

LEMMA ZeroUnknown == ZeroGoroutine.known = FALSE
BY DEF ZeroGoroutine

-----------------------------------------------------------------------------
(* The writes *)

\* An event is a Touch of its goroutine, or nothing at all.
LEMMA EventTouches ==
  ASSUME RefineInv, goroutines' \in [Goroutine -> GoroutineRecord],
         dataVersion < MaxVersion,
         NEW raw \in Event, applyEventLocked(raw),
         UNCHANGED <<subscribers, notifyDue>>, MuFree' = MuFree
  PROVE  /\ UntrackedZero'
         /\ \/ \E g \in Goroutine : R!Touch(g)
            \/ UNCHANGED R!revisionsVars
         /\ dataVersion' \in {dataVersion, dataVersion + 1}
<1>. DEFINE e == normalizeEvent(raw)
            next == NextGoroutine(goroutines[e.gid], e)
<1>1. e \in Event /\ e.gid \in Goroutine \cup {NoID}
  <2>1. e \in Event
    BY NormalizeType
  <2>. QED
    BY <2>1 DEF Event
<1>2. CASE e.gid = NoID
  BY <1>2 DEF applyEventLocked, timelineVars, revisionVars, UntrackedZero, RefineInv,
              R!revisionsVars
<1>3. CASE e.gid # NoID
  <2>1. e.gid \in Goroutine /\ goroutines[e.gid] \in GoroutineRecord
    BY <1>1, <1>3 DEF RefineInv, TypeOK
  <2>2. next \in GoroutineRecord /\ next.known = TRUE
    BY <1>1, <2>1, NextGoroutineType, ApplyKnown
  <2>3. /\ goroutines' = [goroutines EXCEPT ![e.gid] = next]
        /\ dataVersion' = dataVersion + 1
        /\ goroutineBornAt' =
             [goroutineBornAt EXCEPT ![e.gid] = IF @ = 0 THEN dataVersion' ELSE @]
        /\ goroutineChangedAt' = [goroutineChangedAt EXCEPT ![e.gid] = dataVersion']
    BY <1>3 DEF applyEventLocked, MarkTouched
  <2>. HIDE DEF e, next
  <2>4. /\ goroutines'[e.gid] = next
        /\ \A h \in Goroutine \ {e.gid} : goroutines'[h] = goroutines[h]
    BY <2>1, <2>3 DEF RefineInv, TypeOK
  <2>5. next # ZeroGoroutine
    BY <2>2, ZeroUnknown
  <2>6. UntrackedZero'
    BY <2>2, <2>4 DEF RefineInv, UntrackedZero
  <2>7. goroutines' \in R!Contents
    BY DEF R!Contents
  <2>8. R!Touch(e.gid)
    BY <2>3, <2>4, <2>5, <2>7 DEF R!Touch, R!Bump
  <2>. QED
    BY <2>1, <2>3, <2>6, <2>8
<1>. QED
  BY <1>2, <1>3

\* A write that keeps tracked goroutines, and their event part, amends them.
LEMMA AmendsStep ==
  ASSUME RefineInv, goroutines' \in [Goroutine -> GoroutineRecord],
         dataVersion < MaxVersion, dataVersion' = dataVersion + 1,
         UNCHANGED <<goroutineBornAt, goroutineChangedAt, subscribers, notifyDue>>,
         MuFree' = MuFree,
         \A g \in Goroutine :
           goroutines[g].known => /\ goroutines'[g].known
                                  /\ EventPart(goroutines'[g]) = EventPart(goroutines[g])
  PROVE  R!Amend
<1>1. goroutines' \in R!Contents
  BY DEF R!Contents
<1>2. ASSUME NEW g \in Goroutine, goroutines[g] # ZeroGoroutine
      PROVE  /\ goroutines'[g] # ZeroGoroutine
             /\ EventPart(goroutines'[g]) = EventPart(goroutines[g])
  <2>1. goroutines[g].known
    BY <1>2 DEF RefineInv, UntrackedZero
  <2>. QED
    BY <2>1, ZeroUnknown
<1>3. R!Amended
  BY <1>1, <1>2 DEF R!Amended
<1>. QED
  BY <1>3 DEF R!Amend, R!Bump

\* A stack amends its goroutine, which it may be the first to track.
LEMMA StackAmends ==
  ASSUME RefineInv, goroutines' \in [Goroutine -> GoroutineRecord],
         dataVersion < MaxVersion,
         NEW s \in StackSnapshot, applyStackSnapshotLocked(s),
         UNCHANGED <<goroutineBornAt, goroutineChangedAt, subscribers, notifyDue>>,
         MuFree' = MuFree
  PROVE  /\ UntrackedZero'
         /\ R!Amend \/ UNCHANGED R!revisionsVars
         /\ dataVersion' \in {dataVersion, dataVersion + 1}
<1>1. CASE s.gid = NoID
  BY <1>1 DEF applyStackSnapshotLocked, RefineInv, UntrackedZero, R!revisionsVars
<1>2. CASE s.gid # NoID
  <2>1. s.gid \in Goroutine
    BY <1>2 DEF StackSnapshot
  <2>2. /\ goroutines' = [goroutines EXCEPT
                            ![s.gid] = WithStack(goroutines[s.gid], s)]
        /\ dataVersion' = dataVersion + 1
    BY <1>2 DEF applyStackSnapshotLocked
  <2>3. /\ goroutines'[s.gid] = WithStack(goroutines[s.gid], s)
        /\ \A h \in Goroutine \ {s.gid} : goroutines'[h] = goroutines[h]
    BY <2>1, <2>2 DEF RefineInv, TypeOK
  <2>4. /\ goroutines'[s.gid].known = TRUE
        /\ goroutines[s.gid].known
             => EventPart(goroutines'[s.gid]) = EventPart(goroutines[s.gid])
    <3>1. goroutines[s.gid] \in GoroutineRecord
      BY <2>1 DEF RefineInv, TypeOK
    <3>. QED
      BY <2>3, <3>1, WithStackPart
  <2>5. UntrackedZero'
    BY <2>3, <2>4 DEF RefineInv, UntrackedZero
  <2>6. R!Amend
    BY <2>2, <2>3, <2>4, AmendsStep
  <2>. QED
    BY <2>2, <2>5, <2>6
<1>. QED
  BY <1>1, <1>2

\* Starting over clears every goroutine and both marks under a new version.
LEMMA ResetClears ==
  ASSUME RefineInv, MuFree, dataVersion < MaxVersion, NEW s \in Session,
         resetLocked(s), UNCHANGED <<subscribers, notifyDue>>
  PROVE  UntrackedZero' /\ \E keepsLock \in BOOLEAN : R!Clear(keepsLock)
<1>1. UntrackedZero'
  BY ZeroUnknown DEF resetLocked, UntrackedZero
<1>2. R!Clear(~ MuFree')
  BY DEF resetLocked, R!Clear, R!Bump
<1>3. (~ MuFree') \in BOOLEAN
  BY Zenon
<1>. QED
  BY <1>1, <1>2, <1>3

\* Installing a capture's parents and labels forgets no goroutine, tracks no new
\* one and moves no state.
LEMMA LoadEndReleases ==
  ASSUME RefineInv, LoadEnd
  PROVE  UntrackedZero' /\ R!Release
<1>. DEFINE capture == loading.capture
            merged == MergeParents(goroutines, capture.parents)
<1>1. /\ capture.parents \in [Goroutine -> Goroutine \cup {NoID}]
      /\ capture.labels \in [Goroutine -> Label \cup {NoLabel}]
  <2>1. capture \in Captures
    BY DEF RefineInv, TypeOK, LoadEnd, MuFree
  <2>. QED
    BY <2>1, CaptureType
<1>2. /\ goroutines \in [Goroutine -> GoroutineRecord]
      /\ goroutines' = MergeLabels(merged, capture.labels)
  BY DEF LoadEnd, RefineInv, TypeOK
<1>3. merged \in [Goroutine -> GoroutineRecord]
  BY <1>1, <1>2, MergeParentsType
<1>. HIDE DEF merged, capture
<1>4. ASSUME NEW g \in Goroutine
      PROVE  /\ goroutines'[g].known = goroutines[g].known
             /\ EventPart(goroutines'[g]) = EventPart(goroutines[g])
             /\ ~ goroutines[g].known => goroutines'[g] = goroutines[g]
  <2>1. /\ goroutines'[g].known = merged[g].known
        /\ EventPart(goroutines'[g]) = EventPart(merged[g])
        /\ ~ merged[g].known => goroutines'[g] = merged[g]
    BY <1>1, <1>2, <1>3, MergeLabelsPart
  <2>2. /\ merged[g].known = goroutines[g].known
        /\ EventPart(merged[g]) = EventPart(goroutines[g])
        /\ ~ goroutines[g].known => merged[g] = goroutines[g]
    BY <1>1, <1>2, MergeParentsPart DEF merged
  <2>. QED
    BY <2>1, <2>2
<1>5. UntrackedZero'
  BY <1>4 DEF RefineInv, UntrackedZero
<1>6. goroutines' \in R!Contents
  <2>1. MergeLabels(merged, capture.labels) \in [Goroutine -> GoroutineRecord]
    BY <1>1, <1>3, MergeLabelsType
  <2>. QED
    BY <1>2, <2>1 DEF R!Contents
<1>7. ASSUME NEW g \in Goroutine
      PROVE  /\ goroutines[g] # ZeroGoroutine
                  => /\ goroutines'[g] # ZeroGoroutine
                     /\ EventPart(goroutines'[g]) = EventPart(goroutines[g])
             /\ goroutines[g] = ZeroGoroutine => goroutines'[g] = ZeroGoroutine
  BY <1>4, ZeroUnknown DEF RefineInv, UntrackedZero
<1>8. ~ MuFree /\ MuFree'
  BY DEF LoadEnd, MuFree, Unlocked
<1>9. R!Release
  BY <1>6, <1>7, <1>8 DEF R!Release, R!Amended, LoadEnd, revisionVars
<1>. QED
  BY <1>5, <1>9

-----------------------------------------------------------------------------
(* Every step *)

LEMMA InitRefines == Init => RefineInv /\ R!RevisionsInit
<1>1. Init => TypeOK
  BY InitType
<1>2. Init => UntrackedZero /\ LoadingReserved
  BY DEF Init, UntrackedZero, LoadingReserved, MuFree, Unlocked
<1>3. Init => R!RevisionsInit
  BY DEF Init, R!RevisionsInit, MuFree, Unlocked
<1>. QED
  BY <1>1, <1>2, <1>3 DEF RefineInv

\* What Revisions can see of a step: nothing, or one of its actions.
Refines == R!RevisionsNext \/ UNCHANGED R!revisionsVars

LEMMA StepRefines ==
  RefineInv /\ [Next]_vars => RefineInv' /\ Refines
<1>. SUFFICES ASSUME RefineInv, [Next]_vars PROVE RefineInv' /\ Refines
  OBVIOUS
<1>. USE DEF timelineVars, stackVars, revisionVars, cacheVars, notifyVars
<1>0. /\ TypeOK /\ TypeOK' /\ dataVersion \in Nat
      /\ goroutines' \in [Goroutine -> GoroutineRecord]
  <2>1. TypeOK /\ TypeOK'
    BY NextType DEF RefineInv
  <2>. QED
    BY <2>1 DEF TypeOK
<1>a. CanBump(1) => dataVersion < MaxVersion
  BY <1>0, EngineAssumption DEF CanBump
<1>c. MaxVersion \in Nat
  BY EngineAssumption
<1>b. UNCHANGED loading /\ MuFree => LoadingReserved'
  BY DEF LoadingReserved, MuFree
<1>1. ASSUME NEW e \in Events, ApplyEvent(e) PROVE RefineInv' /\ Refines
  <2>1. e \in Event /\ applyEventLocked(e) /\ dataVersion < MaxVersion
    BY <1>1, <1>a, EngineAssumption DEF ApplyEvent
  <2>2. UNCHANGED <<subscribers, notifyDue>> /\ MuFree' = MuFree
    BY <1>1 DEF ApplyEvent, MuFree
  <2>3. /\ UntrackedZero'
        /\ \/ \E g \in Goroutine : R!Touch(g)
           \/ UNCHANGED R!revisionsVars
    BY <1>0, <2>1, <2>2, EventTouches
  <2>. QED
    BY <1>0, <1>1, <1>b, <2>3 DEF ApplyEvent, RefineInv, Refines, R!RevisionsNext
<1>2. ASSUME NEW s \in Snapshots, ApplyStackSnapshot(s) PROVE RefineInv' /\ Refines
  <2>1. s \in StackSnapshot /\ applyStackSnapshotLocked(s) /\ dataVersion < MaxVersion
    BY <1>2, <1>a, EngineAssumption DEF ApplyStackSnapshot
  <2>2. /\ UNCHANGED <<goroutineBornAt, goroutineChangedAt, subscribers, notifyDue>>
        /\ MuFree' = MuFree
    BY <1>2 DEF ApplyStackSnapshot, MuFree
  <2>3. UntrackedZero' /\ (R!Amend \/ UNCHANGED R!revisionsVars)
    BY <1>0, <2>1, <2>2, StackAmends
  <2>. QED
    BY <1>0, <1>2, <1>b, <2>3 DEF ApplyStackSnapshot, RefineInv, Refines,
                                  R!RevisionsNext
<1>3. ASSUME NEW s \in Session, Reset(s) PROVE RefineInv' /\ Refines
  <2>1. UntrackedZero' /\ \E keepsLock \in BOOLEAN : R!Clear(keepsLock)
    BY <1>3, <1>a, ResetClears DEF Reset
  <2>. QED
    BY <1>0, <1>3, <1>b, <2>1 DEF Reset, RefineInv, Refines, R!RevisionsNext
<1>4. ASSUME NEW s \in Session, NEW c \in Captures, LoadBegin(s, c)
      PROVE  RefineInv' /\ Refines
  <2>1. /\ Len(c.events) \in Nat /\ Len(c.stacks) \in Nat
        /\ dataVersion + (1 + Len(c.events) + Len(c.stacks)) <= MaxVersion
    <3>1. c.events \in Seq(Event) /\ c.stacks \in Seq(StackSnapshot)
      BY CaptureType
    <3>2. CanBump(1 + Len(c.events) + Len(c.stacks))
      BY ONLY <1>4, Zenon DEF LoadBegin
    <3>3. Len(c.events) \in Nat /\ Len(c.stacks) \in Nat
      BY ONLY <3>1, LenProperties, Zenon
    <3>. QED
      BY ONLY <3>2, <3>3, Zenon DEF CanBump
  <2>2. /\ dataVersion < MaxVersion
        /\ dataVersion + 1 + Len(c.events) + Len(c.stacks) <= MaxVersion
    BY ONLY <1>0, <1>c, <2>1, RoomLeft, Zenon
  <2>3. UntrackedZero' /\ \E keepsLock \in BOOLEAN : R!Clear(keepsLock)
    BY <1>4, <2>2, ResetClears DEF LoadBegin
  <2>4. LoadingReserved'
    <3>1. dataVersion' = dataVersion + 1
      BY <1>4 DEF LoadBegin, resetLocked
    <3>2. loading'.events = c.events /\ loading'.stacks = c.stacks
      BY <1>4 DEF LoadBegin
    <3>. QED
      BY <2>2, <3>1, <3>2 DEF LoadingReserved
  <2>. QED
    BY <1>0, <2>3, <2>4 DEF RefineInv, Refines, R!RevisionsNext
<1>5. ASSUME LoadEvent PROVE RefineInv' /\ Refines
  <2>1. loading.events \in Seq(Event) /\ loading.events # <<>>
    BY <1>0, <1>5 DEF LoadEvent, TypeOK
  <2>2. /\ Head(loading.events) \in Event
        /\ Len(Tail(loading.events)) = Len(loading.events) - 1
        /\ Len(loading.events) \in Nat \ {0}
    BY <2>1
  <2>3. /\ Len(loading.stacks) \in Nat
        /\ dataVersion + Len(loading.events) + Len(loading.stacks) <= MaxVersion
    BY <1>0, <1>5 DEF LoadEvent, TypeOK, RefineInv, LoadingReserved
  <2>4. dataVersion < MaxVersion
    BY <1>0, <1>c, <2>2, <2>3, RoomUsed
  <2>5. /\ loading'.events = Tail(loading.events)
        /\ loading'.stacks = loading.stacks
        /\ MuFree' = MuFree
    BY <1>0, <1>5 DEF LoadEvent, TypeOK, MuFree
  <2>6. /\ UntrackedZero'
        /\ \/ \E g \in Goroutine : R!Touch(g)
           \/ UNCHANGED R!revisionsVars
        /\ dataVersion' \in {dataVersion, dataVersion + 1}
    BY <1>0, <1>5, <2>2, <2>4, <2>5, EventTouches DEF LoadEvent
  <2>7. LoadingReserved'
    BY <1>0, <1>c, <2>2, <2>3, <2>5, <2>6, RoomUsed DEF LoadingReserved
  <2>. QED
    BY <1>0, <2>6, <2>7 DEF RefineInv, Refines, R!RevisionsNext
<1>6. ASSUME LoadStack PROVE RefineInv' /\ Refines
  <2>1. loading.stacks \in Seq(StackSnapshot) /\ loading.stacks # <<>>
    BY <1>0, <1>6 DEF LoadStack, TypeOK
  <2>2. /\ Head(loading.stacks) \in StackSnapshot
        /\ Len(Tail(loading.stacks)) = Len(loading.stacks) - 1
        /\ Len(loading.stacks) \in Nat \ {0}
    BY <2>1
  <2>3. /\ Len(loading.events) \in Nat
        /\ dataVersion + Len(loading.events) + Len(loading.stacks) <= MaxVersion
    BY <1>0, <1>6 DEF LoadStack, TypeOK, RefineInv, LoadingReserved
  <2>4. dataVersion < MaxVersion
    BY <1>0, <1>c, <2>2, <2>3, RoomUsed
  <2>5. /\ loading'.stacks = Tail(loading.stacks)
        /\ loading'.events = loading.events
        /\ MuFree' = MuFree
    BY <1>0, <1>6 DEF LoadStack, TypeOK, MuFree
  <2>6. /\ UntrackedZero'
        /\ R!Amend \/ UNCHANGED R!revisionsVars
        /\ dataVersion' \in {dataVersion, dataVersion + 1}
    BY <1>0, <1>6, <2>2, <2>4, <2>5, StackAmends DEF LoadStack
  <2>7. LoadingReserved'
    BY <1>0, <1>c, <2>2, <2>3, <2>5, <2>6, RoomUsed DEF LoadingReserved
  <2>. QED
    BY <1>0, <2>6, <2>7 DEF RefineInv, Refines, R!RevisionsNext
<1>7. ASSUME LoadEnd PROVE RefineInv' /\ Refines
  <2>1. LoadingReserved'
    BY <1>7 DEF LoadEnd, LoadingReserved, MuFree, Unlocked
  <2>. QED
    BY <1>0, <1>7, <2>1, LoadEndReleases DEF RefineInv, Refines, R!RevisionsNext
<1>8. ASSUME LoadNotify \/ Flush PROVE RefineInv' /\ Refines
  <2>1. R!LoadNotify \/ R!Flush
    BY <1>8 DEF LoadNotify, Flush, notifySubscribers, R!LoadNotify, R!Flush, R!Notify,
                R!storeVars, MuFree
  <2>2. UntrackedZero' /\ LoadingReserved'
    BY <1>8 DEF LoadNotify, Flush, RefineInv, UntrackedZero, LoadingReserved, MuFree
  <2>. QED
    BY <1>0, <2>1, <2>2 DEF RefineInv, Refines, R!RevisionsNext
<1>9. ASSUME AddProcessorSegments(1) PROVE RefineInv' /\ Refines
  <2>1. R!Amend
    BY <1>0, <1>9, <1>a, AmendsStep DEF AddProcessorSegments, MuFree
  <2>. QED
    BY <1>0, <1>9, <1>b, <2>1 DEF AddProcessorSegments, RefineInv, UntrackedZero,
                                  Refines, R!RevisionsNext
<1>10. ASSUME NEW ids \in ParentMaps, SetParentIDs(ids) PROVE RefineInv' /\ Refines
  <2>1. /\ ids \in [Goroutine -> Goroutine \cup {NoID}]
        /\ goroutines \in [Goroutine -> GoroutineRecord]
        /\ goroutines' = MergeParents(goroutines, ids)
    BY <1>0, <1>10, EngineAssumption DEF TypeOK, SetParentIDs
  <2>2. ASSUME NEW g \in Goroutine
        PROVE  /\ goroutines'[g].known = goroutines[g].known
               /\ EventPart(goroutines'[g]) = EventPart(goroutines[g])
               /\ ~ goroutines[g].known => goroutines'[g] = goroutines[g]
    BY <2>1, MergeParentsPart
  <2>3. R!Amend
    BY <1>0, <1>10, <1>a, <2>2, AmendsStep DEF SetParentIDs, MuFree
  <2>4. UntrackedZero'
    BY <2>2 DEF RefineInv, UntrackedZero
  <2>. QED
    BY <1>0, <1>10, <1>b, <2>3, <2>4 DEF SetParentIDs, RefineInv, Refines,
                                         R!RevisionsNext
<1>11. ASSUME NEW overrides \in LabelMaps, SetLabelOverrides(overrides)
       PROVE  RefineInv' /\ Refines
  <2>1. /\ overrides \in [Goroutine -> Label \cup {NoLabel}]
        /\ goroutines \in [Goroutine -> GoroutineRecord]
        /\ goroutines' = MergeLabels(goroutines, overrides)
    BY <1>0, <1>11, EngineAssumption DEF TypeOK, SetLabelOverrides
  <2>2. ASSUME NEW g \in Goroutine
        PROVE  /\ goroutines'[g].known = goroutines[g].known
               /\ EventPart(goroutines'[g]) = EventPart(goroutines[g])
               /\ ~ goroutines[g].known => goroutines'[g] = goroutines[g]
    BY <2>1, MergeLabelsPart
  <2>3. R!Amend
    BY <1>0, <1>11, <1>a, <2>2, AmendsStep DEF SetLabelOverrides, MuFree
  <2>4. UntrackedZero'
    BY <2>2 DEF RefineInv, UntrackedZero
  <2>. QED
    BY <1>0, <1>11, <1>b, <2>3, <2>4 DEF SetLabelOverrides, RefineInv, Refines,
                                         R!RevisionsNext
<1>12. ASSUME NEW graph \in EdgeSets, SetResourceGraph(graph)
       PROVE  RefineInv' /\ Refines
  <2>1. R!Amend
    BY <1>0, <1>12, <1>a, AmendsStep DEF SetResourceGraph, MuFree
  <2>. QED
    BY <1>0, <1>12, <1>b, <2>1 DEF SetResourceGraph, RefineInv, UntrackedZero,
                                   Refines, R!RevisionsNext
<1>13. ASSUME ResourceContention \/ GroupByRequest \/ UNCHANGED vars
       PROVE  RefineInv' /\ Refines
  <2>1. UNCHANGED R!revisionsVars
    BY <1>13 DEF ResourceContention, GroupByRequest, vars, R!revisionsVars, MuFree
  <2>2. UntrackedZero' /\ LoadingReserved'
    BY <1>13 DEF ResourceContention, GroupByRequest, vars, RefineInv, UntrackedZero,
                 LoadingReserved, MuFree
  <2>. QED
    BY <1>0, <2>1, <2>2 DEF RefineInv, Refines
<1>14. ASSUME NEW s \in Subscribers, Subscribe(s) \/ Unsubscribe(s) \/ TakeSignal(s)
       PROVE  RefineInv' /\ Refines
  <2>1. R!Subscribe(s) \/ R!Unsubscribe(s) \/ R!TakeSignal(s)
    BY <1>14 DEF Subscribe, Unsubscribe, TakeSignal, R!Subscribe, R!Unsubscribe,
                 R!TakeSignal, R!storeVars, MuFree
  <2>2. UntrackedZero' /\ LoadingReserved'
    BY <1>14 DEF Subscribe, Unsubscribe, TakeSignal, RefineInv, UntrackedZero,
                 LoadingReserved, MuFree
  <2>. QED
    BY <1>0, <2>1, <2>2 DEF RefineInv, Refines, R!RevisionsNext
<1>. QED
  BY <1>1, <1>2, <1>3, <1>4, <1>5, <1>6, <1>7, <1>8, <1>9, <1>10, <1>11, <1>12,
     <1>13, <1>14 DEF Next

\* The engine implements Revisions: whatever its callers do, a subscriber sees
\* versions, marks and signals that behave as that module says.
THEOREM EngineImplementsRevisions == Spec => ImplementsRevisions
<1>1. RefineInv /\ [Next]_vars => [R!RevisionsNext]_(R!revisionsVars)
  BY StepRefines DEF Refines
<1>2. RefineInv /\ [Next]_vars => RefineInv'
  BY StepRefines
<1>3. Init => RefineInv /\ R!RevisionsInit
  BY InitRefines
<1>. QED
  BY <1>1, <1>2, <1>3, PTL DEF Spec, ImplementsRevisions, R!RevisionsSpec
=============================================================================
