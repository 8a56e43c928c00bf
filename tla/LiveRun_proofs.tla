--------------------------- MODULE LiveRun_proofs ----------------------------
(***************************************************************************)
(* What LiveRun promises for any trace, batch size, labels and uploads:    *)
(* the reader reaches the end of the file, what is pending is flagged, a   *)
(* run archives its session once, the bridge keeps to the order of times   *)
(* that Engine assumes of those who write to it, and the capture that is   *)
(* saved replays to the run that was shown.                                *)
(***************************************************************************)
EXTENDS LiveRun, GoroutineState_proofs, Sums_proofs, SequenceTheorems, TLAPS

\* The reader never runs ahead of the target, and once it takes the file for
\* ended the target is gone and has nothing more to write.
ReadInv ==
  /\ pos \in Nat /\ written \in Nat /\ pos <= written
  /\ ReadToTheEnd

LEMMA ReadInit == LiveInit => ReadInv
BY DEF LiveInit, ReadInv, ReadToTheEnd

LEMMA ReadStep == ReadInv /\ [LiveNext]_allVars => ReadInv'
<1>. SUFFICES ASSUME ReadInv, [LiveNext]_allVars PROVE ReadInv'
  OBVIOUS
<1>. USE DEF ReadInv, ReadToTheEnd
<1>1. CASE Begin
  BY <1>1 DEF Begin, targetVars, readVars
<1>2. CASE CreateFile \/ WriteTrace \/ ExitTarget \/ Cancel
  <2>. USE DEF Outside, targetVars, readVars
  <2>1. CASE CreateFile
    BY <2>1 DEF CreateFile
  <2>2. CASE WriteTrace
    BY <2>2 DEF WriteTrace
  <2>3. CASE ExitTarget
    BY <2>3 DEF ExitTarget
  <2>4. CASE Cancel
    BY <2>4 DEF Cancel
  <2>. QED
    BY <1>2, <2>1, <2>2, <2>3, <2>4
<1>3. CASE StreamStep
  <2>. USE DEF Goto, targetVars, readVars
  <2>1. CASE Open \/ AwaitFile \/ Loop
    BY <2>1 DEF Open, AwaitFile, Loop, StreamFails
  <2>2. CASE Read
    BY <2>2 DEF Read, Consume
  <2>3. CASE Check
    BY <2>3 DEF Check, Consume, StreamFails
  <2>4. CASE Apply1
    BY <2>4 DEF Apply1
  <2>5. CASE Mark \/ Unmark \/ StreamFlush
    BY <2>5 DEF Mark, Unmark, StreamFlush
  <2>6. CASE EmitParents \/ EmitRuns \/ ApplyLabels \/ Finish
    BY <2>6 DEF EmitParents, EmitRuns, ApplyLabels, Finish
  <2>. QED
    BY <1>3, <2>1, <2>2, <2>3, <2>4, <2>5, <2>6 DEF StreamStep
<1>4. CASE TickerStep
  BY <1>4 DEF TickerStep, Tick, TickFlush, TickerStops, TickerOnly, targetVars, readVars
<1>5. CASE StopServer \/ LoadStep \/ LoadNotifies
           \/ \E u \in Uploads : UploadStart(u) \/ UploadLoad(u)
  BY <1>5 DEF StopServer, LoadStep, LoadNotifies, UploadStart, UploadLoad, ServerOnly,
     targetVars, readVars
<1>6. CASE UNCHANGED allVars
  BY <1>6 DEF allVars, liveVars, targetVars, readVars
<1>. QED
  BY <1>1, <1>2, <1>3, <1>4, <1>5, <1>6 DEF LiveNext

\* TailReader looks at the file once more after the target's exit, so a stream
\* that ends without an error has read everything, whatever the target wrote.
THEOREM ReadsToTheEnd == LiveSpec => []ReadToTheEnd
<1>1. ReadInv => ReadToTheEnd
  BY DEF ReadInv
<1>. QED
  BY <1>1, ReadInit, ReadStep, PTL DEF LiveSpec

-----------------------------------------------------------------------------
(* What is pending is flagged *)

VersionOK ==
  /\ dataVersion \in Nat /\ emittedAt \in Nat /\ flushedAt \in Nat
  /\ emittedAt <= dataVersion

Grows == dataVersion' = dataVersion \/ dataVersion' = dataVersion + 1

\* An event is followed by its flag before the loop goes on, and the flag is
\* cleared by a flush or into the ticker's hands.
PendingInv ==
  /\ VersionOK
  /\ pc \in {"start", "open", "await"} => emittedAt = 0
  /\ PendingFlagged

\* No write moves the version back.
LEMMA VersionGrows == LiveNext => Grows
<1>. SUFFICES ASSUME LiveNext PROVE Grows
  OBVIOUS
<1>. USE DEF Grows, vars, revisionVars
<1>1. CASE Begin
  BY <1>1 DEF Begin, Reset, resetLocked
<1>2. CASE CreateFile \/ WriteTrace \/ ExitTarget \/ Cancel
  BY <1>2 DEF CreateFile, WriteTrace, ExitTarget, Cancel, Outside
<1>3. CASE StreamStep
  <2>1. CASE Open \/ AwaitFile \/ Loop \/ Read \/ Check \/ Mark \/ Unmark \/ Finish
    BY <2>1 DEF Open, AwaitFile, Loop, Read, Check, Mark, Unmark, Finish, NoEngine
  <2>2. CASE Apply1
    BY <2>2 DEF Apply1, AddProcessorSegments, ApplyEvent, applyEventLocked, MarkTouched,
       ApplyStackSnapshot, applyStackSnapshotLocked
  <2>3. CASE StreamFlush
    BY <2>3 DEF StreamFlush, Flush
  <2>4. CASE EmitParents \/ EmitRuns \/ ApplyLabels
    BY <2>4 DEF EmitParents, EmitRuns, ApplyLabels, SetParentIDs, AddProcessorSegments,
       SetLabelOverrides
  <2>. QED
    BY <1>3, <2>1, <2>2, <2>3, <2>4 DEF StreamStep
<1>4. CASE TickerStep
  BY <1>4 DEF TickerStep, Tick, TickFlush, TickerStops, Flush
<1>5. CASE LoadStep
  BY <1>5 DEF LoadStep, LoadEvent, LoadStack, LoadEnd, applyEventLocked, MarkTouched,
     applyStackSnapshotLocked
<1>6. CASE LoadNotifies
  BY <1>6 DEF LoadNotifies, LoadNotify
<1>7. CASE StopServer \/ \E u \in Uploads : UploadStart(u) \/ UploadLoad(u)
  BY <1>7 DEF StopServer, UploadStart, UploadLoad, LoadBegin, resetLocked
<1>. QED
  BY <1>1, <1>2, <1>3, <1>4, <1>5, <1>6, <1>7 DEF LiveNext

LEMMA PendingInit == LiveInit => PendingInv
BY DEF LiveInit, Init, PendingInv, VersionOK, PendingFlagged

LEMMA PendingStep == PendingInv /\ [LiveNext]_allVars => PendingInv'
<1>. SUFFICES ASSUME PendingInv, [LiveNext]_allVars PROVE PendingInv'
  OBVIOUS
<1>0. CASE UNCHANGED allVars
  BY <1>0 DEF allVars, vars, revisionVars, liveVars, flushVars, PendingInv, VersionOK,
     PendingFlagged
<1>1. CASE LiveNext
  <2>1. Grows
    BY <1>1, VersionGrows
  <2>2. dataVersion' \in Nat /\ dataVersion <= dataVersion' /\ emittedAt <= dataVersion'
    BY <2>1 DEF Grows, PendingInv, VersionOK
  <2>. USE DEF PendingInv, VersionOK, PendingFlagged, flushVars
  <2>3. CASE Begin
    BY <2>2, <2>3 DEF Begin
  <2>4. CASE CreateFile \/ WriteTrace \/ ExitTarget \/ Cancel
    BY <2>2, <2>4 DEF CreateFile, WriteTrace, ExitTarget, Cancel, Outside
  <2>5. CASE StreamStep
    <3>. USE DEF Goto
    <3>1. CASE Open \/ AwaitFile \/ Loop
      BY <2>2, <3>1 DEF Open, AwaitFile, Loop, StreamFails, NoEngine
    <3>2. CASE Read \/ Check
      BY <2>2, <3>2 DEF Read, Check, Consume, StreamFails, NoEngine
    <3>3. CASE Apply1
      BY <2>2, <3>3 DEF Apply1
    <3>4. CASE Mark \/ Unmark
      BY <2>2, <3>4 DEF Mark, Unmark, NoEngine
    <3>5. CASE StreamFlush
      BY <2>2, <3>5 DEF StreamFlush, Flush, revisionVars
    <3>6. CASE EmitParents \/ EmitRuns \/ ApplyLabels \/ Finish
      BY <2>2, <3>6 DEF EmitParents, EmitRuns, ApplyLabels, Finish, NoEngine
    <3>. QED
      BY <2>5, <3>1, <3>2, <3>3, <3>4, <3>5, <3>6 DEF StreamStep
  <2>6. CASE TickerStep
    BY <2>2, <2>6 DEF TickerStep, Tick, TickFlush, TickerStops, TickerOnly, Flush,
       revisionVars
  <2>7. CASE LoadNotifies
    BY <2>2, <2>7 DEF LoadNotifies, LoadNotify, revisionVars
  <2>8. CASE StopServer \/ LoadStep \/ \E u \in Uploads : UploadStart(u) \/ UploadLoad(u)
    BY <2>2, <2>8 DEF StopServer, LoadStep, UploadStart, UploadLoad, ServerOnly
  <2>. QED
    BY <1>1, <2>3, <2>4, <2>5, <2>6, <2>7, <2>8 DEF LiveNext
<1>. QED
  BY <1>0, <1>1

\* hasPending is set by the stream and cleared by two goroutines: between two
\* transitions, what no notification covers is flagged or in the ticker's hands.
THEOREM PendingIsFlagged == LiveSpec => []PendingFlagged
<1>1. PendingInv => PendingFlagged
  BY DEF PendingInv
<1>. QED
  BY <1>1, PendingInit, PendingStep, PTL DEF LiveSpec

-----------------------------------------------------------------------------
(* A session is archived once *)

\* Until the context is cancelled the stream alone finishes sessions, as its
\* last step.
ArchiveInv ==
  /\ cancelled \in BOOLEAN
  /\ ~ cancelled => \/ history = <<>>
                    \/ pc = "end" /\ Len(history) = 1

LEMMA ArchiveInit == LiveInit => ArchiveInv
BY DEF LiveInit, SessionInit, NewManager, ArchiveInv

\* Starting a session archives nothing, ...
LEMMA StartKeepsHistory == StartSession => history' = history
BY DEF StartSession, Becomes, Started, Manager

\* ... and finishing the active one archives at most one.
LEMMA FinishArchivesOne ==
  ASSUME history = <<>>, FailCurrent \/ CompleteCurrent
  PROVE  history' = <<>> \/ Len(history') = 1
<1>1. ASSUME NEW status, Becomes(Finished(Manager, status))
      PROVE  history' = <<>> \/ Len(history') = 1
  <2>. DEFINE done == [current EXCEPT !.status = status]
  <2>1. history' = history \/ history' = Append(history, done)
    BY <1>1 DEF Becomes, Finished, Manager
  <2>2. Len(Append(<<>>, done)) = 1
    OBVIOUS
  <2>. QED
    BY <2>1, <2>2
<1>. QED
  BY <1>1 DEF FailCurrent, CompleteCurrent

LEMMA ArchiveStep == ArchiveInv /\ [LiveNext]_allVars => ArchiveInv'
<1>. SUFFICES ASSUME ArchiveInv, [LiveNext]_allVars PROVE ArchiveInv'
  OBVIOUS
<1>. USE DEF ArchiveInv, sessionVars
<1>1. CASE Begin
  BY <1>1, StartKeepsHistory DEF Begin
<1>2. CASE CreateFile \/ WriteTrace \/ ExitTarget \/ Cancel
  BY <1>2 DEF CreateFile, WriteTrace, ExitTarget, Cancel, Outside
<1>3. CASE StreamStep
  <2>. USE DEF Goto
  <2>1. CASE AwaitFile
    BY <2>1, FinishArchivesOne DEF AwaitFile
  <2>2. CASE Finish
    BY <2>2, FinishArchivesOne DEF Finish
  <2>3. CASE Open \/ Loop
    BY <2>3 DEF Open, Loop, StreamFails
  <2>4. CASE Read \/ Check
    BY <2>4 DEF Read, Check, Consume, StreamFails
  <2>5. CASE Apply1
    BY <2>5 DEF Apply1
  <2>6. CASE Mark \/ Unmark \/ StreamFlush
    BY <2>6 DEF Mark, Unmark, StreamFlush
  <2>7. CASE EmitParents \/ EmitRuns \/ ApplyLabels
    BY <2>7 DEF EmitParents, EmitRuns, ApplyLabels
  <2>. QED
    BY <1>3, <2>1, <2>2, <2>3, <2>4, <2>5, <2>6, <2>7 DEF StreamStep
<1>4. CASE TickerStep
  BY <1>4 DEF TickerStep, Tick, TickFlush, TickerStops, TickerOnly
<1>5. CASE StopServer
  BY <1>5 DEF StopServer, ServerOnly
<1>6. CASE \E u \in Uploads : UploadStart(u) \/ UploadLoad(u)
  BY <1>6, StartKeepsHistory DEF UploadStart, UploadLoad, ServerOnly
<1>7. CASE LoadStep \/ LoadNotifies
  BY <1>7 DEF LoadStep, LoadNotifies, ServerOnly
<1>8. CASE UNCHANGED allVars
  BY <1>8 DEF allVars, liveVars
<1>. QED
  BY <1>1, <1>2, <1>3, <1>4, <1>5, <1>6, <1>7, <1>8 DEF LiveNext

\* Whatever fails, a run finishes its session in one place only, unless the
\* context is cancelled, when the server finishes it as well.
THEOREM ArchivesOnce == LiveSpec => []ArchivedOnce
<1>1. ArchiveInv => ArchivedOnce
  BY DEF ArchiveInv, ArchivedOnce
<1>. QED
  BY <1>1, ArchiveInit, ArchiveStep, PTL DEF LiveSpec

-----------------------------------------------------------------------------
(* The bridge's calls come in the order of their times *)

LEMMA XMapType ==
  ASSUME NEW to \in GoStates, NEW reason \in STRING
  PROVE  /\ xMapState(to, reason)[1] \in GoroutineStates
         /\ xMapState(to, reason)[2] \in Reason \cup {""}
<1>1. /\ mapWaitingReason(reason)[1] \in GoroutineStates
      /\ mapWaitingReason(reason)[2] \in Reason
  BY UnknownAssumption, TraceAssumption DEF mapWaitingReason, GoroutineStates
<1>. QED
  BY <1>1, UnknownAssumption, TraceAssumption DEF xMapState, GoroutineStates

LEMMA EventOfType ==
  ASSUME NEW b, b.parents \in [Goroutine -> Goroutine \cup {NoID}],
         NEW t \in Transition
  PROVE  /\ EventOf(b, t) \in Event
         /\ EventOf(b, t).ts = t.ts /\ EventOf(b, t).gid = t.gid
<1>. DEFINE state == xMapState(t.to, t.reason)[1]
            reason == xMapState(t.to, t.reason)[2]
<1>1. /\ t.gid \in Goroutine /\ t.ts \in Nat
      /\ b.parents[t.gid] \in Goroutine \cup {NoID}
      /\ t.to \in GoStates /\ t.reason \in STRING
  BY DEF Transition
<1>2. state \in GoroutineStates /\ reason \in Reason \cup {""}
  BY <1>1, XMapType
<1>. HIDE DEF state, reason
<1>. QED
  BY <1>1, <1>2 DEF EventOf, Event, EventKinds, state, reason

LEMMA StackOfType ==
  ASSUME NEW t \in Transition, HasStack(t)
  PROVE  /\ StackOf(t) \in StackSnapshot
         /\ StackOf(t).ts = t.ts /\ StackOf(t).gid = t.gid
BY DEF StackOf, HasStack, Transition, StackSnapshot

LEMMA StreamedParents ==
  ASSUME NEW b, b.parents \in [Goroutine -> Goroutine \cup {NoID}],
         NEW t \in Transition
  PROVE  Streamed(b, t).parents \in [Goroutine -> Goroutine \cup {NoID}]
BY DEF Streamed, Noted, Transition

Call ==
  [op: {"run"}] \cup [op: {"event"}, event: Event]
    \cup [op: {"stack"}, stack: StackSnapshot]

\* The calls of one transition: all at its time, a stack right after its event.
Fits(cs, clock) ==
  /\ cs \in Seq(Call)
  /\ \A i \in 1..Len(cs) :
       /\ cs[i].op = "event" => cs[i].event.ts = clock
                                  /\ cs[i].event.gid \in Goroutine
       /\ cs[i].op = "stack" =>
            /\ cs[i].stack.ts = clock /\ cs[i].stack.gid \in Goroutine
            /\ i > 1 => /\ cs[i - 1].op = "event"
                        /\ cs[i - 1].event.gid = cs[i].stack.gid

LEMMA AtMostOne ==
  ASSUME NEW S, NEW v, NEW c \in BOOLEAN, c => v \in S,
         NEW x, x = IF c THEN <<v>> ELSE <<>>
  PROVE  /\ x \in Seq(S)
         /\ c => Len(x) = 1
         /\ ~ c => Len(x) = 0
         /\ \A i \in 1..Len(x) : x[i] = v
<1>1. CASE c
  <2>1. x = <<v>> /\ v \in S
    BY <1>1
  <2>2. x \in Seq(S) /\ Len(x) = 1 /\ x[1] = v
    BY <2>1
  <2>. QED
    BY <1>1, <2>2
<1>2. CASE ~ c
  <2>1. x = <<>>
    BY <1>2
  <2>2. x \in Seq(S) /\ Len(x) = 0
    BY <2>1
  <2>. QED
    BY <1>2, <2>2
<1>. QED
  BY <1>1, <1>2

LEMMA StreamCallsFit ==
  ASSUME NEW b, b.parents \in [Goroutine -> Goroutine \cup {NoID}],
         NEW t \in Transition, NEW cs, cs = StreamCalls(b, t)
  PROVE  /\ Fits(cs, t.ts)
         /\ cs # <<>> => cs[1].op # "stack"
<1>. DEFINE run == [op |-> "run"]
            event == [op |-> "event", event |-> EventOf(Streamed(b, t), t)]
            stack == [op |-> "stack", stack |-> StackOf(t)]
            runs == t.gid \in b.kept /\ EndedRun(b, t) # {}
            has == Keeps(b, t) /\ HasStack(t)
            x == IF runs THEN <<run>> ELSE <<>>
            y == IF Keeps(b, t) THEN <<event>> ELSE <<>>
            z == IF has THEN <<stack>> ELSE <<>>
<1>1. cs = x \o y \o z
  BY DEF StreamCalls
<1>2. run \in Call /\ run.op = "run"
  BY DEF Call
<1>3. event \in Call /\ event.op = "event" /\ event.event.ts = t.ts
      /\ event.event.gid = t.gid
  BY StreamedParents, EventOfType DEF Call
<1>4. has => /\ stack \in Call /\ stack.op = "stack"
             /\ stack.stack.ts = t.ts /\ stack.stack.gid = t.gid
  BY StackOfType DEF Call
<1>5. t.gid \in Goroutine
  BY DEF Transition
<1>6. runs => Keeps(b, t)
  BY DEF Keeps
<1>7. has => Keeps(b, t)
  OBVIOUS
<1>. HIDE DEF run, event, stack, runs, has
<1>20. runs \in BOOLEAN /\ Keeps(b, t) \in BOOLEAN /\ has \in BOOLEAN
  BY DEF runs, Keeps, has, HasStack
<1>21. /\ x \in Seq(Call) /\ \A i \in 1..Len(x) : x[i] = run
       /\ (runs => Len(x) = 1) /\ (~ runs => Len(x) = 0)
  BY <1>2, <1>20, AtMostOne
<1>22. /\ y \in Seq(Call) /\ \A i \in 1..Len(y) : y[i] = event
       /\ (Keeps(b, t) => Len(y) = 1) /\ (~ Keeps(b, t) => Len(y) = 0)
  BY <1>3, <1>20, AtMostOne
<1>23. /\ z \in Seq(Call) /\ \A i \in 1..Len(z) : z[i] = stack
       /\ (has => Len(z) = 1) /\ (~ has => Len(z) = 0)
  BY <1>4, <1>20, AtMostOne
<1>. HIDE DEF x, y, z
<1>8. /\ x \in Seq(Call) /\ Len(x) \in {0, 1} /\ \A i \in 1..Len(x) : x[i] = run
      /\ y \in Seq(Call) /\ Len(y) \in {0, 1} /\ \A i \in 1..Len(y) : y[i] = event
      /\ z \in Seq(Call) /\ Len(z) \in {0, 1} /\ \A i \in 1..Len(z) : z[i] = stack
      /\ Len(x) = 1 => Len(y) = 1
      /\ Len(z) = 1 => Len(y) = 1 /\ has
  BY <1>21, <1>22, <1>23, <1>6, <1>7
<1>. DEFINE n == Len(x)
            m == Len(y)
            k == Len(z)
<1>9. /\ cs \in Seq(Call) /\ Len(cs) = n + m + k
      /\ \A i \in 1..n : cs[i] = x[i]
      /\ \A i \in 1..m : cs[n + i] = y[i]
      /\ \A i \in 1..k : cs[n + m + i] = z[i]
  <2>1. /\ x \o y \in Seq(Call) /\ Len(x \o y) = n + m
        /\ \A i \in 1..n : (x \o y)[i] = x[i]
        /\ \A i \in 1..m : (x \o y)[n + i] = y[i]
    BY <1>8
  <2>. DEFINE xy == x \o y
  <2>. HIDE DEF xy
  <2>2. /\ xy \o z \in Seq(Call) /\ Len(xy \o z) = n + m + k
        /\ \A i \in 1..(n + m) : (xy \o z)[i] = xy[i]
        /\ \A i \in 1..k : (xy \o z)[n + m + i] = z[i]
    BY <1>8, <2>1 DEF xy
  <2>3. cs = xy \o z
    BY <1>1 DEF xy
  <2>4. n \in Nat /\ m \in Nat
    BY <1>8
  <2>. HIDE DEF n, m, k
  <2>5. /\ \A i \in 1..n : i \in 1..(n + m)
        /\ \A i \in 1..m : n + i \in 1..(n + m)
    BY ONLY <2>4
  <2>. QED
    BY ONLY <2>1, <2>2, <2>3, <2>5 DEF xy
<1>10. ASSUME NEW i \in 1..Len(cs)
       PROVE  \/ i = 1 /\ n = 1 /\ cs[i] = run
              \/ i = n + 1 /\ cs[i] = event
              \/ i = n + 2 /\ cs[i] = stack /\ has /\ cs[i - 1] = event
  <2>1. /\ n \in {0, 1} /\ m \in {0, 1} /\ k \in {0, 1}
        /\ n = 1 => m = 1
        /\ k = 1 => m = 1
        /\ i \in Nat /\ 1 <= i /\ i <= n + m + k
    BY <1>8, <1>9
  <2>2. k = 1 => has
    BY <1>8
  <2>. HIDE DEF n, m, k
  <2>3. CASE i = 1 /\ n = 1
    BY <1>8, <1>9, <2>3 DEF n
  <2>4. CASE i = n + 1
    <3>1. m = 1
      BY ONLY <2>1, <2>4
    <3>2. cs[n + 1] = y[1] /\ y[1] = event
      BY <1>8, <1>9, <3>1 DEF m
    <3>. QED
      BY <2>4, <3>2
  <2>5. CASE i = n + 2
    <3>1. m = 1 /\ k = 1 /\ n + m + 1 = n + 2 /\ i - 1 = n + 1
      BY ONLY <2>1, <2>5
    <3>2. cs[n + 1] = y[1] /\ y[1] = event
      BY <1>8, <1>9, <3>1 DEF m
    <3>3. cs[n + m + 1] = z[1] /\ z[1] = stack
      BY <1>8, <1>9, <3>1 DEF k
    <3>. QED
      BY <2>2, <2>5, <3>1, <3>2, <3>3
  <2>6. (i = 1 /\ n = 1) \/ i = n + 1 \/ i = n + 2
    BY ONLY <2>1
  <2>. QED
    BY <2>3, <2>4, <2>5, <2>6
<1>11. n \in {0, 1}
  BY <1>8
<1>. HIDE DEF n, m, k
<1>12. ASSUME NEW i \in 1..Len(cs)
       PROVE  /\ cs[i].op = "event" => cs[i].event.ts = t.ts
                                         /\ cs[i].event.gid \in Goroutine
              /\ cs[i].op = "stack" =>
                   /\ cs[i].stack.ts = t.ts /\ cs[i].stack.gid \in Goroutine
                   /\ i > 1 => /\ cs[i - 1].op = "event"
                               /\ cs[i - 1].event.gid = cs[i].stack.gid
              /\ i = 1 => cs[i].op # "stack"
  <2>1. CASE cs[i] = run
    BY <1>2, <2>1
  <2>2. CASE cs[i] = event
    BY <1>3, <1>5, <2>2
  <2>3. CASE i = n + 2 /\ cs[i] = stack /\ has /\ cs[i - 1] = event
    <3>1. i # 1
      BY <1>11, <2>3
    <3>. QED
      BY <1>3, <1>4, <1>5, <2>3, <3>1
  <2>. QED
    BY <1>10, <2>1, <2>2, <2>3
<1>13. cs # <<>> => 1 \in 1..Len(cs)
  BY <1>9
<1>. QED
  BY <1>9, <1>12, <1>13 DEF Fits

LEMMA FitsTail ==
  ASSUME NEW cs, NEW clock \in Nat, Fits(cs, clock), cs # <<>>
  PROVE  /\ Fits(Tail(cs), clock)
         /\ Tail(cs) # <<>> => /\ Tail(cs)[1] = cs[2]
                               /\ Tail(cs)[1].op = "stack" =>
                                    /\ cs[1].op = "event"
                                    /\ cs[1].event.gid = cs[2].stack.gid
                                    /\ cs[2].stack.ts = clock
<1>1. cs \in Seq(Call)
  BY DEF Fits
<1>2. /\ Tail(cs) \in Seq(Call) /\ Len(Tail(cs)) = Len(cs) - 1
      /\ Len(cs) \in Nat /\ Len(cs) >= 1
      /\ \A i \in 1..Len(Tail(cs)) : Tail(cs)[i] = cs[i + 1]
  BY <1>1, HeadTailProperties, LenProperties, EmptySeq
<1>3. ASSUME NEW i \in 1..Len(Tail(cs))
      PROVE  /\ Tail(cs)[i] = cs[i + 1] /\ i + 1 \in 1..Len(cs)
             /\ i > 1 => Tail(cs)[i - 1] = cs[i] /\ (i + 1) - 1 = i
             /\ i = 1 => i + 1 = 2 /\ (i + 1) - 1 = 1
             /\ i + 1 > 1
  <2>1. i \in Nat /\ 1 <= i /\ i <= Len(cs) - 1
    BY <1>2
  <2>2. i + 1 \in 1..Len(cs) /\ (i + 1) - 1 = i /\ i + 1 > 1
        /\ (i > 1 => i - 1 \in 1..(Len(cs) - 1) /\ (i - 1) + 1 = i)
    BY ONLY <2>1, <1>2
  <2>. QED
    BY <1>2, <2>2
<1>4. ASSUME NEW i \in 1..Len(Tail(cs))
      PROVE  /\ Tail(cs)[i].op = "event" => Tail(cs)[i].event.ts = clock
                                              /\ Tail(cs)[i].event.gid \in Goroutine
             /\ Tail(cs)[i].op = "stack" =>
                  /\ Tail(cs)[i].stack.ts = clock
                  /\ Tail(cs)[i].stack.gid \in Goroutine
                  /\ cs[i].op = "event" /\ cs[i].event.gid = Tail(cs)[i].stack.gid
  <2>1. /\ cs[i + 1].op = "event" => cs[i + 1].event.ts = clock
                                       /\ cs[i + 1].event.gid \in Goroutine
        /\ cs[i + 1].op = "stack" =>
             /\ cs[i + 1].stack.ts = clock /\ cs[i + 1].stack.gid \in Goroutine
             /\ i + 1 > 1 => /\ cs[(i + 1) - 1].op = "event"
                             /\ cs[(i + 1) - 1].event.gid = cs[i + 1].stack.gid
    BY <1>3 DEF Fits
  <2>2. (i + 1) - 1 = i
    BY <1>3, <1>2
  <2>. QED
    BY <1>3, <2>1, <2>2
<1>5. Fits(Tail(cs), clock)
  BY <1>2, <1>3, <1>4 DEF Fits
<1>6. ASSUME Tail(cs) # <<>>
      PROVE  1 \in 1..Len(Tail(cs)) /\ 1 + 1 = 2
  BY <1>2, <1>6, EmptySeq
<1>. QED
  BY <1>3, <1>4, <1>5, <1>6

-----------------------------------------------------------------------------
(* The engine behind the bridge, while nothing is uploaded *)

Clock == IF pos = 0 THEN 0 ELSE trace[pos].ts

\* What the reader holds: calls that fit the transition read last.
CallsInv ==
  /\ trace \in Traces
  /\ written \in Nat /\ written <= Len(trace)
  /\ pos \in Nat /\ pos <= written
  /\ builder.parents \in [Goroutine -> Goroutine \cup {NoID}]
  /\ Fits(calls, Clock)
  /\ pc = "apply" => calls # <<>>
  /\ uploads = [u \in Uploads |-> [step |-> uploads[u].step, id |-> uploads[u].id]]

\* What the engine holds: nothing newer than that transition, and a stack that is
\* to come meets the event it came with.
Ready ==
  /\ MuFree
  /\ goroutines \in [Goroutine -> GoroutineRecord]
  /\ \A g \in Goroutine : goroutines[g].lastSeenAt <= Clock
  /\ calls # <<>> /\ calls[1].op = "stack" =>
       LET g == goroutines[calls[1].stack.gid]
       IN  g.known => calls[1].stack.ts <= g.lastSeenAt

OrderInv == CallsInv /\ (Undisturbed => Ready)

LEMMA ClockType ==
  ASSUME CallsInv
  PROVE  /\ Clock \in Nat
         /\ pos < written => /\ trace[pos + 1] \in Transition
                             /\ trace[pos + 1].ts \in Nat
                             /\ Clock <= trace[pos + 1].ts
<1>1. /\ trace \in Seq(Transition) /\ Len(trace) \in Nat
      /\ \A i, j \in 1..Len(trace) : i < j => trace[i].ts <= trace[j].ts
  BY LiveAssumption, LenProperties DEF CallsInv, TraceInOrder
<1>2. written \in Nat /\ pos \in Nat /\ pos <= written /\ written <= Len(trace)
  BY DEF CallsInv
<1>. DEFINE n == Len(trace)
<1>6. \A t \in Transition : t.ts \in Nat
  BY DEF Transition
<1>7. \A i \in 1..n : trace[i] \in Transition
  BY <1>1, ElementOfSeq
<1>3. \A i \in 1..n : trace[i] \in Transition /\ trace[i].ts \in Nat
  BY ONLY <1>6, <1>7
<1>. HIDE DEF n
<1>4. n \in Nat /\ pos <= n
      /\ (pos # 0 => pos \in 1..n)
      /\ (pos < written => pos + 1 \in 1..n /\ pos < pos + 1)
  <2>1. n \in Nat /\ written <= n
    BY <1>1, <1>2 DEF n
  <2>. QED
    BY ONLY <1>2, <2>1
<1>5. \A i, j \in 1..n : i < j => trace[i].ts <= trace[j].ts
  BY <1>1 DEF n
<1>. QED
  BY <1>3, <1>4, <1>5 DEF Clock

LEMMA OrderInit == LiveInit => OrderInv
<1>. SUFFICES ASSUME LiveInit PROVE OrderInv
  OBVIOUS
<1>1. /\ goroutines = [g \in Goroutine |-> ZeroGoroutine] /\ MuFree
      /\ trace \in Traces /\ written = 0 /\ pos = 0 /\ calls = <<>> /\ pc = "start"
      /\ builder = NewBuilder
      /\ uploads = [u \in Uploads |-> [step |-> "idle", id |-> 0]]
  BY DEF LiveInit, Init, MuFree, Unlocked
<1>2. Len(trace) \in Nat /\ 0 <= Len(trace)
  BY <1>1, LiveAssumption, LenProperties DEF TraceInOrder
<1>3. Fits(<<>>, 0)
  <2>1. <<>> \in Seq(Call) /\ Len(<<>>) = 0
    BY EmptySeq
  <2>2. 1..0 = {}
    OBVIOUS
  <2>. QED
    BY <2>1, <2>2 DEF Fits
<1>4. CallsInv
  BY <1>1, <1>2, <1>3 DEF CallsInv, Clock, NewBuilder
<1>5. Ready
  <2>1. ZeroGoroutine.lastSeenAt = 0 /\ 0 <= 0
    BY DEF ZeroGoroutine
  <2>2. Clock = 0
    BY <1>1 DEF Clock
  <2>3. \A g \in Goroutine : goroutines[g].lastSeenAt <= Clock
    BY <1>1, <2>1, <2>2, Zenon
  <2>4. goroutines \in [Goroutine -> GoroutineRecord]
    BY <1>1, ZeroGoroutineType, Zenon
  <2>. QED
    BY <1>1, <2>3, <2>4 DEF Ready
<1>. QED
  BY <1>4, <1>5 DEF OrderInv

\* A step that leaves the reader alone keeps what it holds.
LEMMA CallsQuiet ==
  ASSUME CallsInv, UNCHANGED <<trace, readVars>>, written' \in Nat,
         written <= written', written' <= Len(trace),
         pc' = "apply" => pc = "apply",
         UNCHANGED uploads
  PROVE  CallsInv' /\ Clock' = Clock
<1>1. Clock' = Clock
  BY DEF Clock, readVars
<1>2. pos' \in Nat /\ pos' <= written'
  BY DEF CallsInv, readVars
<1>3. Fits(calls', Clock')
  BY <1>1 DEF CallsInv, readVars
<1>. QED
  BY <1>1, <1>2, <1>3 DEF CallsInv, readVars

LEMMA FirstCall ==
  ASSUME NEW cs, NEW clock, Fits(cs, clock), cs # <<>>
  PROVE  /\ cs[1] \in Call
         /\ cs[1].op = "event" => cs[1].event.ts = clock
                                    /\ cs[1].event.gid \in Goroutine
         /\ cs[1].op = "stack" =>
              cs[1].stack.ts = clock /\ cs[1].stack.gid \in Goroutine
<1>1. cs \in Seq(Call)
  BY DEF Fits
<1>2. 1 \in 1..Len(cs)
  BY <1>1, EmptySeq, LenProperties
<1>. QED
  BY <1>1, <1>2, ElementOfSeq DEF Fits

\* A step that leaves the times of the goroutines alone, the calls and the lock.
LEMMA ReadyQuiet ==
  ASSUME CallsInv, Ready, goroutines' \in [Goroutine -> GoroutineRecord],
         UNCHANGED calls, Clock' = Clock, MuFree',
         \A g \in Goroutine : /\ goroutines'[g].lastSeenAt = goroutines[g].lastSeenAt
                              /\ goroutines'[g].known = goroutines[g].known
  PROVE  Ready'
<1>1. \A g \in Goroutine : goroutines'[g].lastSeenAt <= Clock'
  BY DEF Ready
<1>2. ASSUME calls # <<>>, calls[1].op = "stack"
      PROVE  calls[1].stack.gid \in Goroutine
  BY <1>2, FirstCall DEF CallsInv
<1>3. calls # <<>> /\ calls[1].op = "stack" =>
        LET g == goroutines'[calls[1].stack.gid]
        IN  g.known => calls[1].stack.ts <= g.lastSeenAt
  BY <1>2 DEF Ready
<1>. QED
  BY <1>1, <1>3 DEF Ready

LEMMA ConsumeFits ==
  ASSUME CallsInv, pos < written, Consume, UNCHANGED <<trace, written, uploads>>
  PROVE  /\ CallsInv' /\ Clock <= Clock' /\ Clock' \in Nat
         /\ calls' # <<>> => calls'[1].op # "stack"
<1>1. /\ Clock \in Nat /\ trace[pos + 1] \in Transition
      /\ trace[pos + 1].ts \in Nat /\ Clock <= trace[pos + 1].ts
  BY ClockType
<1>2. /\ pos' = pos + 1 /\ builder' = Streamed(builder, trace[pos + 1])
      /\ calls' = StreamCalls(builder, trace[pos + 1])
      /\ pc' = IF calls' = <<>> THEN "loop" ELSE "apply"
  BY DEF Consume, Goto
<1>3. pos \in Nat /\ written \in Nat
  BY DEF CallsInv
<1>4. pos' \in Nat /\ pos' # 0 /\ pos' <= written
  BY ONLY <1>2, <1>3, pos < written
<1>5. Clock' = trace[pos + 1].ts
  BY <1>2, <1>4 DEF Clock
<1>6. builder.parents \in [Goroutine -> Goroutine \cup {NoID}]
  BY DEF CallsInv
<1>7. builder'.parents \in [Goroutine -> Goroutine \cup {NoID}]
  BY <1>1, <1>2, <1>6, StreamedParents
<1>8. /\ Fits(calls', Clock')
      /\ calls' # <<>> => calls'[1].op # "stack"
  BY <1>1, <1>2, <1>5, <1>6, StreamCallsFit
<1>9. pc' = "apply" => calls' # <<>>
  BY <1>2
<1>10. CallsInv'
  BY <1>4, <1>7, <1>8, <1>9 DEF CallsInv
<1>. QED
  BY <1>1, <1>5, <1>8, <1>10

LEMMA CallsStep == CallsInv /\ [LiveNext]_allVars => CallsInv'
<1>. SUFFICES ASSUME CallsInv, [LiveNext]_allVars PROVE CallsInv'
  OBVIOUS
<1>0. written \in Nat /\ written <= Len(trace) /\ written <= written
  BY DEF CallsInv
<1>1. CASE Begin
  BY <1>0, <1>1, CallsQuiet DEF Begin, targetVars
<1>2. CASE CreateFile \/ ExitTarget \/ Cancel
  BY <1>0, <1>2, CallsQuiet DEF CreateFile, ExitTarget, Cancel, Outside, targetVars
<1>3. CASE WriteTrace
  <2>1. trace \in Seq(Transition)
    BY LiveAssumption DEF CallsInv, TraceInOrder
  <2>2. Len(trace) \in Nat
    BY <2>1, LenProperties
  <2>. DEFINE n == Len(trace)
  <2>3. written < n /\ written' = written + 1 /\ n \in Nat /\ written \in Nat
    BY <1>0, <1>3, <2>2 DEF WriteTrace
  <2>. HIDE DEF n
  <2>4. written' \in Nat /\ written <= written' /\ written' <= n
    BY ONLY <2>3
  <2>. QED
    BY <1>3, <2>4, CallsQuiet DEF WriteTrace, Outside, n
<1>4. CASE Read
  BY <1>0, <1>4, ConsumeFits, CallsQuiet DEF Read, Consume, Goto, targetVars
<1>5. CASE Check
  <2>1. CASE exited # "no" /\ pos < written
    <3>1. pos # written
      BY <2>1 DEF CallsInv
    <3>2. Consume
      BY <1>5, <2>1, <3>1 DEF Check
    <3>3. UNCHANGED <<trace, written, uploads>>
      BY <3>2 DEF Consume, Goto, targetVars
    <3>. QED
      BY <2>1, <3>2, <3>3, ConsumeFits
  <2>2. CASE ~ (exited # "no" /\ pos < written)
    BY <1>0, <1>5, <2>2, CallsQuiet DEF Check, StreamFails, Goto, targetVars
  <2>. QED
    BY <2>1, <2>2
<1>6. CASE Apply1
  <2>1. /\ UNCHANGED <<trace, written, pos, builder, uploads>>
        /\ calls # <<>> /\ calls' = Tail(calls)
        /\ pc' = IF calls' = <<>> THEN "mark" ELSE "apply"
    BY <1>6 DEF Apply1, Goto, targetVars, CallsInv
  <2>2. Clock \in Nat /\ Fits(calls, Clock) /\ Clock' = Clock
    BY <2>1, ClockType DEF CallsInv, Clock
  <2>3. Fits(calls', Clock')
    BY <2>1, <2>2, FitsTail
  <2>. QED
    BY <2>1, <2>3 DEF CallsInv
<1>7. CASE Open \/ AwaitFile \/ Loop \/ Mark \/ Unmark \/ StreamFlush
           \/ EmitParents \/ EmitRuns \/ ApplyLabels \/ Finish
  <2>. DEFINE Quiet == UNCHANGED <<trace, readVars, written, uploads>> /\ pc' # "apply"
  <2>. USE DEF Goto, targetVars
  <2>2. Open \/ AwaitFile \/ Loop => Quiet
    BY DEF Open, AwaitFile, Loop, StreamFails
  <2>3. Mark \/ Unmark \/ StreamFlush => Quiet
    BY DEF Mark, Unmark, StreamFlush
  <2>4. EmitParents \/ EmitRuns \/ ApplyLabels \/ Finish => Quiet
    BY DEF EmitParents, EmitRuns, ApplyLabels, Finish
  <2>1. Quiet
    BY <1>7, <2>2, <2>3, <2>4
  <2>. QED
    BY <1>0, <2>1, CallsQuiet
<1>8. CASE TickerStep
  BY <1>0, <1>8, CallsQuiet DEF TickerStep, Tick, TickFlush, TickerStops, TickerOnly,
     targetVars
<1>9. CASE StopServer \/ LoadStep \/ LoadNotifies
  BY <1>0, <1>9, CallsQuiet DEF StopServer, LoadStep, LoadNotifies, ServerOnly,
     targetVars
<1>10. CASE \E u \in Uploads : UploadStart(u) \/ UploadLoad(u)
  <2>1. UNCHANGED <<trace, written, pos, builder, calls, pc>>
    BY <1>10 DEF UploadStart, UploadLoad, ServerOnly, targetVars, readVars
  <2>2. Clock' = Clock
    BY <2>1 DEF Clock
  <2>3. uploads = [u \in Uploads |-> [step |-> uploads[u].step, id |-> uploads[u].id]]
    BY DEF CallsInv
  <2>4. ASSUME NEW u \in Uploads, UploadStart(u) \/ UploadLoad(u)
        PROVE  uploads' = [v \in Uploads |->
                             [step |-> uploads'[v].step, id |-> uploads'[v].id]]
    <3>1. CASE UploadStart(u)
      BY <2>3, <3>1 DEF UploadStart
    <3>2. CASE UploadLoad(u)
      BY <2>3, <3>2 DEF UploadLoad
    <3>. QED
      BY <2>4, <3>1, <3>2
  <2>. QED
    BY <1>10, <2>1, <2>2, <2>4 DEF CallsInv
<1>11. CASE UNCHANGED allVars
  BY <1>0, <1>11, CallsQuiet DEF allVars, liveVars, targetVars
<1>. QED
  BY <1>1, <1>2, <1>3, <1>4, <1>5, <1>6, <1>7, <1>8, <1>9, <1>10, <1>11
     DEF LiveNext, StreamStep

LEMMA ApplyEventReady ==
  ASSUME CallsInv, Ready, calls # <<>>, calls[1].op = "event", calls' = Tail(calls),
         Clock' = Clock, ApplyEvent(calls[1].event)
  PROVE  Ready'
<1>. DEFINE e == calls[1].event
            event == normalizeEvent(e)
            next == NextGoroutine(goroutines[e.gid], event)
<1>1. /\ Clock \in Nat /\ Fits(calls, Clock) /\ calls[1] \in Call
      /\ e.ts = Clock /\ e.gid \in Goroutine
  BY ClockType, FirstCall DEF CallsInv
<1>2. e \in Event
  BY <1>1 DEF Call
<1>3. e.gid \in Goroutine
  BY <1>1
<1>4. event \in Event /\ event.gid = e.gid /\ event.ts = Clock
  BY <1>1, <1>2, NormalizeType
<1>5. goroutines[e.gid] \in GoroutineRecord
  BY <1>3 DEF Ready
<1>6. /\ next \in GoroutineRecord
      /\ event.ts # 0 => next.lastSeenAt = event.ts
      /\ event.ts = 0 => next.lastSeenAt = goroutines[e.gid].lastSeenAt
  BY <1>4, <1>5, NextGoroutineType, NextGoroutineSeen
<1>7. e.gid # NoID
  BY <1>3, NoIDAssumption
<1>8. goroutines' = [goroutines EXCEPT ![e.gid] = next] /\ MuFree'
  BY <1>4, <1>7 DEF ApplyEvent, applyEventLocked, MuFree
<1>9. goroutines[e.gid].lastSeenAt \in Nat /\ goroutines[e.gid].lastSeenAt <= Clock
  BY <1>3, <1>5 DEF Ready, GoroutineRecord
<1>. HIDE DEF next, event
<1>10. next.lastSeenAt = Clock
  BY ONLY <1>1, <1>4, <1>6, <1>9, SMT
<1>11. /\ goroutines' \in [Goroutine -> GoroutineRecord]
       /\ \A g \in Goroutine : goroutines'[g] =
            IF g = e.gid THEN next ELSE goroutines[g]
  BY <1>3, <1>6, <1>8 DEF Ready
<1>12. Clock <= Clock
  BY <1>1
<1>13. \A g \in Goroutine : goroutines'[g].lastSeenAt <= Clock'
  BY <1>10, <1>11, <1>12 DEF Ready
<1>14. ASSUME calls' # <<>>, calls'[1].op = "stack"
       PROVE  LET g == goroutines'[calls'[1].stack.gid]
              IN  g.known => calls'[1].stack.ts <= g.lastSeenAt
  <2>1. calls'[1].stack.gid = e.gid /\ calls'[1].stack.ts = Clock
    BY <1>1, <1>14, FitsTail
  <2>. QED
    BY <2>1, <1>3, <1>10, <1>11, <1>12
<1>. QED
  BY <1>8, <1>11, <1>13, <1>14 DEF Ready

LEMMA ApplyStackReady ==
  ASSUME CallsInv, Ready, calls # <<>>, calls[1].op = "stack", calls' = Tail(calls),
         Clock' = Clock, ApplyStackSnapshot(calls[1].stack)
  PROVE  Ready'
<1>. DEFINE s == calls[1].stack
            next == WithStack(goroutines[s.gid], s)
<1>1. /\ Clock \in Nat /\ Fits(calls, Clock) /\ calls[1] \in Call
      /\ s.ts = Clock /\ s.gid \in Goroutine
  BY ClockType, FirstCall DEF CallsInv
<1>2. s \in StackSnapshot
  BY <1>1 DEF Call
<1>3. goroutines[s.gid] \in GoroutineRecord /\ goroutines[s.gid].lastSeenAt <= Clock
  BY <1>1 DEF Ready
<1>4. next \in GoroutineRecord /\ next.lastSeenAt \in {goroutines[s.gid].lastSeenAt, s.ts}
  BY <1>2, <1>3, WithStackType, WithStackSeenAt
<1>5. s.gid # NoID
  BY <1>1, NoIDAssumption
<1>6. goroutines' = [goroutines EXCEPT ![s.gid] = next] /\ MuFree'
  BY <1>5 DEF ApplyStackSnapshot, applyStackSnapshotLocked, MuFree
<1>7. Clock <= Clock
  BY <1>1
<1>8. next.lastSeenAt <= Clock
  BY <1>1, <1>3, <1>4, <1>7
<1>. HIDE DEF next
<1>9. /\ goroutines' \in [Goroutine -> GoroutineRecord]
      /\ \A g \in Goroutine : goroutines'[g].lastSeenAt <= Clock'
  BY <1>1, <1>4, <1>6, <1>8 DEF Ready
<1>10. calls' # <<>> => calls'[1].op # "stack"
  BY <1>1, FitsTail
<1>. QED
  BY <1>6, <1>9, <1>10 DEF Ready

LEMMA MergedTimes ==
  ASSUME NEW gs \in [Goroutine -> GoroutineRecord],
         NEW ids \in [Goroutine -> Goroutine \cup {NoID}],
         NEW labels \in [Goroutine -> Label \cup {NoLabel}]
  PROVE  /\ MergeParents(gs, ids) \in [Goroutine -> GoroutineRecord]
         /\ MergeLabels(gs, labels) \in [Goroutine -> GoroutineRecord]
         /\ \A g \in Goroutine :
              /\ MergeParents(gs, ids)[g].lastSeenAt = gs[g].lastSeenAt
              /\ MergeParents(gs, ids)[g].known = gs[g].known
              /\ MergeLabels(gs, labels)[g].lastSeenAt = gs[g].lastSeenAt
              /\ MergeLabels(gs, labels)[g].known = gs[g].known
<1>1. ASSUME NEW r \in GoroutineRecord, NEW p \in Goroutine \cup {NoID}
      PROVE  LET q == [r EXCEPT !.parent = p]
             IN  /\ q \in GoroutineRecord
                 /\ q.lastSeenAt = r.lastSeenAt /\ q.known = r.known
  BY DEF GoroutineRecord
<1>2. ASSUME NEW r \in GoroutineRecord, NEW l \in Label \cup {NoLabel}
      PROVE  LET q == [r EXCEPT !.label = OverrideLabel(l, @)]
             IN  /\ q \in GoroutineRecord
                 /\ q.lastSeenAt = r.lastSeenAt /\ q.known = r.known
  BY DEF GoroutineRecord, OverrideLabel
<1>. QED
  BY <1>1, <1>2 DEF MergeParents, MergeLabels

\* Only an upload ends the quiet.
LEMMA StaysAlone ==
  ASSUME CallsInv, LiveNext, Undisturbed'
  PROVE  Undisturbed /\ \A u \in Uploads : ~ UploadStart(u) /\ ~ UploadLoad(u)
<1>1. \A u \in Uploads : ~ UploadStart(u) /\ ~ UploadLoad(u)
  <2>. SUFFICES ASSUME NEW u \in Uploads, UploadStart(u) \/ UploadLoad(u)
                PROVE  uploads'[u].step # "idle"
    BY DEF Undisturbed
  <2>1. uploads = [v \in Uploads |-> [step |-> uploads[v].step, id |-> uploads[v].id]]
    BY DEF CallsInv
  <2>. QED
    BY <2>1 DEF UploadStart, UploadLoad
<1>2. UNCHANGED uploads
  <2>1. CASE Begin \/ CreateFile \/ WriteTrace \/ ExitTarget \/ Cancel
    BY <2>1 DEF Begin, CreateFile, WriteTrace, ExitTarget, Cancel, Outside
  <2>2. CASE Open \/ AwaitFile \/ Loop \/ Read \/ Check
    BY <2>2 DEF Open, AwaitFile, Loop, Read, Check, Consume, StreamFails, Goto
  <2>3. CASE Apply1 \/ Mark \/ Unmark \/ StreamFlush
    BY <2>3 DEF Apply1, Mark, Unmark, StreamFlush, Goto
  <2>4. CASE EmitParents \/ EmitRuns \/ ApplyLabels \/ Finish
    BY <2>4 DEF EmitParents, EmitRuns, ApplyLabels, Finish, Goto
  <2>5. CASE TickerStep
    BY <2>5 DEF TickerStep, Tick, TickFlush, TickerStops, TickerOnly
  <2>6. CASE StopServer \/ LoadStep \/ LoadNotifies
    BY <2>6 DEF StopServer, LoadStep, LoadNotifies
  <2>. QED
    BY <1>1, <2>1, <2>2, <2>3, <2>4, <2>5, <2>6 DEF LiveNext, StreamStep
<1>. QED
  BY <1>1, <1>2 DEF Undisturbed

LEMMA ReadyStep ==
  ASSUME OrderInv, LiveNext, Undisturbed'
  PROVE  Ready'
<1>1. Undisturbed /\ \A u \in Uploads : ~ UploadStart(u) /\ ~ UploadLoad(u)
  BY StaysAlone DEF OrderInv
<1>3. CallsInv /\ Ready /\ CallsInv'
  BY <1>1, CallsStep DEF OrderInv
<1>4. /\ Clock \in Nat /\ goroutines \in [Goroutine -> GoroutineRecord] /\ MuFree
      /\ builder.parents \in [Goroutine -> Goroutine \cup {NoID}]
  BY <1>3, ClockType DEF Ready, CallsInv
<1>. DEFINE Idle == UNCHANGED <<trace, readVars, goroutines, loading>>
<1>5. ASSUME Idle PROVE Ready'
  BY <1>3, <1>4, <1>5, ReadyQuiet DEF Clock, readVars, MuFree
<1>6. CASE Begin
  <2>1. /\ UNCHANGED <<trace, readVars, loading>>
        /\ goroutines' = [g \in Goroutine |-> ZeroGoroutine]
    BY <1>6 DEF Begin, Reset, resetLocked, targetVars
  <2>2. Clock' = Clock /\ MuFree'
    BY <1>4, <2>1 DEF Clock, readVars, MuFree
  <2>3. ZeroGoroutine.lastSeenAt = 0 /\ ZeroGoroutine.known = FALSE /\ 0 <= Clock
    BY <1>4 DEF ZeroGoroutine
  <2>4. goroutines' \in [Goroutine -> GoroutineRecord]
    BY <2>1, ZeroGoroutineType, Zenon
  <2>5. \A g \in Goroutine : goroutines'[g].lastSeenAt <= Clock'
    BY <2>1, <2>2, <2>3
  <2>6. ASSUME calls' # <<>>, calls'[1].op = "stack"
        PROVE  goroutines'[calls'[1].stack.gid].known = FALSE
    BY <1>3, <2>1, <2>3, <2>6, FirstCall DEF CallsInv
  <2>. QED
    BY <2>2, <2>4, <2>5, <2>6 DEF Ready
<1>7. CASE CreateFile \/ WriteTrace \/ ExitTarget \/ Cancel
  BY <1>5, <1>7 DEF CreateFile, WriteTrace, ExitTarget, Cancel, Outside, vars,
     timelineVars, targetVars
<1>8. CASE Open \/ AwaitFile \/ Loop \/ Mark \/ Unmark \/ StreamFlush \/ EmitRuns
           \/ Finish
  <2>. USE DEF Goto, NoEngine, vars, timelineVars, targetVars
  <2>1. Open \/ AwaitFile \/ Loop => Idle
    BY DEF Open, AwaitFile, Loop, StreamFails
  <2>2. Mark \/ Unmark \/ StreamFlush => Idle
    BY DEF Mark, Unmark, StreamFlush, Flush
  <2>3. EmitRuns \/ Finish => Idle
    BY DEF EmitRuns, Finish, AddProcessorSegments
  <2>. QED
    BY <1>5, <1>8, <2>1, <2>2, <2>3
<1>9. CASE Read \/ Check
  <2>1. /\ UNCHANGED <<trace, written, uploads, goroutines, loading>>
        /\ UNCHANGED readVars \/ (Consume /\ pos < written)
    BY <1>9 DEF Read, Check, Consume, StreamFails, Goto, NoEngine, vars, timelineVars,
       targetVars
  <2>2. CASE UNCHANGED readVars
    BY <1>5, <2>1, <2>2
  <2>3. CASE Consume /\ pos < written
    <3>1. /\ Clock <= Clock' /\ Clock' \in Nat
          /\ calls' # <<>> => calls'[1].op # "stack"
      BY <1>3, <2>1, <2>3, ConsumeFits
    <3>2. \A g \in Goroutine : goroutines[g].lastSeenAt \in Nat
                               /\ goroutines[g].lastSeenAt <= Clock
      BY <1>3, <1>4 DEF Ready, GoroutineRecord
    <3>3. \A g \in Goroutine : goroutines[g].lastSeenAt <= Clock'
      BY ONLY <1>4, <3>1, <3>2
    <3>. QED
      BY <1>4, <2>1, <3>1, <3>3 DEF Ready, MuFree
  <2>. QED
    BY <2>1, <2>2, <2>3
<1>10. CASE Apply1
  <2>1. /\ calls # <<>> /\ calls' = Tail(calls) /\ UNCHANGED <<trace, pos>>
    BY <1>3, <1>10 DEF Apply1, Goto, targetVars, CallsInv
  <2>2. Clock' = Clock /\ Head(calls) = calls[1]
    BY <2>1 DEF Clock
  <2>3. CASE calls[1].op = "run" /\ AddProcessorSegments(1)
    <3>1. UNCHANGED <<goroutines, loading>>
      BY <2>3 DEF AddProcessorSegments, timelineVars
    <3>2. calls' # <<>> => calls'[1].op # "stack"
      BY <1>3, <1>4, <2>1, <2>3, FitsTail DEF CallsInv
    <3>. QED
      BY <1>3, <2>2, <3>1, <3>2 DEF Ready, MuFree
  <2>4. CASE calls[1].op = "event" /\ ApplyEvent(calls[1].event)
    BY <1>3, <2>1, <2>2, <2>4, ApplyEventReady
  <2>5. CASE calls[1].op = "stack" /\ ApplyStackSnapshot(calls[1].stack)
    BY <1>3, <2>1, <2>2, <2>5, ApplyStackReady
  <2>. QED
    BY <1>10, <2>2, <2>3, <2>4, <2>5 DEF Apply1
<1>11. CASE EmitParents \/ ApplyLabels
  <2>1. UNCHANGED <<trace, readVars, loading>>
    BY <1>11 DEF EmitParents, ApplyLabels, SetParentIDs, SetLabelOverrides, Goto, vars,
       targetVars
  <2>2. KeptParents(builder) \in [Goroutine -> Goroutine \cup {NoID}]
    BY <1>4 DEF KeptParents
  <2>3. \/ UNCHANGED goroutines
        \/ goroutines' = MergeParents(goroutines, KeptParents(builder))
        \/ goroutines' = MergeLabels(goroutines, Sidecar)
    BY <1>11 DEF EmitParents, ApplyLabels, SetParentIDs, SetLabelOverrides, vars,
       timelineVars
  <2>4. Clock' = Clock /\ UNCHANGED calls /\ MuFree'
    BY <1>4, <2>1 DEF Clock, readVars, MuFree
  <2>5. /\ goroutines' \in [Goroutine -> GoroutineRecord]
        /\ \A g \in Goroutine :
             /\ goroutines'[g].lastSeenAt = goroutines[g].lastSeenAt
             /\ goroutines'[g].known = goroutines[g].known
    <3>. DEFINE parents == KeptParents(builder)
    <3>1. Sidecar \in [Goroutine -> Label \cup {NoLabel}]
      BY LiveAssumption
    <3>. HIDE DEF parents
    <3>2. CASE UNCHANGED goroutines
      BY <1>4, <3>2
    <3>3. CASE goroutines' = MergeParents(goroutines, parents)
      BY ONLY <1>4, <2>2, <3>1, <3>3, MergedTimes DEF parents
    <3>4. CASE goroutines' = MergeLabels(goroutines, Sidecar)
      <4>. DEFINE merged == MergeLabels(goroutines, Sidecar)
      <4>1. /\ merged \in [Goroutine -> GoroutineRecord]
            /\ \A g \in Goroutine : /\ merged[g].lastSeenAt = goroutines[g].lastSeenAt
                                    /\ merged[g].known = goroutines[g].known
        BY <1>4, <2>2, <3>1, MergedTimes
      <4>. HIDE DEF merged
      <4>2. goroutines' = merged
        BY <3>4 DEF merged
      <4>. QED
        BY ONLY <4>1, <4>2, Zenon
    <3>. QED
      BY <2>3, <3>2, <3>3, <3>4 DEF parents
  <2>. QED
    BY <1>3, <2>4, <2>5, ReadyQuiet
<1>12. CASE TickerStep \/ StopServer \/ LoadNotifies
  <2>. USE DEF vars, timelineVars, targetVars
  <2>1. TickerStep => Idle
    BY DEF TickerStep, Tick, TickFlush, TickerStops, TickerOnly, Flush
  <2>2. StopServer \/ LoadNotifies => Idle
    BY DEF StopServer, ServerOnly, LoadNotifies, LoadNotify
  <2>. QED
    BY <1>5, <1>12, <2>1, <2>2
<1>13. CASE LoadStep
  BY <1>4, <1>13 DEF LoadStep, LoadEvent, LoadStack, LoadEnd
<1>. QED
  BY <1>1, <1>6, <1>7, <1>8, <1>9, <1>10, <1>11, <1>12, <1>13 DEF LiveNext, StreamStep

LEMMA OrderStep == OrderInv /\ [LiveNext]_allVars => OrderInv'
<1>. SUFFICES ASSUME OrderInv, [LiveNext]_allVars PROVE OrderInv'
  OBVIOUS
<1>1. CallsInv'
  BY CallsStep DEF OrderInv
<1>2. CASE LiveNext
  BY <1>1, <1>2, ReadyStep DEF OrderInv
<1>3. CASE UNCHANGED allVars
  <2>1. UNCHANGED <<uploads, trace, pos, calls, goroutines, loading>>
    BY <1>3 DEF allVars, liveVars, vars, timelineVars, targetVars, readVars
  <2>2. Undisturbed' => Ready
    BY <2>1 DEF OrderInv, Undisturbed
  <2>3. Ready => Ready'
    BY <2>1 DEF Ready, Clock, MuFree
  <2>. QED
    BY <1>1, <2>2, <2>3 DEF OrderInv
<1>. QED
  BY <1>2, <1>3

\* Whatever the target writes, the bridge keeps what Engine assumes of those who
\* write it, as long as no upload comes between: the events of a goroutine reach
\* the engine in the order of their times, and a stack no newer than the event
\* before it, although appendEvent makes both calls without holding the lock.
THEOREM ProducerKeepsOrder == LiveSpec => []ProducerInOrder
<1>1. OrderInv => ProducerInOrder
  <2>. SUFFICES ASSUME OrderInv, pc = "apply", Undisturbed
                PROVE  /\ Head(calls).op = "event" => InOrder(Head(calls).event)
                       /\ Head(calls).op = "stack" => WithItsEvent(Head(calls).stack)
    BY DEF ProducerInOrder
  <2>1. CallsInv /\ Ready /\ calls # <<>> /\ Head(calls) = calls[1]
    BY DEF OrderInv, CallsInv
  <2>2. /\ calls[1] \in Call
        /\ calls[1].op = "event" =>
             calls[1].event.ts = Clock /\ calls[1].event.gid \in Goroutine
    BY <2>1, FirstCall DEF CallsInv
  <2>3. ASSUME calls[1].op = "event" PROVE InOrder(calls[1].event)
    <3>1. calls[1].event.gid \in Goroutine
      BY <2>2, <2>3
    <3>2. /\ goroutines[calls[1].event.gid].lastSeenAt <= Clock /\ Clock \in Nat
          /\ goroutines[calls[1].event.gid].lastSeenAt \in Nat
      BY <2>1, <3>1, ClockType DEF Ready, GoroutineRecord
    <3>. QED
      BY <2>2, <2>3, <3>2 DEF InOrder
  <2>4. ASSUME calls[1].op = "stack" PROVE WithItsEvent(calls[1].stack)
    BY <2>1, <2>4 DEF Ready, WithItsEvent
  <2>. QED
    BY <2>1, <2>3, <2>4
<1>. QED
  BY <1>1, OrderInit, OrderStep, PTL DEF LiveSpec

-----------------------------------------------------------------------------
(* A goroutine's record and its latest stack *)

LEMMA SameRecord ==
  ASSUME NEW a \in GoroutineRecord, NEW b \in GoroutineRecord,
         a.known = b.known, a.parent = b.parent, a.state = b.state,
         a.reason = b.reason, a.resource = b.resource, a.waitNS = b.waitNS,
         a.createdAt = b.createdAt, a.lastSeenAt = b.lastSeenAt,
         a.diedNS = b.diedNS, a.isAlive = b.isAlive,
         a.lastStack = b.lastStack, a.label = b.label
  PROVE  a = b
<1>. DEFINE Fields == {"known", "parent", "state", "reason", "resource", "waitNS",
                       "createdAt", "lastSeenAt", "diedNS", "isAlive", "lastStack",
                       "label"}
<1>1. /\ a = [k \in Fields |-> a[k]]
      /\ b = [k \in Fields |-> b[k]]
  BY DEF GoroutineRecord
<1>2. \A k \in Fields : a[k] = b[k]
  OBVIOUS
<1>. HIDE DEF Fields
<1>. QED
  BY ONLY <1>1, <1>2

\* The record with another latest stack.
Shot(r, f) == [r EXCEPT !.lastStack = f]

LEMMA ShotIs ==
  ASSUME NEW r \in GoroutineRecord, NEW f \in Frames \cup {NoFrames}
  PROVE  /\ Shot(r, f) \in GoroutineRecord
         /\ Shot(r, f).lastStack = f
         /\ Shot(r, f).known = r.known /\ Shot(r, f).parent = r.parent
         /\ Shot(r, f).state = r.state /\ Shot(r, f).reason = r.reason
         /\ Shot(r, f).resource = r.resource /\ Shot(r, f).waitNS = r.waitNS
         /\ Shot(r, f).createdAt = r.createdAt /\ Shot(r, f).lastSeenAt = r.lastSeenAt
         /\ Shot(r, f).diedNS = r.diedNS /\ Shot(r, f).isAlive = r.isAlive
         /\ Shot(r, f).label = r.label
BY DEF Shot, GoroutineRecord

\* What one event makes of each field: Apply first, then applyEventLocked.
LEMMA ApplyFields ==
  ASSUME NEW r \in GoroutineRecord, NEW e \in Event
  PROVE  LET q == Apply(r, e)
             c == continuingWait(r, e)
             s == resolveNextState(r, e)
         IN  /\ q.known = TRUE
             /\ q.createdAt = IF r.createdAt = 0 THEN e.ts ELSE r.createdAt
             /\ q.lastSeenAt = IF e.ts # 0 THEN e.ts ELSE r.lastSeenAt
             /\ q.label = OverrideLabel(e.label, r.label)
             /\ q.state = IF c THEN r.state ELSE s
             /\ q.waitNS = IF c THEN r.waitNS + elapsedNS(r.lastSeenAt, e.ts) ELSE 0
             /\ q.reason = IF c THEN r.reason
                           ELSE IF isWaitState(s) THEN FirstOf(e.reason, "unknown") ELSE ""
             /\ q.resource = IF c THEN r.resource
                             ELSE IF isWaitState(s) THEN e.resource ELSE ""
             /\ q.parent = r.parent /\ q.diedNS = r.diedNS
             /\ q.isAlive = r.isAlive /\ q.lastStack = r.lastStack
<1>1. CASE continuingWait(r, e)
  BY <1>1 DEF Apply, GoroutineRecord
<1>2. CASE ~ continuingWait(r, e)
  BY <1>2 DEF Apply, GoroutineRecord
<1>. QED
  BY <1>1, <1>2

LEMMA NextFields ==
  ASSUME NEW r \in GoroutineRecord, NEW e \in Event
  PROVE  LET q == Apply(r, e)
             n == NextGoroutine(r, e)
         IN  /\ n.known = q.known /\ n.createdAt = q.createdAt
             /\ n.lastSeenAt = q.lastSeenAt /\ n.label = q.label
             /\ n.state = q.state /\ n.waitNS = q.waitNS /\ n.reason = q.reason
             /\ n.resource = q.resource /\ n.lastStack = q.lastStack
             /\ n.parent = IF e.kind = "goroutine.create" /\ q.parent = NoID
                           THEN e.parent ELSE q.parent
             /\ n.diedNS = IF q.state = "DONE" /\ q.diedNS = 0 THEN e.ts ELSE q.diedNS
             /\ n.isAlive = (q.state # "DONE")
<1>. DEFINE q == Apply(r, e)
<1>1. q \in GoroutineRecord
  BY ApplyType
<1>. HIDE DEF q
<1>2. NextGoroutine(r, e) =
        [q EXCEPT !.parent = IF e.kind = "goroutine.create" /\ @ = NoID
                             THEN e.parent ELSE @,
                  !.diedNS = IF q.state = "DONE" /\ @ = 0 THEN e.ts ELSE @,
                  !.isAlive = q.state # "DONE"]
  BY DEF NextGoroutine, q
<1>. QED
  BY <1>1, <1>2 DEF GoroutineRecord, q

\* An event neither reads nor changes the latest stack.
LEMMA NextOfShot ==
  ASSUME NEW r \in GoroutineRecord, NEW e \in Event, NEW f \in Frames \cup {NoFrames}
  PROVE  NextGoroutine(Shot(r, f), e) = Shot(NextGoroutine(r, e), f)
<1>. DEFINE p == Shot(r, f)
<1>1. p \in GoroutineRecord
  BY ShotIs
<1>2. /\ continuingWait(p, e) = continuingWait(r, e)
      /\ resolveNextState(p, e) = resolveNextState(r, e)
  BY ShotIs DEF continuingWait, resolveNextState
<1>3. NextGoroutine(r, e) \in GoroutineRecord /\ NextGoroutine(p, e) \in GoroutineRecord
  BY <1>1, NextGoroutineType
<1>. DEFINE a == NextGoroutine(p, e)
            n == NextGoroutine(r, e)
            b == Shot(n, f)
<1>4. b \in GoroutineRecord
  BY <1>3, ShotIs
<1>5. /\ b.lastStack = f /\ b.known = n.known /\ b.parent = n.parent
      /\ b.state = n.state /\ b.reason = n.reason /\ b.resource = n.resource
      /\ b.waitNS = n.waitNS /\ b.createdAt = n.createdAt
      /\ b.lastSeenAt = n.lastSeenAt /\ b.diedNS = n.diedNS /\ b.isAlive = n.isAlive
      /\ b.label = n.label
  BY <1>3, ShotIs
<1>6. /\ p.lastStack = f /\ p.known = r.known /\ p.parent = r.parent
      /\ p.state = r.state /\ p.reason = r.reason /\ p.resource = r.resource
      /\ p.waitNS = r.waitNS /\ p.createdAt = r.createdAt
      /\ p.lastSeenAt = r.lastSeenAt /\ p.diedNS = r.diedNS /\ p.isAlive = r.isAlive
      /\ p.label = r.label
  BY ShotIs
<1>. DEFINE q == Apply(r, e)
            o == Apply(p, e)
<1>7. /\ o.known = q.known /\ o.parent = q.parent /\ o.state = q.state
      /\ o.reason = q.reason /\ o.resource = q.resource /\ o.waitNS = q.waitNS
      /\ o.createdAt = q.createdAt /\ o.lastSeenAt = q.lastSeenAt
      /\ o.diedNS = q.diedNS /\ o.label = q.label /\ o.lastStack = f
  <2>. HIDE DEF p
  <2>1. /\ o.known = TRUE
        /\ o.createdAt = IF p.createdAt = 0 THEN e.ts ELSE p.createdAt
        /\ o.lastSeenAt = IF e.ts # 0 THEN e.ts ELSE p.lastSeenAt
        /\ o.label = OverrideLabel(e.label, p.label)
        /\ o.parent = p.parent /\ o.diedNS = p.diedNS /\ o.lastStack = p.lastStack
    BY <1>1, ApplyFields
  <2>2. /\ q.known = TRUE
        /\ q.createdAt = IF r.createdAt = 0 THEN e.ts ELSE r.createdAt
        /\ q.lastSeenAt = IF e.ts # 0 THEN e.ts ELSE r.lastSeenAt
        /\ q.label = OverrideLabel(e.label, r.label)
        /\ q.parent = r.parent /\ q.diedNS = r.diedNS
    BY ApplyFields
  <2>. DEFINE c == continuingWait(r, e)
              s == resolveNextState(r, e)
              d == continuingWait(p, e)
              u == resolveNextState(p, e)
  <2>3. /\ o.state = IF d THEN p.state ELSE u
        /\ o.waitNS = IF d THEN p.waitNS + elapsedNS(p.lastSeenAt, e.ts) ELSE 0
        /\ o.reason = IF d THEN p.reason
                      ELSE IF isWaitState(u) THEN FirstOf(e.reason, "unknown") ELSE ""
        /\ o.resource = IF d THEN p.resource
                        ELSE IF isWaitState(u) THEN e.resource ELSE ""
    BY <1>1, ApplyFields
  <2>4. /\ q.state = IF c THEN r.state ELSE s
        /\ q.waitNS = IF c THEN r.waitNS + elapsedNS(r.lastSeenAt, e.ts) ELSE 0
        /\ q.reason = IF c THEN r.reason
                      ELSE IF isWaitState(s) THEN FirstOf(e.reason, "unknown") ELSE ""
        /\ q.resource = IF c THEN r.resource
                        ELSE IF isWaitState(s) THEN e.resource ELSE ""
    BY ApplyFields
  <2>5. d = c /\ u = s
    BY <1>2
  <2>. HIDE DEF q, o, c, s, d, u
  <2>6. /\ o.createdAt = q.createdAt /\ o.lastSeenAt = q.lastSeenAt
        /\ o.label = q.label /\ o.known = q.known /\ o.parent = q.parent
        /\ o.diedNS = q.diedNS /\ o.lastStack = f
    BY ONLY <1>6, <2>1, <2>2
  <2>7. o.state = q.state /\ o.waitNS = q.waitNS
    BY ONLY <1>6, <2>3, <2>4, <2>5
  <2>8. o.reason = q.reason /\ o.resource = q.resource
    BY ONLY <1>6, <2>3, <2>4, <2>5
  <2>. QED
    BY <2>6, <2>7, <2>8
<1>8. /\ a.known = o.known /\ a.createdAt = o.createdAt
      /\ a.lastSeenAt = o.lastSeenAt /\ a.label = o.label
      /\ a.state = o.state /\ a.waitNS = o.waitNS /\ a.reason = o.reason
      /\ a.resource = o.resource /\ a.lastStack = o.lastStack
      /\ a.parent = IF e.kind = "goroutine.create" /\ o.parent = NoID
                    THEN e.parent ELSE o.parent
      /\ a.diedNS = IF o.state = "DONE" /\ o.diedNS = 0 THEN e.ts ELSE o.diedNS
      /\ a.isAlive = (o.state # "DONE")
  <2>. HIDE DEF p
  <2>. QED
    BY <1>1, NextFields
<1>9. /\ n.known = q.known /\ n.createdAt = q.createdAt
      /\ n.lastSeenAt = q.lastSeenAt /\ n.label = q.label
      /\ n.state = q.state /\ n.waitNS = q.waitNS /\ n.reason = q.reason
      /\ n.resource = q.resource
      /\ n.parent = IF e.kind = "goroutine.create" /\ q.parent = NoID
                    THEN e.parent ELSE q.parent
      /\ n.diedNS = IF q.state = "DONE" /\ q.diedNS = 0 THEN e.ts ELSE q.diedNS
      /\ n.isAlive = (q.state # "DONE")
  BY NextFields
<1>. HIDE DEF a, b, n, q, o, p
<1>10. a \in GoroutineRecord
  BY <1>3 DEF a
<1>11. a = b
  BY ONLY <1>4, <1>5, <1>7, <1>8, <1>9, <1>10, SameRecord
<1>. QED
  BY <1>11 DEF a, b, n, p

LEMMA ShotTwice ==
  ASSUME NEW r \in GoroutineRecord, NEW f \in Frames \cup {NoFrames},
         NEW h \in Frames \cup {NoFrames}
  PROVE  Shot(Shot(r, f), h) = Shot(r, h)
BY DEF Shot, GoroutineRecord

\* A stack no newer than its goroutine changes nothing else.
LEMMA StackOfShot ==
  ASSUME NEW r \in GoroutineRecord, r.known, NEW s \in StackSnapshot,
         s.ts <= r.lastSeenAt, NEW f \in Frames \cup {NoFrames}
  PROVE  WithStack(Shot(r, f), s) = Shot(r, s.frames)
<1>. DEFINE p == Shot(r, f)
<1>1. p \in GoroutineRecord /\ p.known /\ p.lastSeenAt = r.lastSeenAt
  BY ShotIs
<1>2. s.frames \in Frames \cup {NoFrames} /\ s.ts \in Nat /\ r.lastSeenAt \in Nat
  BY DEF StackSnapshot, GoroutineRecord
<1>3. ~ (s.ts > p.lastSeenAt)
  BY <1>1, <1>2
<1>4. Shot(p, s.frames) = Shot(r, s.frames)
  BY <1>2, ShotTwice
<1>. HIDE DEF p
<1>5. WithStack(p, s) = [p EXCEPT !.lastSeenAt = p.lastSeenAt, !.lastStack = s.frames]
  BY <1>1, <1>3 DEF WithStack
<1>6. WithStack(p, s) = Shot(p, s.frames)
  BY <1>1, <1>5 DEF Shot, GoroutineRecord
<1>. QED
  BY <1>4, <1>6 DEF p

-----------------------------------------------------------------------------
(* Replaying events and stacks *)

Gs == [Goroutine -> GoroutineRecord]
FrameMaps == [Goroutine -> Frames \cup {NoFrames}]
Given == {e \in Event : e.gid \in Goroutine}
Shots == {s \in StackSnapshot : s.gid \in Goroutine}
Zeros == [g \in Goroutine |-> ZeroGoroutine]
NoShots == [g \in Goroutine |-> NoFrames]

\* The steps of the replay as functions, and of a replay of the stacks alone.
EventStep == [p \in Gs \X Given |-> ReplayEvent(p[1], p[2])]
StackStep == [p \in Gs \X Shots |-> ReplayStack(p[1], p[2])]
FrameStep == [p \in FrameMaps \X Shots |-> [p[1] EXCEPT ![p[2].gid] = p[2].frames]]

LEMMA ReplayedEventIs ==
  ASSUME NEW gs \in Gs, NEW e \in Given
  PROVE  /\ EventStep[<<gs, e>>] = ReplayEvent(gs, e)
         /\ ReplayEvent(gs, e) \in Gs
         /\ e.gid \in Goroutine
         /\ ReplayEvent(gs, e)[e.gid] = NextGoroutine(gs[e.gid], normalizeEvent(e))
         /\ \A g \in Goroutine : g # e.gid => ReplayEvent(gs, e)[g] = gs[g]
<1>1. EventStep[<<gs, e>>] = ReplayEvent(gs, e)
  BY DEF EventStep
<1>2. e \in Event /\ e.gid \in Goroutine /\ gs[e.gid] \in GoroutineRecord
  BY DEF Given, Gs
<1>. DEFINE next == NextGoroutine(gs[e.gid], normalizeEvent(e))
<1>3. next \in GoroutineRecord
  BY <1>2, NormalizeType, NextGoroutineType
<1>4. ReplayEvent(gs, e) = [gs EXCEPT ![e.gid] = next]
  BY DEF ReplayEvent
<1>. HIDE DEF next
<1>5. /\ ReplayEvent(gs, e) \in Gs /\ ReplayEvent(gs, e)[e.gid] = next
      /\ \A g \in Goroutine : g # e.gid => ReplayEvent(gs, e)[g] = gs[g]
  BY <1>2, <1>3, <1>4 DEF Gs
<1>. QED
  BY <1>1, <1>2, <1>5 DEF next

LEMMA ReplayedStackIs ==
  ASSUME NEW gs \in Gs, NEW s \in Shots
  PROVE  /\ StackStep[<<gs, s>>] = ReplayStack(gs, s)
         /\ ReplayStack(gs, s) \in Gs
         /\ s.gid \in Goroutine
         /\ ReplayStack(gs, s)[s.gid] = WithStack(gs[s.gid], s)
         /\ \A g \in Goroutine : g # s.gid => ReplayStack(gs, s)[g] = gs[g]
<1>1. StackStep[<<gs, s>>] = ReplayStack(gs, s)
  BY DEF StackStep
<1>2. s \in StackSnapshot /\ s.gid \in Goroutine /\ gs[s.gid] \in GoroutineRecord
  BY DEF Shots, Gs
<1>. DEFINE next == WithStack(gs[s.gid], s)
<1>3. next \in GoroutineRecord
  BY <1>2, WithStackType
<1>4. ReplayStack(gs, s) = [gs EXCEPT ![s.gid] = next]
  BY DEF ReplayStack
<1>. HIDE DEF next
<1>5. /\ ReplayStack(gs, s) \in Gs /\ ReplayStack(gs, s)[s.gid] = next
      /\ \A g \in Goroutine : g # s.gid => ReplayStack(gs, s)[g] = gs[g]
  BY <1>2, <1>3, <1>4 DEF Gs
<1>. QED
  BY <1>1, <1>2, <1>5 DEF next

LEMMA FrameStepIs ==
  ASSUME NEW f \in FrameMaps, NEW s \in Shots
  PROVE  /\ FrameStep[<<f, s>>] = [f EXCEPT ![s.gid] = s.frames]
         /\ FrameStep[<<f, s>>] \in FrameMaps
         /\ s.gid \in Goroutine /\ s.frames \in Frames
         /\ \A g \in Goroutine :
              FrameStep[<<f, s>>][g] = IF g = s.gid THEN s.frames ELSE f[g]
<1>1. FrameStep[<<f, s>>] = [f EXCEPT ![s.gid] = s.frames]
  BY DEF FrameStep
<1>2. s.gid \in Goroutine /\ s.frames \in Frames
  BY DEF Shots, StackSnapshot
<1>. QED
  BY <1>1, <1>2 DEF FrameMaps

\* A step that looks at one goroutine and changes no other.
Local(step, T) ==
  \A a \in Gs, e \in T :
    /\ e.gid \in Goroutine
    /\ step[<<a, e>>] \in Gs
    /\ \A g \in Goroutine : g # e.gid => step[<<a, e>>][g] = a[g]
    /\ \A b \in Gs : b[e.gid] = a[e.gid] => step[<<b, e>>][e.gid] = step[<<a, e>>][e.gid]

LEMMA ReplaysAreLocal == Local(EventStep, Given) /\ Local(StackStep, Shots)
<1>1. Local(EventStep, Given)
  <2>. SUFFICES ASSUME NEW a \in Gs, NEW e \in Given
                PROVE  /\ e.gid \in Goroutine
                       /\ EventStep[<<a, e>>] \in Gs
                       /\ \A g \in Goroutine : g # e.gid => EventStep[<<a, e>>][g] = a[g]
                       /\ \A b \in Gs : b[e.gid] = a[e.gid]
                            => EventStep[<<b, e>>][e.gid] = EventStep[<<a, e>>][e.gid]
    BY DEF Local
  <2>1. \A b \in Gs : EventStep[<<b, e>>][e.gid] = NextGoroutine(b[e.gid], normalizeEvent(e))
    BY ReplayedEventIs
  <2>. QED
    BY <2>1, ReplayedEventIs
<1>2. Local(StackStep, Shots)
  <2>. SUFFICES ASSUME NEW a \in Gs, NEW e \in Shots
                PROVE  /\ e.gid \in Goroutine
                       /\ StackStep[<<a, e>>] \in Gs
                       /\ \A g \in Goroutine : g # e.gid => StackStep[<<a, e>>][g] = a[g]
                       /\ \A b \in Gs : b[e.gid] = a[e.gid]
                            => StackStep[<<b, e>>][e.gid] = StackStep[<<a, e>>][e.gid]
    BY DEF Local
  <2>1. \A b \in Gs : StackStep[<<b, e>>][e.gid] = WithStack(b[e.gid], e)
    BY ReplayedStackIs
  <2>. QED
    BY <2>1, ReplayedStackIs
<1>. QED
  BY <1>1, <1>2

\* What is left of a list when only some goroutines are kept.
Of(keep, T) == {e \in T : e.gid \in keep}

\* Replaying what a filter leaves: as before for the goroutines it keeps, and
\* nothing for any other.
LEMMA KeptFold ==
  ASSUME NEW T, NEW step, Local(step, T), NEW keep, NEW a \in Gs, NEW b \in Gs,
         \A g \in Goroutine : g \in keep => a[g] = b[g], NEW seq \in Seq(T),
         NEW h \in Goroutine
  PROVE  /\ h \in keep =>
              Folded(step, a, Chosen(seq, Of(keep, T)))[h] = Folded(step, b, seq)[h]
         /\ h \notin keep => Folded(step, a, Chosen(seq, Of(keep, T)))[h] = a[h]
<1>. DEFINE L(q) == Folded(step, a, Chosen(q, Of(keep, T)))
            R(q) == Folded(step, b, q)
            P == {q \in Seq(T) :
                    /\ L(q) \in Gs /\ R(q) \in Gs
                    /\ \A g \in Goroutine : L(q)[g] = IF g \in keep THEN R(q)[g] ELSE a[g]}
<1>1. <<>> \in P
  <2>1. Chosen(<<>>, Of(keep, T)) = <<>>
    BY ChosenEmpty
  <2>2. L(<<>>) = a /\ R(<<>>) = b
    BY <2>1, FoldedEmpty
  <2>3. <<>> \in Seq(T)
    OBVIOUS
  <2>. HIDE DEF L, R
  <2>. QED
    BY <2>2, <2>3
<1>2. ASSUME NEW q \in Seq(T), NEW e \in T, q \in P PROVE Append(q, e) \in P
  <2>1. R(Append(q, e)) = step[<<R(q), e>>]
    BY FoldedAppend
  <2>2. L(Append(q, e)) = IF e \in Of(keep, T) THEN step[<<L(q), e>>] ELSE L(q)
    <3>1. Chosen(Append(q, e), Of(keep, T)) =
            IF e \in Of(keep, T) THEN Append(Chosen(q, Of(keep, T)), e)
            ELSE Chosen(q, Of(keep, T))
      BY ChosenAppend
    <3>. DEFINE c == Chosen(q, Of(keep, T))
    <3>2. c \in Seq(T)
      BY ChosenType
    <3>. HIDE DEF c
    <3>3. Folded(step, a, Append(c, e)) = step[<<Folded(step, a, c), e>>]
      BY <3>2, FoldedAppend
    <3>. QED
      BY <3>1, <3>3 DEF c
  <2>3. /\ L(q) \in Gs /\ R(q) \in Gs
        /\ \A g \in Goroutine : L(q)[g] = IF g \in keep THEN R(q)[g] ELSE a[g]
    BY <1>2
  <2>4. Append(q, e) \in Seq(T)
    OBVIOUS
  <2>. HIDE DEF L, R
  <2>5. /\ e.gid \in Goroutine /\ R(Append(q, e)) \in Gs
        /\ \A g \in Goroutine : g # e.gid => R(Append(q, e))[g] = R(q)[g]
    BY <2>1, <2>3 DEF Local
  <2>6. CASE e.gid \in keep
    <3>1. L(Append(q, e)) = step[<<L(q), e>>]
      BY <2>2, <2>6 DEF Of
    <3>2. L(q)[e.gid] = R(q)[e.gid]
      BY <2>3, <2>5, <2>6
    <3>3. /\ L(Append(q, e)) \in Gs
          /\ \A g \in Goroutine : g # e.gid => L(Append(q, e))[g] = L(q)[g]
      BY <2>3, <3>1 DEF Local
    <3>4. L(Append(q, e))[e.gid] = R(Append(q, e))[e.gid]
      <4>1. \A b1 \in Gs : b1[e.gid] = R(q)[e.gid]
                          => step[<<b1, e>>][e.gid] = step[<<R(q), e>>][e.gid]
        BY <2>3 DEF Local
      <4>. QED
        BY <2>1, <2>3, <3>1, <3>2, <4>1
    <3>. QED
      BY <2>3, <2>4, <2>5, <2>6, <3>3, <3>4
  <2>7. CASE e.gid \notin keep
    <3>1. L(Append(q, e)) = L(q)
      BY <2>2, <2>7 DEF Of
    <3>. QED
      BY <2>3, <2>4, <2>5, <2>7, <3>1
  <2>. QED
    BY <2>6, <2>7
<1>. HIDE DEF P
<1>3. seq \in P
  BY <1>1, <1>2, SeqSetInduction
<1>. QED
  BY <1>3 DEF P

\* The goroutines with their latest stacks.
Shown(gs, f) == [g \in Goroutine |-> Shot(gs[g], f[g])]

LEMMA ShownType ==
  ASSUME NEW gs \in Gs, NEW f \in FrameMaps
  PROVE  /\ Shown(gs, f) \in Gs
         /\ \A g \in Goroutine : Shown(gs, f)[g] = Shot(gs[g], f[g])
         /\ \A g \in Goroutine : gs[g] \in GoroutineRecord /\ f[g] \in Frames \cup {NoFrames}
<1>1. \A g \in Goroutine : gs[g] \in GoroutineRecord /\ f[g] \in Frames \cup {NoFrames}
  BY DEF Gs, FrameMaps
<1>2. \A g \in Goroutine : Shot(gs[g], f[g]) \in GoroutineRecord
  BY <1>1, ShotIs
<1>. QED
  BY <1>1, <1>2 DEF Gs, Shown

LEMMA SameMap ==
  ASSUME NEW a \in Gs, NEW b \in Gs, \A g \in Goroutine : a[g] = b[g]
  PROVE  a = b
BY DEF Gs

\* The stacks that come after the events of their goroutines.
Covered(gs) ==
  {s \in Shots : gs[s.gid].known /\ s.ts <= gs[s.gid].lastSeenAt}

LEMMA ShownStack ==
  ASSUME NEW gs \in Gs, NEW f \in FrameMaps, NEW s \in Covered(gs)
  PROVE  ReplayStack(Shown(gs, f), s) = Shown(gs, FrameStep[<<f, s>>])
<1>1. s \in Shots /\ s \in StackSnapshot /\ gs[s.gid].known
      /\ s.ts <= gs[s.gid].lastSeenAt /\ s.gid \in Goroutine
  BY DEF Covered, Shots
<1>. DEFINE h == FrameStep[<<f, s>>]
            a == ReplayStack(Shown(gs, f), s)
<1>2. h \in FrameMaps /\ \A g \in Goroutine : h[g] = IF g = s.gid THEN s.frames ELSE f[g]
  BY <1>1, FrameStepIs
<1>. HIDE DEF h
<1>3. /\ Shown(gs, f) \in Gs /\ Shown(gs, h) \in Gs
      /\ \A g \in Goroutine : /\ Shown(gs, f)[g] = Shot(gs[g], f[g])
                              /\ Shown(gs, h)[g] = Shot(gs[g], h[g])
      /\ \A g \in Goroutine : gs[g] \in GoroutineRecord /\ f[g] \in Frames \cup {NoFrames}
  BY <1>2, ShownType
<1>4. /\ a \in Gs /\ a[s.gid] = WithStack(Shown(gs, f)[s.gid], s)
      /\ \A g \in Goroutine : g # s.gid => a[g] = Shown(gs, f)[g]
  BY <1>1, <1>3, ReplayedStackIs
<1>5. a[s.gid] = Shot(gs[s.gid], s.frames)
  BY <1>1, <1>3, <1>4, StackOfShot
<1>6. ASSUME NEW g \in Goroutine PROVE a[g] = Shown(gs, h)[g]
  <2>1. CASE g = s.gid
    <3>1. h[g] = s.frames /\ a[g] = Shot(gs[g], s.frames)
      BY <1>2, <1>5, <2>1
    <3>. QED
      BY <1>3, <3>1
  <2>2. CASE g # s.gid
    <3>1. h[g] = f[g] /\ a[g] = Shown(gs, f)[g]
      BY <1>2, <1>4, <2>2
    <3>. QED
      BY <1>3, <3>1
  <2>. QED
    BY <2>1, <2>2
<1>7. a = Shown(gs, h)
  <2>. HIDE DEF a
  <2>. QED
    BY <1>3, <1>4, <1>6, SameMap
<1>. QED
  BY <1>7 DEF h, a

LEMMA ShownEvent ==
  ASSUME NEW gs \in Gs, NEW f \in FrameMaps, NEW e \in Given
  PROVE  ReplayEvent(Shown(gs, f), e) = Shown(ReplayEvent(gs, e), f)
<1>. DEFINE a == ReplayEvent(Shown(gs, f), e)
            b == ReplayEvent(gs, e)
            n == normalizeEvent(e)
<1>1. e \in Event /\ e.gid \in Goroutine
  BY DEF Given
<1>2. n \in Event
  BY <1>1, NormalizeType
<1>3. /\ Shown(gs, f) \in Gs
      /\ \A g \in Goroutine : Shown(gs, f)[g] = Shot(gs[g], f[g])
      /\ \A g \in Goroutine : gs[g] \in GoroutineRecord /\ f[g] \in Frames \cup {NoFrames}
  BY ShownType
<1>4. /\ a \in Gs /\ a[e.gid] = NextGoroutine(Shown(gs, f)[e.gid], n)
      /\ \A g \in Goroutine : g # e.gid => a[g] = Shown(gs, f)[g]
  BY <1>3, ReplayedEventIs
<1>5. /\ b \in Gs /\ b[e.gid] = NextGoroutine(gs[e.gid], n)
      /\ \A g \in Goroutine : g # e.gid => b[g] = gs[g]
  BY ReplayedEventIs
<1>. HIDE DEF a, b, n
<1>6. Shown(b, f) \in Gs /\ \A g \in Goroutine : Shown(b, f)[g] = Shot(b[g], f[g])
  BY <1>5, ShownType
<1>7. a[e.gid] = Shot(b[e.gid], f[e.gid])
  BY <1>1, <1>2, <1>3, <1>4, <1>5, NextOfShot
<1>8. ASSUME NEW g \in Goroutine PROVE a[g] = Shown(b, f)[g]
  <2>1. CASE g = e.gid
    BY <1>6, <1>7, <2>1
  <2>2. CASE g # e.gid
    <3>1. a[g] = Shown(gs, f)[g] /\ b[g] = gs[g]
      BY <1>4, <1>5, <2>2
    <3>. QED
      BY <1>3, <1>6, <3>1
  <2>. QED
    BY <2>1, <2>2
<1>9. a = Shown(b, f)
  BY <1>4, <1>6, <1>8, SameMap
<1>. QED
  BY <1>9 DEF a, b

\* A capture replays its stacks after its events: what is left are the events'
\* records with the latest stacks.
LEMMA StacksShown ==
  ASSUME NEW gs \in Gs, \A g \in Goroutine : gs[g].lastStack = NoFrames,
         NEW seq \in Seq(Covered(gs))
  PROVE  /\ Folded(StackStep, gs, seq) = Shown(gs, Folded(FrameStep, NoShots, seq))
         /\ Folded(FrameStep, NoShots, seq) \in FrameMaps
<1>. DEFINE F(q) == Folded(FrameStep, NoShots, q)
            G(q) == Folded(StackStep, gs, q)
            P == {q \in Seq(Covered(gs)) : F(q) \in FrameMaps /\ G(q) = Shown(gs, F(q))}
<1>1. <<>> \in P
  <2>1. F(<<>>) = NoShots /\ G(<<>>) = gs
    BY FoldedEmpty
  <2>2. NoShots \in FrameMaps /\ \A g \in Goroutine : NoShots[g] = NoFrames
    BY DEF NoShots, FrameMaps
  <2>3. /\ Shown(gs, NoShots) \in Gs
        /\ \A g \in Goroutine : Shown(gs, NoShots)[g] = Shot(gs[g], NoShots[g])
        /\ \A g \in Goroutine : gs[g] \in GoroutineRecord
    BY <2>2, ShownType
  <2>4. \A g \in Goroutine : Shot(gs[g], NoFrames) = gs[g]
    BY <2>3 DEF Shot, GoroutineRecord
  <2>5. \A g \in Goroutine : Shown(gs, NoShots)[g] = gs[g]
    BY <2>2, <2>3, <2>4
  <2>6. Shown(gs, NoShots) = gs
    BY <2>3, <2>5, SameMap
  <2>7. <<>> \in Seq(Covered(gs))
    OBVIOUS
  <2>. HIDE DEF F, G
  <2>. QED
    BY <2>1, <2>2, <2>6, <2>7
<1>2. ASSUME NEW q \in Seq(Covered(gs)), NEW s \in Covered(gs), q \in P
      PROVE  Append(q, s) \in P
  <2>1. F(Append(q, s)) = FrameStep[<<F(q), s>>] /\ G(Append(q, s)) = StackStep[<<G(q), s>>]
    BY FoldedAppend
  <2>2. F(q) \in FrameMaps /\ G(q) = Shown(gs, F(q))
    BY <1>2
  <2>3. Append(q, s) \in Seq(Covered(gs)) /\ s \in Shots
    BY DEF Covered
  <2>. HIDE DEF F, G
  <2>4. FrameStep[<<F(q), s>>] \in FrameMaps
    BY <2>2, <2>3, FrameStepIs
  <2>5. StackStep[<<G(q), s>>] = ReplayStack(Shown(gs, F(q)), s)
    <3>1. Shown(gs, F(q)) \in Gs
      BY <2>2, ShownType
    <3>. QED
      BY <2>2, <2>3, <3>1, ReplayedStackIs
  <2>6. StackStep[<<G(q), s>>] = Shown(gs, FrameStep[<<F(q), s>>])
    BY <2>2, <2>5, ShownStack
  <2>. QED
    BY <2>1, <2>3, <2>4, <2>6
<1>. HIDE DEF P
<1>3. seq \in P
  BY <1>1, <1>2, SeqSetInduction
<1>. QED
  BY <1>3 DEF P

-----------------------------------------------------------------------------
(* The batch builder *)

Run == [gid: Goroutine, start: Nat, end: Nat]

Builder ==
  [kept: SUBSET Goroutine, parents: [Goroutine -> Goroutine \cup {NoID}],
   slots: [Goroutine -> Nat], raw: SUBSET Run]

Batch == [b: Builder, events: Seq(Given), stacks: Seq(Shots)]

NewBatch == [b |-> NewBuilder, events |-> <<>>, stacks |-> <<>>]

BatchStep == [p \in Batch \X Transition |-> appendXEvent(p[1], p[2])]

LEMMA EndedRunType ==
  ASSUME NEW b \in Builder, NEW t \in Transition
  PROVE  /\ EndedRun(b, t) \in SUBSET Run
         /\ \A r \in EndedRun(b, t) :
              /\ EndedRun(b, t) = {r} /\ r.gid = t.gid /\ r.end = t.ts
              /\ t.from = "Running" /\ b.slots[t.gid] # 0 /\ t.ts > b.slots[t.gid]
<1>1. t.gid \in Goroutine /\ t.ts \in Nat /\ b.slots[t.gid] \in Nat
  BY DEF Transition, Builder
<1>. DEFINE r == [gid |-> t.gid, start |-> b.slots[t.gid], end |-> t.ts]
            c == t.from = "Running" /\ b.slots[t.gid] # 0 /\ t.ts > b.slots[t.gid]
<1>2. r \in Run /\ r.gid = t.gid /\ r.end = t.ts
  BY <1>1 DEF Run
<1>3. EndedRun(b, t) = IF c THEN {r} ELSE {}
  BY DEF EndedRun
<1>. HIDE DEF r
<1>. QED
  BY <1>2, <1>3

LEMMA NotedType ==
  ASSUME NEW b \in Builder, NEW t \in Transition, NEW held \in SUBSET Run
  PROVE  Noted(b, t, held) \in Builder
<1>1. /\ t.gid \in Goroutine /\ t.ts \in Nat /\ t.running \in Goroutine \cup {NoID}
      /\ b.kept \in SUBSET Goroutine /\ b.raw \in SUBSET Run
      /\ b.parents \in [Goroutine -> Goroutine \cup {NoID}]
      /\ b.slots \in [Goroutine -> Nat]
  BY DEF Transition, Builder
<1>. DEFINE k == IF Keeps(b, t) THEN b.kept \cup {t.gid} ELSE b.kept
            v == IF t.to = "Running" /\ t.onP THEN t.ts
                 ELSE IF t.from = "Running" THEN 0 ELSE b.slots[t.gid]
            p == IF Appears(t) /\ t.running \notin {NoID, t.gid}
                 THEN [b.parents EXCEPT ![t.gid] = t.running] ELSE b.parents
            l == [b.slots EXCEPT ![t.gid] = v]
            w == b.raw \cup held
<1>2. Noted(b, t, held) = [kept |-> k, parents |-> p, slots |-> l, raw |-> w]
  BY DEF Noted
<1>3. k \in SUBSET Goroutine /\ w \in SUBSET Run
  BY <1>1
<1>4. p \in [Goroutine -> Goroutine \cup {NoID}]
  BY <1>1
<1>5. v \in Nat
  BY <1>1
<1>6. l \in [Goroutine -> Nat]
  <2>. HIDE DEF v
  <2>. QED
    BY <1>1, <1>5
<1>. HIDE DEF k, p, l, w
<1>. QED
  BY <1>2, <1>3, <1>4, <1>6 DEF Builder

LEMMA BatchStepIs ==
  ASSUME NEW acc \in Batch, NEW t \in Transition
  PROVE  LET new == appendXEvent(acc, t)
             e == EventOf(new.b, t)
         IN  /\ BatchStep[<<acc, t>>] = new
             /\ new \in Batch
             /\ new.b = Noted(acc.b, t, EndedRun(acc.b, t))
             /\ e \in Given /\ e.gid = t.gid /\ e.ts = t.ts
             /\ new.events = IF Keeps(acc.b, t) THEN Append(acc.events, e) ELSE acc.events
             /\ HasStack(t) => StackOf(t) \in Shots
             /\ new.stacks = IF Keeps(acc.b, t) /\ HasStack(t)
                             THEN Append(acc.stacks, StackOf(t)) ELSE acc.stacks
<1>. DEFINE next == Noted(acc.b, t, EndedRun(acc.b, t))
            e == EventOf(next, t)
            es == IF Keeps(acc.b, t) THEN Append(acc.events, e) ELSE acc.events
            ss == IF Keeps(acc.b, t) /\ HasStack(t)
                  THEN Append(acc.stacks, StackOf(t)) ELSE acc.stacks
<1>1. acc.b \in Builder /\ acc.events \in Seq(Given) /\ acc.stacks \in Seq(Shots)
  BY DEF Batch
<1>2. next \in Builder
  BY <1>1, EndedRunType, NotedType
<1>3. e \in Given /\ e.gid = t.gid /\ e.ts = t.ts
  <2>1. next.parents \in [Goroutine -> Goroutine \cup {NoID}] /\ t.gid \in Goroutine
    BY <1>2 DEF Builder, Transition
  <2>. HIDE DEF next
  <2>. QED
    BY <2>1, EventOfType DEF Given
<1>4. HasStack(t) => StackOf(t) \in Shots
  BY StackOfType DEF Shots, Transition
<1>5. appendXEvent(acc, t) = [b |-> next, events |-> es, stacks |-> ss]
  BY DEF appendXEvent
<1>. HIDE DEF next, e
<1>6. es \in Seq(Given) /\ ss \in Seq(Shots)
  BY <1>1, <1>3, <1>4
<1>7. BatchStep[<<acc, t>>] = appendXEvent(acc, t)
  BY DEF BatchStep
<1>. HIDE DEF es, ss
<1>8. /\ appendXEvent(acc, t) \in Batch
      /\ appendXEvent(acc, t).b = next /\ appendXEvent(acc, t).events = es
      /\ appendXEvent(acc, t).stacks = ss
  BY <1>2, <1>5, <1>6 DEF Batch
<1>. QED
  BY <1>3, <1>4, <1>7, <1>8 DEF next, es, ss, e

-----------------------------------------------------------------------------
(* The folds of the model are folds by a function *)

LEMMA BatchFolds ==
  ASSUME NEW base \in Batch, NEW seq \in Seq(Transition)
  PROVE  FoldLeft(appendXEvent, base, seq) = Folded(BatchStep, base, seq)
<1>. DEFINE One(it, s) == IF s = {} THEN base ELSE appendXEvent(it[s \ {Max(s)}], seq[Max(s)])
            Solves(it) == it = [s \in SUBSET DOMAIN seq |-> One(it, s)]
            n == Len(seq)
<1>1. FoldLeft(appendXEvent, base, seq) = (CHOOSE it : Solves(it))[DOMAIN seq]
  BY DEF FoldLeft, MapThenFoldSet
<1>2. \A a \in Batch, e \in Transition :
        BatchStep[<<a, e>>] = appendXEvent(a, e) /\ BatchStep[<<a, e>>] \in Batch
  BY BatchStepIs
<1>3. PICK it :
        /\ FoldSolves(it, BatchStep, base, seq)
        /\ Folded(BatchStep, base, seq) = it[1..n]
        /\ \A s \in SUBSET (1..n) : it[s] \in Batch
  BY <1>2, FoldTyped
<1>4. n \in Nat /\ DOMAIN seq = 1..n /\ \A k \in 1..n : seq[k] \in Transition
  OBVIOUS
<1>5. ASSUME NEW s \in SUBSET (1..n) PROVE it[s] = One(it, s)
  <2>1. it[s] = FoldStep(it, BatchStep, base, seq, s)
    BY <1>3 DEF FoldSolves
  <2>2. CASE s = {}
    BY <2>1, <2>2 DEF FoldStep
  <2>3. CASE s # {}
    <3>1. Max(s) \in 1..n /\ s \ {Max(s)} \in SUBSET (1..n)
      BY <1>4, <2>3, MaxIn
    <3>2. it[s] = BatchStep[<<it[s \ {Max(s)}], seq[Max(s)]>>]
      BY <2>1, <2>3 DEF FoldStep
    <3>. QED
      BY <1>2, <1>3, <1>4, <2>3, <3>1, <3>2
  <2>. QED
    BY <2>2, <2>3
<1>6. Solves(it)
  <2>1. it = [s \in SUBSET (1..n) |-> it[s]]
    BY <1>3 DEF FoldSolves
  <2>. HIDE DEF One
  <2>. QED
    BY <1>4, <1>5, <2>1
<1>. DEFINE c == CHOOSE c : Solves(c)
<1>7. Solves(c)
  <2>. HIDE DEF Solves
  <2>. QED
    BY <1>6
<1>8. Agreeing(c, it, n)
  <2>1. \A s \in SUBSET (1..n) : c[s] = One(c, s)
    <3>. HIDE DEF c, One
    <3>. QED
      BY <1>4, <1>7
  <2>. HIDE DEF c
  <2>2. c[{}] = it[{}]
    BY <1>5, <2>1
  <2>3. ASSUME NEW s \in SUBSET (1..n), s # {}, c[s \ {Max(s)}] = it[s \ {Max(s)}]
        PROVE  c[s] = it[s]
    BY <1>5, <2>1, <2>3
  <2>. QED
    BY <2>2, <2>3 DEF Agreeing
<1>9. \A s \in SUBSET (1..n) : c[s] = it[s]
  <2>. HIDE DEF c
  <2>. QED
    BY <1>4, <1>8, FoldAgrees
<1>10. c[1..n] = it[1..n]
  <2>. HIDE DEF c
  <2>. QED
    BY <1>9
<1>. QED
  BY <1>1, <1>3, <1>4, <1>10 DEF c

LEMMA EventsFold ==
  ASSUME NEW base \in Gs, NEW seq \in Seq(Given)
  PROVE  FoldLeft(ReplayEvent, base, seq) = Folded(EventStep, base, seq)
<1>. DEFINE One(it, s) == IF s = {} THEN base ELSE ReplayEvent(it[s \ {Max(s)}], seq[Max(s)])
            Solves(it) == it = [s \in SUBSET DOMAIN seq |-> One(it, s)]
            n == Len(seq)
<1>1. FoldLeft(ReplayEvent, base, seq) = (CHOOSE it : Solves(it))[DOMAIN seq]
  BY DEF FoldLeft, MapThenFoldSet
<1>2. \A a \in Gs, e \in Given :
        EventStep[<<a, e>>] = ReplayEvent(a, e) /\ EventStep[<<a, e>>] \in Gs
  BY ReplayedEventIs
<1>3. PICK it :
        /\ FoldSolves(it, EventStep, base, seq)
        /\ Folded(EventStep, base, seq) = it[1..n]
        /\ \A s \in SUBSET (1..n) : it[s] \in Gs
  BY <1>2, FoldTyped
<1>4. n \in Nat /\ DOMAIN seq = 1..n /\ \A k \in 1..n : seq[k] \in Given
  OBVIOUS
<1>5. ASSUME NEW s \in SUBSET (1..n) PROVE it[s] = One(it, s)
  <2>1. it[s] = FoldStep(it, EventStep, base, seq, s)
    BY <1>3 DEF FoldSolves
  <2>2. CASE s = {}
    BY <2>1, <2>2 DEF FoldStep
  <2>3. CASE s # {}
    <3>1. Max(s) \in 1..n /\ s \ {Max(s)} \in SUBSET (1..n)
      BY <1>4, <2>3, MaxIn
    <3>2. it[s] = EventStep[<<it[s \ {Max(s)}], seq[Max(s)]>>]
      BY <2>1, <2>3 DEF FoldStep
    <3>. QED
      BY <1>2, <1>3, <1>4, <2>3, <3>1, <3>2
  <2>. QED
    BY <2>2, <2>3
<1>6. Solves(it)
  <2>1. it = [s \in SUBSET (1..n) |-> it[s]]
    BY <1>3 DEF FoldSolves
  <2>. HIDE DEF One
  <2>. QED
    BY <1>4, <1>5, <2>1
<1>. DEFINE c == CHOOSE c : Solves(c)
<1>7. Solves(c)
  <2>. HIDE DEF Solves
  <2>. QED
    BY <1>6
<1>8. Agreeing(c, it, n)
  <2>1. \A s \in SUBSET (1..n) : c[s] = One(c, s)
    <3>. HIDE DEF c, One
    <3>. QED
      BY <1>4, <1>7
  <2>. HIDE DEF c
  <2>2. c[{}] = it[{}]
    BY <1>5, <2>1
  <2>3. ASSUME NEW s \in SUBSET (1..n), s # {}, c[s \ {Max(s)}] = it[s \ {Max(s)}]
        PROVE  c[s] = it[s]
    BY <1>5, <2>1, <2>3
  <2>. QED
    BY <2>2, <2>3 DEF Agreeing
<1>9. \A s \in SUBSET (1..n) : c[s] = it[s]
  <2>. HIDE DEF c
  <2>. QED
    BY <1>4, <1>8, FoldAgrees
<1>10. c[1..n] = it[1..n]
  <2>. HIDE DEF c
  <2>. QED
    BY <1>9
<1>. QED
  BY <1>1, <1>3, <1>4, <1>10 DEF c

LEMMA StacksFold ==
  ASSUME NEW base \in Gs, NEW seq \in Seq(Shots)
  PROVE  FoldLeft(ReplayStack, base, seq) = Folded(StackStep, base, seq)
<1>. DEFINE One(it, s) == IF s = {} THEN base ELSE ReplayStack(it[s \ {Max(s)}], seq[Max(s)])
            Solves(it) == it = [s \in SUBSET DOMAIN seq |-> One(it, s)]
            n == Len(seq)
<1>1. FoldLeft(ReplayStack, base, seq) = (CHOOSE it : Solves(it))[DOMAIN seq]
  BY DEF FoldLeft, MapThenFoldSet
<1>2. \A a \in Gs, e \in Shots :
        StackStep[<<a, e>>] = ReplayStack(a, e) /\ StackStep[<<a, e>>] \in Gs
  BY ReplayedStackIs
<1>3. PICK it :
        /\ FoldSolves(it, StackStep, base, seq)
        /\ Folded(StackStep, base, seq) = it[1..n]
        /\ \A s \in SUBSET (1..n) : it[s] \in Gs
  BY <1>2, FoldTyped
<1>4. n \in Nat /\ DOMAIN seq = 1..n /\ \A k \in 1..n : seq[k] \in Shots
  OBVIOUS
<1>5. ASSUME NEW s \in SUBSET (1..n) PROVE it[s] = One(it, s)
  <2>1. it[s] = FoldStep(it, StackStep, base, seq, s)
    BY <1>3 DEF FoldSolves
  <2>2. CASE s = {}
    BY <2>1, <2>2 DEF FoldStep
  <2>3. CASE s # {}
    <3>1. Max(s) \in 1..n /\ s \ {Max(s)} \in SUBSET (1..n)
      BY <1>4, <2>3, MaxIn
    <3>2. it[s] = StackStep[<<it[s \ {Max(s)}], seq[Max(s)]>>]
      BY <2>1, <2>3 DEF FoldStep
    <3>. QED
      BY <1>2, <1>3, <1>4, <2>3, <3>1, <3>2
  <2>. QED
    BY <2>2, <2>3
<1>6. Solves(it)
  <2>1. it = [s \in SUBSET (1..n) |-> it[s]]
    BY <1>3 DEF FoldSolves
  <2>. HIDE DEF One
  <2>. QED
    BY <1>4, <1>5, <2>1
<1>. DEFINE c == CHOOSE c : Solves(c)
<1>7. Solves(c)
  <2>. HIDE DEF Solves
  <2>. QED
    BY <1>6
<1>8. Agreeing(c, it, n)
  <2>1. \A s \in SUBSET (1..n) : c[s] = One(c, s)
    <3>. HIDE DEF c, One
    <3>. QED
      BY <1>4, <1>7
  <2>. HIDE DEF c
  <2>2. c[{}] = it[{}]
    BY <1>5, <2>1
  <2>3. ASSUME NEW s \in SUBSET (1..n), s # {}, c[s \ {Max(s)}] = it[s \ {Max(s)}]
        PROVE  c[s] = it[s]
    BY <1>5, <2>1, <2>3
  <2>. QED
    BY <2>2, <2>3 DEF Agreeing
<1>9. \A s \in SUBSET (1..n) : c[s] = it[s]
  <2>. HIDE DEF c
  <2>. QED
    BY <1>4, <1>8, FoldAgrees
<1>10. c[1..n] = it[1..n]
  <2>. HIDE DEF c
  <2>. QED
    BY <1>9
<1>. QED
  BY <1>1, <1>3, <1>4, <1>10 DEF c

-----------------------------------------------------------------------------
(* What the batch builder has saved so far *)

\* What the batch builder holds after k transitions.
Built(t, k) == Folded(BatchStep, NewBatch, SubSeq(t, 1, k))

LEMMA NewBatchType == NewBatch \in Batch
<1>1. NewBuilder \in Builder
  BY DEF NewBuilder, Builder
<1>2. <<>> \in Seq(Given) /\ <<>> \in Seq(Shots)
  OBVIOUS
<1>. QED
  BY <1>1, <1>2 DEF NewBatch, Batch

LEMMA BuiltIs ==
  ASSUME NEW t \in Seq(Transition)
  PROVE  /\ Built(t, 0) = NewBatch
         /\ Built(t, Len(t)) = FoldLeft(appendXEvent, NewBatch, t)
         /\ \A k \in 0..Len(t) : Built(t, k) \in Batch
         /\ \A k \in Nat : k < Len(t) => /\ t[k + 1] \in Transition
                                         /\ Built(t, k + 1) = appendXEvent(Built(t, k), t[k + 1])
<1>1. Len(t) \in Nat /\ \A k \in 1..Len(t) : t[k] \in Transition
  OBVIOUS
<1>2. \A a \in Batch, e \in Transition : BatchStep[<<a, e>>] \in Batch
  BY BatchStepIs
<1>3. ASSUME NEW k \in 0..Len(t)
      PROVE  SubSeq(t, 1, k) \in Seq(Transition) /\ Built(t, k) \in Batch
  <2>. DEFINE q == SubSeq(t, 1, k)
  <2>1. q \in Seq(Transition)
    BY <1>1
  <2>. HIDE DEF q
  <2>2. Folded(BatchStep, NewBatch, q) \in Batch
    BY <1>2, <2>1, NewBatchType, FoldedType
  <2>. QED
    BY <2>1, <2>2 DEF q, Built
<1>4. Built(t, 0) = NewBatch
  <2>1. SubSeq(t, 1, 0) = <<>>
    OBVIOUS
  <2>. QED
    BY <2>1, FoldedEmpty DEF Built
<1>5. Built(t, Len(t)) = FoldLeft(appendXEvent, NewBatch, t)
  <2>1. SubSeq(t, 1, Len(t)) = t
    OBVIOUS
  <2>. QED
    BY <2>1, NewBatchType, BatchFolds DEF Built
<1>6. ASSUME NEW k \in Nat, k < Len(t)
      PROVE  /\ t[k + 1] \in Transition
             /\ Built(t, k + 1) = appendXEvent(Built(t, k), t[k + 1])
  <2>1. k \in 0..Len(t) /\ k + 1 \in 1..Len(t)
    BY <1>1, <1>6
  <2>2. t[k + 1] \in Transition
    BY <1>1, <2>1
  <2>. DEFINE q == SubSeq(t, 1, k)
              e == t[k + 1]
  <2>3. SubSeq(t, 1, k + 1) = Append(q, e)
    <3>1. /\ SubSeq(t, 1, k + 1) \in Seq(Transition) /\ Len(SubSeq(t, 1, k + 1)) = k + 1
          /\ \A i \in 1..(k + 1) : SubSeq(t, 1, k + 1)[i] = t[i]
          /\ q \in Seq(Transition) /\ Len(q) = k /\ \A i \in 1..k : q[i] = t[i]
      BY <1>1, <2>1
    <3>. DEFINE r == SubSeq(t, 1, k + 1)
    <3>. HIDE DEF q, r
    <3>2. /\ Append(q, e) \in Seq(Transition) /\ Len(Append(q, e)) = k + 1
          /\ \A i \in 1..k : Append(q, e)[i] = t[i]
          /\ Append(q, e)[k + 1] = e
      BY <2>2, <3>1
    <3>3. \A i \in 1..(k + 1) : r[i] = Append(q, e)[i]
      <4>1. \A i \in 1..(k + 1) : i \in 1..k \/ i = k + 1
        OBVIOUS
      <4>. QED
        BY <3>1, <3>2, <4>1 DEF r
    <3>4. r \in Seq(Transition) /\ Len(r) = k + 1
      BY <3>1 DEF r
    <3>5. r = Append(q, e)
      <4>. HIDE DEF e
      <4>. DEFINE o == Append(q, e)
      <4>. HIDE DEF o
      <4>1. o \in Seq(Transition) /\ Len(o) = k + 1 /\ \A i \in 1..(k + 1) : r[i] = o[i]
        BY <3>2, <3>3 DEF o
      <4>2. r = o
        BY ONLY <3>4, <4>1, SeqEqual
      <4>. QED
        BY <4>2 DEF o
    <3>. QED
      BY <3>5 DEF r
  <2>4. q \in Seq(Transition) /\ Folded(BatchStep, NewBatch, q) \in Batch
    BY <1>3, <2>1 DEF Built
  <2>. HIDE DEF q, e
  <2>5. Folded(BatchStep, NewBatch, Append(q, e)) = BatchStep[<<Folded(BatchStep, NewBatch, q), e>>]
    BY <2>2, <2>4, FoldedAppend DEF e
  <2>6. BatchStep[<<Folded(BatchStep, NewBatch, q), e>>]
          = appendXEvent(Folded(BatchStep, NewBatch, q), e)
    BY <2>2, <2>4, BatchStepIs DEF e
  <2>. QED
    BY <2>2, <2>3, <2>5, <2>6 DEF q, e, Built
<1>. QED
  BY <1>3, <1>4, <1>5, <1>6

\* What the saved events and stacks alone make of the goroutines.
Evented(acc) == Folded(EventStep, Zeros, acc.events)
Framed(acc) == Folded(FrameStep, NoShots, acc.stacks)

LEMMA ZerosType ==
  /\ Zeros \in Gs
  /\ \A g \in Goroutine : Zeros[g] = ZeroGoroutine
  /\ ZeroGoroutine.lastStack = NoFrames /\ ZeroGoroutine.lastSeenAt = 0
  /\ ZeroGoroutine.known = FALSE /\ ZeroGoroutine.state = ""
<1>1. \A g \in Goroutine : Zeros[g] = ZeroGoroutine
  BY DEF Zeros
<1>2. Zeros \in Gs
  BY ZeroGoroutineType, Zenon DEF Zeros, Gs
<1>3. /\ ZeroGoroutine.lastStack = NoFrames /\ ZeroGoroutine.lastSeenAt = 0
      /\ ZeroGoroutine.known = FALSE /\ ZeroGoroutine.state = ""
  BY DEF ZeroGoroutine
<1>. QED
  BY <1>1, <1>2, <1>3

LEMMA EventedType ==
  ASSUME NEW acc \in Batch
  PROVE  Evented(acc) \in Gs /\ acc.events \in Seq(Given) /\ acc.stacks \in Seq(Shots)
<1>1. acc.events \in Seq(Given) /\ acc.stacks \in Seq(Shots)
  BY DEF Batch
<1>2. \A a \in Gs, e \in Given : EventStep[<<a, e>>] \in Gs
  BY ReplayedEventIs
<1>. DEFINE q == acc.events
<1>. HIDE DEF q
<1>3. q \in Seq(Given)
  BY <1>1 DEF q
<1>4. Folded(EventStep, Zeros, q) \in Gs
  BY <1>2, <1>3, ZerosType, FoldedType
<1>. QED
  BY <1>1, <1>4 DEF Evented, q

\* At any time the stacks belong to goroutines that the events made known, and
\* nothing is newer than that time.
Replays(acc, time) ==
  /\ \A g \in Goroutine : /\ Evented(acc)[g].lastStack = NoFrames
                          /\ Evented(acc)[g].lastSeenAt <= time
  /\ acc.stacks \in Seq(Covered(Evented(acc)))

LEMMA ReplaysStart ==
  /\ Replays(NewBatch, 0)
  /\ Evented(NewBatch) = Zeros /\ Framed(NewBatch) = NoShots
<1>1. NewBatch.events = <<>> /\ NewBatch.stacks = <<>>
  BY DEF NewBatch
<1>2. Evented(NewBatch) = Zeros /\ Framed(NewBatch) = NoShots
  BY <1>1, FoldedEmpty DEF Evented, Framed
<1>3. <<>> \in Seq(Covered(Zeros))
  OBVIOUS
<1>4. 0 <= 0
  OBVIOUS
<1>. QED
  BY <1>1, <1>2, <1>3, <1>4, ZerosType DEF Replays

LEMMA EventSeen ==
  ASSUME NEW r \in GoroutineRecord, NEW e \in Given, r.lastSeenAt <= e.ts
  PROVE  LET n == NextGoroutine(r, normalizeEvent(e))
         IN  /\ n.known /\ n.lastSeenAt = e.ts /\ n.lastStack = r.lastStack
<1>. DEFINE f == normalizeEvent(e)
            n == NextGoroutine(r, f)
<1>1. e \in Event /\ f \in Event /\ f.ts = e.ts /\ e.ts \in Nat /\ r.lastSeenAt \in Nat
  BY NormalizeType DEF Given, Event, GoroutineRecord
<1>. HIDE DEF f
<1>2. /\ n.known = TRUE
      /\ f.ts # 0 => n.lastSeenAt = f.ts
      /\ f.ts = 0 => n.lastSeenAt = r.lastSeenAt
  BY <1>1, NextGoroutineSeen
<1>3. n.lastStack = r.lastStack
  <2>1. n.lastStack = Apply(r, f).lastStack
    BY <1>1, NextFields
  <2>2. Apply(r, f).lastStack = r.lastStack
    BY <1>1, ApplyFields
  <2>. QED
    BY <2>1, <2>2
<1>. HIDE DEF n
<1>4. n.lastSeenAt = e.ts
  BY <1>1, <1>2
<1>. QED
  BY <1>2, <1>3, <1>4 DEF n, f

LEMMA FramedType ==
  ASSUME NEW acc \in Batch
  PROVE  Framed(acc) \in FrameMaps
<1>1. \A f \in FrameMaps, s \in Shots : FrameStep[<<f, s>>] \in FrameMaps
  BY FrameStepIs
<1>2. NoShots \in FrameMaps
  BY DEF NoShots, FrameMaps
<1>. DEFINE q == acc.stacks
<1>3. q \in Seq(Shots)
  BY EventedType
<1>. HIDE DEF q
<1>4. Folded(FrameStep, NoShots, q) \in FrameMaps
  BY <1>1, <1>2, <1>3, FoldedType
<1>. QED
  BY <1>4 DEF q, Framed

LEMMA ReplaysStep ==
  ASSUME NEW acc \in Batch, NEW time \in Nat, Replays(acc, time),
         NEW t \in Transition, time <= t.ts
  PROVE  LET new == appendXEvent(acc, t)
         IN  /\ Replays(new, t.ts)
             /\ Evented(new) = IF Keeps(acc.b, t)
                               THEN ReplayEvent(Evented(acc), EventOf(new.b, t))
                               ELSE Evented(acc)
             /\ Framed(new) = IF Keeps(acc.b, t) /\ HasStack(t)
                              THEN FrameStep[<<Framed(acc), StackOf(t)>>] ELSE Framed(acc)
             /\ Keeps(acc.b, t) /\ HasStack(t) => StackOf(t) \in Covered(Evented(new))
<1>. DEFINE new == appendXEvent(acc, t)
            e == EventOf(new.b, t)
            gs == Evented(acc)
            hs == Evented(new)
<1>1. /\ new \in Batch /\ e \in Given /\ e.gid = t.gid /\ e.ts = t.ts
      /\ new.events = IF Keeps(acc.b, t) THEN Append(acc.events, e) ELSE acc.events
      /\ HasStack(t) => StackOf(t) \in Shots
      /\ new.stacks = IF Keeps(acc.b, t) /\ HasStack(t)
                      THEN Append(acc.stacks, StackOf(t)) ELSE acc.stacks
  BY BatchStepIs
<1>2. /\ gs \in Gs /\ acc.events \in Seq(Given) /\ acc.stacks \in Seq(Shots)
      /\ hs \in Gs
  BY <1>1, EventedType
<1>3. t.ts \in Nat /\ t.gid \in Goroutine
  BY DEF Transition
<1>. HIDE DEF new, e
<1>4. hs = IF Keeps(acc.b, t) THEN ReplayEvent(gs, e) ELSE gs
  <2>1. Folded(EventStep, Zeros, Append(acc.events, e)) = EventStep[<<gs, e>>]
    <3>. DEFINE q == acc.events
    <3>1. q \in Seq(Given)
      BY <1>2
    <3>. HIDE DEF q
    <3>2. Folded(EventStep, Zeros, Append(q, e)) = EventStep[<<Folded(EventStep, Zeros, q), e>>]
      BY <1>1, <3>1, FoldedAppend
    <3>. QED
      BY <3>2 DEF q, Evented
  <2>2. EventStep[<<gs, e>>] = ReplayEvent(gs, e)
    BY <1>1, <1>2, ReplayedEventIs
  <2>. QED
    BY <1>1, <2>1, <2>2 DEF Evented
<1>5. Framed(new) = IF Keeps(acc.b, t) /\ HasStack(t)
                    THEN FrameStep[<<Framed(acc), StackOf(t)>>] ELSE Framed(acc)
  <2>1. ASSUME HasStack(t)
        PROVE  Folded(FrameStep, NoShots, Append(acc.stacks, StackOf(t)))
                 = FrameStep[<<Framed(acc), StackOf(t)>>]
    <3>. DEFINE q == acc.stacks
                s == StackOf(t)
    <3>1. q \in Seq(Shots) /\ s \in Shots
      BY <1>1, <1>2, <2>1
    <3>. HIDE DEF q, s
    <3>2. Folded(FrameStep, NoShots, Append(q, s)) = FrameStep[<<Folded(FrameStep, NoShots, q), s>>]
      BY <3>1, FoldedAppend
    <3>. QED
      BY <3>2 DEF q, s, Framed
  <2>. QED
    BY <1>1, <2>1 DEF Framed
<1>6. \A g \in Goroutine : /\ gs[g] \in GoroutineRecord /\ gs[g].lastSeenAt \in Nat
                           /\ gs[g].lastStack = NoFrames
                           /\ gs[g].lastSeenAt <= time
                           /\ gs[g].lastSeenAt <= t.ts
  <2>1. \A g \in Goroutine : gs[g] \in GoroutineRecord /\ gs[g].lastSeenAt \in Nat
    BY <1>2 DEF Gs, GoroutineRecord
  <2>2. \A g \in Goroutine : gs[g].lastStack = NoFrames /\ gs[g].lastSeenAt <= time
    BY DEF Replays
  <2>. HIDE DEF gs
  <2>3. ASSUME NEW n \in Nat, n <= time PROVE n <= t.ts
    BY <1>3, <2>3
  <2>. QED
    BY <2>1, <2>2, <2>3
<1>7. ASSUME Keeps(acc.b, t)
      PROVE  /\ hs[t.gid].known /\ hs[t.gid].lastSeenAt = t.ts
             /\ hs[t.gid].lastStack = NoFrames
             /\ \A g \in Goroutine : g # t.gid => hs[g] = gs[g]
  <2>1. /\ hs[t.gid] = NextGoroutine(gs[t.gid], normalizeEvent(e))
        /\ \A g \in Goroutine : g # t.gid => hs[g] = gs[g]
    <3>1. hs = ReplayEvent(gs, e)
      BY <1>4, <1>7
    <3>. HIDE DEF hs, gs
    <3>. QED
      BY <1>1, <1>2, <3>1, ReplayedEventIs
  <2>. DEFINE r == gs[t.gid]
  <2>2. r \in GoroutineRecord /\ r.lastSeenAt <= e.ts /\ r.lastStack = NoFrames
    BY <1>1, <1>3, <1>6
  <2>. HIDE DEF r, hs, gs
  <2>3. LET n == NextGoroutine(r, normalizeEvent(e))
        IN  /\ n.known /\ n.lastSeenAt = e.ts /\ n.lastStack = r.lastStack
    BY <1>1, <2>2, EventSeen
  <2>. QED
    BY <1>1, <2>1, <2>2, <2>3 DEF r
<1>. HIDE DEF gs, hs
<1>8. \A g \in Goroutine : hs[g].lastStack = NoFrames /\ hs[g].lastSeenAt <= t.ts
  <2>1. t.ts <= t.ts
    BY <1>3
  <2>2. CASE Keeps(acc.b, t)
    <3>. SUFFICES ASSUME NEW g \in Goroutine
                  PROVE  hs[g].lastStack = NoFrames /\ hs[g].lastSeenAt <= t.ts
      OBVIOUS
    <3>1. CASE g = t.gid
      BY <1>7, <2>1, <2>2, <3>1
    <3>2. CASE g # t.gid
      BY <1>6, <1>7, <2>2, <3>2
    <3>. QED
      BY <3>1, <3>2
  <2>3. CASE ~ Keeps(acc.b, t)
    BY <1>4, <1>6, <2>3
  <2>. QED
    BY <2>2, <2>3
<1>9. Covered(gs) \subseteq Covered(hs)
  <2>. SUFFICES ASSUME NEW s \in Shots, gs[s.gid].known, s.ts <= gs[s.gid].lastSeenAt
                PROVE  hs[s.gid].known /\ s.ts <= hs[s.gid].lastSeenAt
    BY DEF Covered
  <2>1. s.gid \in Goroutine /\ s.ts \in Nat
    BY DEF Shots, StackSnapshot
  <2>2. CASE Keeps(acc.b, t)
    <3>1. CASE s.gid = t.gid
      <4>1. gs[s.gid].lastSeenAt \in Nat /\ gs[s.gid].lastSeenAt <= t.ts
        BY <1>6, <2>1
      <4>2. s.ts <= t.ts
        BY <1>3, <2>1, <4>1
      <4>. QED
        BY <1>7, <2>2, <3>1, <4>2
    <3>2. CASE s.gid # t.gid
      BY <1>7, <2>1, <2>2, <3>2
    <3>. QED
      BY <3>1, <3>2
  <2>3. CASE ~ Keeps(acc.b, t)
    BY <1>4, <2>3
  <2>. QED
    BY <2>2, <2>3
<1>10. Keeps(acc.b, t) /\ HasStack(t) => StackOf(t) \in Covered(hs)
  <2>. SUFFICES ASSUME Keeps(acc.b, t), HasStack(t) PROVE StackOf(t) \in Covered(hs)
    OBVIOUS
  <2>1. StackOf(t).gid = t.gid /\ StackOf(t).ts = t.ts /\ t.ts <= t.ts
    BY <1>3 DEF StackOf
  <2>. QED
    BY <1>1, <1>7, <2>1 DEF Covered
<1>11. new.stacks \in Seq(Covered(hs))
  <2>1. acc.stacks \in Seq(Covered(gs))
    BY DEF Replays, gs
  <2>2. acc.stacks \in Seq(Covered(hs))
    <3>. DEFINE A == Covered(gs)
                B == Covered(hs)
                q == acc.stacks
    <3>. HIDE DEF A, B, q
    <3>1. q \in Seq(A) /\ A \subseteq B
      BY <1>9, <2>1 DEF A, B, q
    <3>2. q \in Seq(B)
      BY ONLY <3>1
    <3>. QED
      BY <3>2 DEF B, q
  <2>3. CASE Keeps(acc.b, t) /\ HasStack(t)
    <3>1. new.stacks = Append(acc.stacks, StackOf(t))
      BY <1>1, <2>3
    <3>. DEFINE B == Covered(hs)
                q == acc.stacks
                s == StackOf(t)
    <3>2. q \in Seq(B) /\ s \in B
      BY <1>10, <2>2, <2>3
    <3>. HIDE DEF B, q, s
    <3>3. Append(q, s) \in Seq(B)
      BY <3>2
    <3>. QED
      BY <3>1, <3>3 DEF B, q, s
  <2>4. CASE ~ (Keeps(acc.b, t) /\ HasStack(t))
    BY <1>1, <2>2, <2>4
  <2>. QED
    BY <2>3, <2>4
<1>12. Replays(new, t.ts)
  BY <1>8, <1>11 DEF Replays, hs
<1>. QED
  BY <1>4, <1>5, <1>10, <1>12 DEF new, e, gs, hs

-----------------------------------------------------------------------------
(* The runs on processors *)

\* A run ends when its goroutine's next one has not begun, so no run is ever
\* recorded twice.
RunsOK(b, time) ==
  /\ IsFiniteSet(b.raw)
  /\ \A r \in b.raw : r.end <= time /\ (b.slots[r.gid] = 0 \/ r.end <= b.slots[r.gid])

LEMMA RunsStart == NewBuilder \in Builder /\ RunsOK(NewBuilder, 0)
<1>1. NewBuilder \in Builder /\ NewBuilder.raw = {}
  BY DEF NewBuilder, Builder
<1>. QED
  BY <1>1, FS_EmptySet DEF RunsOK

LEMMA RunsStep ==
  ASSUME NEW b \in Builder, NEW time \in Nat, RunsOK(b, time),
         NEW t \in Transition, time <= t.ts
  PROVE  /\ RunsOK(Noted(b, t, EndedRun(b, t)), t.ts)
         /\ \A r \in EndedRun(b, t) : r \notin b.raw
<1>. DEFINE next == Noted(b, t, EndedRun(b, t))
<1>1. /\ t.ts \in Nat /\ t.gid \in Goroutine
      /\ \A r \in b.raw : r \in Run /\ r.gid \in Goroutine /\ r.end \in Nat
      /\ \A g \in Goroutine : b.slots[g] \in Nat
  BY DEF Transition, Builder, Run
<1>2. /\ EndedRun(b, t) \in SUBSET Run
      /\ \A r \in EndedRun(b, t) :
           /\ EndedRun(b, t) = {r} /\ r.gid = t.gid /\ r.end = t.ts
           /\ t.from = "Running" /\ b.slots[t.gid] # 0 /\ t.ts > b.slots[t.gid]
  BY EndedRunType
<1>3. /\ next.raw = b.raw \cup EndedRun(b, t)
      /\ \A g \in Goroutine :
           next.slots[g] = IF g = t.gid
                           THEN IF t.to = "Running" /\ t.onP THEN t.ts
                                ELSE IF t.from = "Running" THEN 0 ELSE b.slots[g]
                           ELSE b.slots[g]
  <2>. DEFINE ended == EndedRun(b, t)
  <2>1. ended \in SUBSET Run
    BY <1>2
  <2>. HIDE DEF ended
  <2>2. /\ Noted(b, t, ended).raw = b.raw \cup ended
        /\ \A g \in Goroutine :
             Noted(b, t, ended).slots[g] =
               IF g = t.gid
               THEN IF t.to = "Running" /\ t.onP THEN t.ts
                    ELSE IF t.from = "Running" THEN 0 ELSE b.slots[g]
               ELSE b.slots[g]
    BY <1>1, <2>1 DEF Noted, Builder
  <2>. QED
    BY <2>2 DEF ended
<1>. HIDE DEF next
<1>4. ASSUME NEW r \in EndedRun(b, t) PROVE r \notin b.raw
  <2>. SUFFICES ASSUME r \in b.raw PROVE FALSE
    OBVIOUS
  <2>1. b.slots[t.gid] # 0 /\ t.ts > b.slots[t.gid] /\ r.gid = t.gid /\ r.end = t.ts
    BY <1>2
  <2>2. t.ts <= b.slots[t.gid]
    BY <2>1 DEF RunsOK
  <2>. QED
    BY <1>1, <2>1, <2>2
<1>5. IsFiniteSet(next.raw)
  <2>1. IsFiniteSet(EndedRun(b, t))
    <3>1. EndedRun(b, t) = {} \/ \E r \in EndedRun(b, t) : EndedRun(b, t) = {r}
      BY <1>2
    <3>. QED
      <4>1. CASE EndedRun(b, t) = {}
        BY <4>1, FS_EmptySet
      <4>2. ASSUME NEW r, EndedRun(b, t) = {r} PROVE IsFiniteSet(EndedRun(b, t))
        BY <4>2, FS_Singleton
      <4>. QED
        BY <3>1, <4>1, <4>2
  <2>. DEFINE old == b.raw
              ended == EndedRun(b, t)
  <2>2. IsFiniteSet(old) /\ IsFiniteSet(ended) /\ next.raw = old \cup ended
    BY <1>3, <2>1 DEF RunsOK
  <2>. HIDE DEF old, ended
  <2>. QED
    BY <2>2, FS_Union
<1>6. ASSUME NEW r \in next.raw
      PROVE  r.end <= t.ts /\ (next.slots[r.gid] = 0 \/ r.end <= next.slots[r.gid])
  <2>1. CASE r \in b.raw
    <3>1. r.end <= time /\ r.end \in Nat /\ r.gid \in Goroutine
          /\ (b.slots[r.gid] = 0 \/ r.end <= b.slots[r.gid])
      BY <1>1, <2>1 DEF RunsOK
    <3>2. r.end <= t.ts
      BY <1>1, <3>1
    <3>. QED
      BY <1>3, <3>1, <3>2
  <2>2. CASE r \in EndedRun(b, t)
    <3>1. r.gid = t.gid /\ r.end = t.ts /\ t.from = "Running" /\ t.ts <= t.ts
      BY <1>1, <1>2, <2>2
    <3>. QED
      BY <1>1, <1>3, <3>1
  <2>. QED
    BY <1>3, <2>1, <2>2
<1>. QED
  BY <1>4, <1>5, <1>6 DEF RunsOK, next

\* The two builders agree but for the runs that one has emitted already.
Twin(s, b) ==
  /\ s.kept = b.kept /\ s.parents = b.parents /\ s.slots = b.slots
  /\ s.raw \subseteq b.raw
  /\ \A r \in b.raw \ s.raw : r.gid \in b.kept

Emitted(s, b) == Cardinality(b.raw \ s.raw)

LEMMA TwinStep ==
  ASSUME NEW s \in Builder, NEW b \in Builder, Twin(s, b), NEW time \in Nat,
         RunsOK(b, time), NEW t \in Transition, time <= t.ts
  PROVE  LET next == Noted(b, t, EndedRun(b, t))
         IN  /\ Streamed(s, t) \in Builder /\ Twin(Streamed(s, t), next)
             /\ Keeps(s, t) = Keeps(b, t)
             /\ EventOf(Streamed(s, t), t) = EventOf(next, t)
             /\ Emitted(s, b) \in Nat
             /\ Emitted(Streamed(s, t), next) =
                  IF t.gid \in s.kept /\ EndedRun(s, t) # {} THEN Emitted(s, b) + 1
                  ELSE Emitted(s, b)
<1>. DEFINE ended == EndedRun(b, t)
            next == Noted(b, t, ended)
            held == IF t.gid \in s.kept THEN {} ELSE ended
            after == Noted(s, t, held)
<1>1. EndedRun(s, t) = ended /\ Keeps(s, t) = Keeps(b, t)
  BY DEF Twin, EndedRun, Keeps
<1>2. Streamed(s, t) = after
  BY <1>1 DEF Streamed
<1>3. /\ ended \in SUBSET Run /\ held \in SUBSET Run
      /\ \A r \in ended : ended = {r} /\ r.gid = t.gid
  BY EndedRunType
<1>4. \A r \in ended : r \notin b.raw
  BY RunsStep
<1>. HIDE DEF ended, held
<1>5. /\ after \in Builder /\ next \in Builder
      /\ after.raw = s.raw \cup held /\ next.raw = b.raw \cup ended
      /\ next.kept = IF Keeps(b, t) THEN b.kept \cup {t.gid} ELSE b.kept
  <2>1. after \in Builder /\ next \in Builder
    BY <1>3, NotedType
  <2>2. /\ after.raw = s.raw \cup held /\ next.raw = b.raw \cup ended
        /\ next.kept = IF Keeps(b, t) THEN b.kept \cup {t.gid} ELSE b.kept
    BY DEF Noted
  <2>. QED
    BY <2>1, <2>2
<1>. USE DEF held
<1>6. after.kept = next.kept /\ after.parents = next.parents /\ after.slots = next.slots
  BY <1>1 DEF Noted, Twin
<1>7. EventOf(after, t) = EventOf(next, t)
  BY <1>6 DEF EventOf
<1>. HIDE DEF after, next
<1>. DEFINE old == b.raw \ s.raw
            new == next.raw \ after.raw
            c == t.gid \in s.kept /\ ended # {}
<1>8. new = IF t.gid \in s.kept THEN old \cup ended ELSE old
  <2>1. s.raw \subseteq b.raw
    BY DEF Twin
  <2>2. CASE t.gid \in s.kept
    BY <1>4, <1>5, <2>1, <2>2
  <2>3. CASE t.gid \notin s.kept
    BY <1>4, <1>5, <2>1, <2>3
  <2>. QED
    BY <2>2, <2>3
<1>9. Twin(after, next)
  <2>1. ASSUME NEW r \in new PROVE r.gid \in next.kept
    <3>1. CASE r \in old
      BY <1>5, <3>1 DEF Twin
    <3>2. CASE r \in ended /\ t.gid \in s.kept
      BY <1>3, <1>5, <3>2 DEF Twin
    <3>. QED
      BY <1>8, <2>1, <3>1, <3>2
  <2>2. after.raw \subseteq next.raw
    BY <1>5 DEF Twin
  <2>. QED
    BY <1>6, <2>1, <2>2 DEF Twin
<1>10. IsFiniteSet(old) /\ Cardinality(old) \in Nat
  BY FS_Subset, FS_CardinalityType DEF RunsOK
<1>11. Cardinality(new) = IF c THEN Cardinality(old) + 1 ELSE Cardinality(old)
  <2>1. CASE c
    <3>1. PICK r \in ended : TRUE
      BY <2>1
    <3>2. ended = {r} /\ r \notin old
      BY <1>3, <1>4, <3>1
    <3>3. new = old \cup {r}
      BY <1>8, <2>1, <3>2
    <3>. HIDE DEF old, new
    <3>. QED
      BY <1>10, <2>1, <3>2, <3>3, FS_AddElement
  <2>2. CASE ~ c
    <3>1. new = old
      BY <1>8, <2>2
    <3>. QED
      BY <2>2, <3>1
  <2>. QED
    BY <2>1, <2>2
<1>. HIDE DEF c
<1>. QED
  BY <1>1, <1>2, <1>5, <1>7, <1>9, <1>10, <1>11 DEF Emitted, c, ended, next

\* In the end both have the same parents, and the runs emitted and held are those
\* that are saved.
LEMMA TwinsEnd ==
  ASSUME NEW s \in Builder, NEW b \in Builder, Twin(s, b), IsFiniteSet(b.raw)
  PROVE  /\ KeptParents(s) = KeptParents(b)
         /\ Cardinality(KeptRuns(b)) = Emitted(s, b) + Cardinality(KeptRuns(s))
         /\ Cardinality(KeptRuns(s)) \in Nat /\ Emitted(s, b) \in Nat
         /\ KeptRuns(s) = {} => Cardinality(KeptRuns(s)) = 0
<1>. DEFINE old == b.raw \ s.raw
            held == KeptRuns(s)
<1>1. KeptParents(s) = KeptParents(b)
  BY DEF KeptParents, Twin
<1>2. KeptRuns(b) = old \cup held /\ old \cap held = {}
  BY DEF KeptRuns, Twin
<1>3. IsFiniteSet(old) /\ IsFiniteSet(held)
  <2>1. old \subseteq b.raw /\ held \subseteq b.raw
    BY DEF KeptRuns, Twin
  <2>. QED
    BY <2>1, FS_Subset
<1>. HIDE DEF old, held
<1>4. /\ Cardinality(old) \in Nat /\ Cardinality(held) \in Nat /\ Cardinality({}) = 0
      /\ Cardinality(old \cap held) = 0
  BY <1>2, <1>3, FS_CardinalityType, FS_EmptySet
<1>5. Cardinality(old \cup held) = Cardinality(old) + Cardinality(held) - Cardinality(old \cap held)
  BY <1>3, FS_Union
<1>6. Cardinality(KeptRuns(b)) = Cardinality(old) + Cardinality(held)
  BY <1>2, <1>4, <1>5
<1>. QED
  BY <1>1, <1>4, <1>6 DEF Emitted, old, held

-----------------------------------------------------------------------------
(* The calls that are left of a transition *)

GivenCall ==
  [op: {"run"}] \cup [op: {"event"}, event: Given] \cup [op: {"stack"}, stack: Shots]

\* What the engine shows of a run, and what a call makes of it.
Shows == [gs: Gs, runs: Nat]

Applied(m, c) ==
  IF c.op = "run" THEN [gs |-> m.gs, runs |-> m.runs + 1]
  ELSE IF c.op = "event" THEN [gs |-> ReplayEvent(m.gs, c.event), runs |-> m.runs]
  ELSE [gs |-> ReplayStack(m.gs, c.stack), runs |-> m.runs]

CallStep == [p \in Shows \X GivenCall |-> Applied(p[1], p[2])]

Applying(m, cs) == Folded(CallStep, m, cs)

LEMMA CallStepIs ==
  ASSUME NEW m \in Shows, NEW c \in GivenCall
  PROVE  CallStep[<<m, c>>] = Applied(m, c) /\ Applied(m, c) \in Shows
<1>1. CallStep[<<m, c>>] = Applied(m, c)
  BY DEF CallStep
<1>2. m.gs \in Gs /\ m.runs \in Nat
  BY DEF Shows
<1>3. \/ c.op = "run"
      \/ c.op = "event" /\ c.event \in Given
      \/ c.op = "stack" /\ c.stack \in Shots
  BY DEF GivenCall
<1>4. CASE c.op = "run"
  <2>1. m.runs + 1 \in Nat
    BY <1>2
  <2>. QED
    BY <1>1, <1>2, <1>4, <2>1 DEF Applied, Shows
<1>5. CASE c.op = "event" /\ c.event \in Given
  <2>1. ReplayEvent(m.gs, c.event) \in Gs
    BY <1>2, <1>5, ReplayedEventIs
  <2>. QED
    BY <1>1, <1>2, <1>5, <2>1 DEF Applied, Shows
<1>6. CASE c.op = "stack" /\ c.stack \in Shots
  <2>1. ReplayStack(m.gs, c.stack) \in Gs
    BY <1>2, <1>6, ReplayedStackIs
  <2>. QED
    BY <1>1, <1>2, <1>6, <2>1 DEF Applied, Shows
<1>. QED
  BY <1>3, <1>4, <1>5, <1>6

\* A sequence is its head before its tail.
LEMMA OneAndTail ==
  ASSUME NEW T, NEW cs \in Seq(T), cs # <<>>
  PROVE  /\ cs[1] \in T /\ Tail(cs) \in Seq(T) /\ <<cs[1]>> \in Seq(T)
         /\ cs = <<cs[1]>> \o Tail(cs)
<1>1. /\ Len(cs) \in Nat /\ Len(cs) >= 1 /\ Tail(cs) \in Seq(T) /\ cs[1] \in T
      /\ Len(Tail(cs)) = Len(cs) - 1 /\ \A i \in 1..Len(Tail(cs)) : Tail(cs)[i] = cs[i + 1]
  BY HeadTailProperties, LenProperties, EmptySeq
<1>. DEFINE one == <<cs[1]>>
            tail == Tail(cs)
            both == one \o tail
<1>2. one \in Seq(T) /\ Len(one) = 1 /\ one[1] = cs[1]
  BY <1>1
<1>. HIDE DEF one
<1>3. tail \in Seq(T)
  BY <1>1
<1>. HIDE DEF tail
<1>4. /\ both \in Seq(T) /\ Len(both) = Len(one) + Len(tail)
      /\ \A i \in 1..(Len(one) + Len(tail)) :
           both[i] = IF i <= Len(one) THEN one[i] ELSE tail[i - Len(one)]
  BY <1>2, <1>3, ConcatProperties
<1>. HIDE DEF both
<1>5. \A i \in 1..Len(cs) : cs[i] = both[i]
  BY <1>1, <1>2, <1>4 DEF tail
<1>6. Len(both) = Len(cs)
  BY <1>1, <1>2, <1>4 DEF tail
<1>7. cs = both
  BY <1>4, <1>5, <1>6, SeqEqual
<1>. QED
  BY <1>1, <1>2, <1>7 DEF both, one, tail

LEMMA ApplyingOne ==
  ASSUME NEW m \in Shows, NEW c \in GivenCall
  PROVE  Applying(m, <<c>>) = Applied(m, c)
<1>1. Folded(CallStep, m, <<c>>) = CallStep[<<m, c>>]
  BY FoldedOne
<1>. QED
  BY <1>1, CallStepIs DEF Applying

\* The first of the calls is applied first.
LEMMA ApplyingHead ==
  ASSUME NEW m \in Shows, NEW cs \in Seq(GivenCall), cs # <<>>
  PROVE  /\ cs[1] \in GivenCall /\ Tail(cs) \in Seq(GivenCall)
         /\ Applied(m, cs[1]) \in Shows
         /\ Applying(m, cs) = Applying(Applied(m, cs[1]), Tail(cs))
<1>. DEFINE one == <<cs[1]>>
            tail == Tail(cs)
<1>1. /\ cs[1] \in GivenCall /\ tail \in Seq(GivenCall) /\ one \in Seq(GivenCall)
      /\ cs = one \o tail
  BY OneAndTail
<1>2. Applying(m, one) = Applied(m, cs[1]) /\ Applied(m, cs[1]) \in Shows
  BY <1>1, ApplyingOne, CallStepIs
<1>. HIDE DEF one, tail
<1>3. Folded(CallStep, m, one \o tail) = Folded(CallStep, Folded(CallStep, m, one), tail)
  BY <1>1, FoldedConcat
<1>4. Applying(m, cs) = Applying(Applied(m, cs[1]), tail)
  BY <1>1, <1>2, <1>3 DEF Applying
<1>. QED
  BY <1>1, <1>2, <1>4 DEF tail

LEMMA ApplyingMaybe ==
  ASSUME NEW m \in Shows, NEW c, NEW given \in BOOLEAN, given => c \in GivenCall,
         NEW x, x = IF given THEN <<c>> ELSE <<>>
  PROVE  /\ x \in Seq(GivenCall)
         /\ Applying(m, x) = IF given THEN Applied(m, c) ELSE m
         /\ Applying(m, x) \in Shows
<1>1. CASE given
  <2>1. x = <<c>> /\ c \in GivenCall
    BY <1>1
  <2>2. x \in Seq(GivenCall)
    BY <2>1
  <2>. QED
    BY <1>1, <2>1, <2>2, ApplyingOne, CallStepIs
<1>2. CASE ~ given
  <2>1. x = <<>>
    BY <1>2
  <2>2. x \in Seq(GivenCall)
    BY <2>1
  <2>. QED
    BY <1>2, <2>1, <2>2, FoldedEmpty DEF Applying
<1>. QED
  BY <1>1, <1>2

\* What the stream should show after the transitions the batch builder has read.
Target(s, acc) ==
  [gs |-> Shown(Evented(acc), Framed(acc)), runs |-> Emitted(s, acc.b)]

\* The calls of a transition bring what is shown from what the transitions before
\* it make of the goroutines to what the transitions up to it do.
LEMMA TargetStep ==
  ASSUME NEW s \in Builder, NEW acc \in Batch, Twin(s, acc.b), NEW time \in Nat,
         Replays(acc, time), RunsOK(acc.b, time), NEW t \in Transition, time <= t.ts,
         NEW cs, cs = StreamCalls(s, t)
  PROVE  LET next == Streamed(s, t)
             new  == appendXEvent(acc, t)
         IN  /\ next \in Builder /\ new \in Batch /\ Twin(next, new.b)
             /\ Replays(new, t.ts) /\ RunsOK(new.b, t.ts)
             /\ cs \in Seq(GivenCall)
             /\ Target(s, acc) \in Shows
             /\ Applying(Target(s, acc), cs) = Target(next, new)
<1>. DEFINE next == Streamed(s, t)
            new == appendXEvent(acc, t)
            e == EventOf(new.b, t)
<1>1. acc.b \in Builder
  BY DEF Batch
<1>2. /\ new \in Batch /\ new.b = Noted(acc.b, t, EndedRun(acc.b, t))
      /\ e \in Given
      /\ HasStack(t) => StackOf(t) \in Shots
  BY BatchStepIs
<1>3. /\ next \in Builder /\ Twin(next, new.b)
      /\ Keeps(s, t) = Keeps(acc.b, t)
      /\ EventOf(next, t) = e
      /\ Emitted(s, acc.b) \in Nat
      /\ Emitted(next, new.b) =
           IF t.gid \in s.kept /\ EndedRun(s, t) # {} THEN Emitted(s, acc.b) + 1
           ELSE Emitted(s, acc.b)
  BY <1>1, <1>2, TwinStep
<1>4. RunsOK(new.b, t.ts)
  BY <1>1, <1>2, RunsStep
<1>. DEFINE E == Evented(acc)
            H == Evented(new)
            F == Framed(acc)
            G == Framed(new)
<1>5. /\ Replays(new, t.ts)
      /\ H = IF Keeps(acc.b, t) THEN ReplayEvent(E, e) ELSE E
      /\ G = IF Keeps(acc.b, t) /\ HasStack(t) THEN FrameStep[<<F, StackOf(t)>>] ELSE F
      /\ Keeps(acc.b, t) /\ HasStack(t) => StackOf(t) \in Covered(H)
  BY ReplaysStep
<1>6. E \in Gs /\ H \in Gs /\ F \in FrameMaps /\ G \in FrameMaps
  BY <1>2, EventedType, FramedType
<1>. DEFINE m == Target(s, acc)
            runs == t.gid \in s.kept /\ EndedRun(s, t) # {}
            keeps == Keeps(s, t)
            has == Keeps(s, t) /\ HasStack(t)
            cr == [op |-> "run"]
            ce == [op |-> "event", event |-> EventOf(next, t)]
            ck == [op |-> "stack", stack |-> StackOf(t)]
            x == IF runs THEN <<cr>> ELSE <<>>
            y == IF keeps THEN <<ce>> ELSE <<>>
            z == IF has THEN <<ck>> ELSE <<>>
<1>7. cs = x \o y \o z
  BY DEF StreamCalls
<1>8. /\ cr \in GivenCall /\ cr.op = "run"
      /\ ce \in GivenCall /\ ce.op = "event" /\ ce.event = e
      /\ has => ck \in GivenCall
      /\ ck.op = "stack" /\ ck.stack = StackOf(t)
  BY <1>2, <1>3 DEF GivenCall
<1>9. runs \in BOOLEAN /\ keeps \in BOOLEAN /\ has \in BOOLEAN
  BY DEF Keeps, HasStack
<1>10. m \in Shows /\ m.gs = Shown(E, F) /\ m.runs = Emitted(s, acc.b)
  BY <1>3, <1>6, ShownType DEF Target, Shows
<1>11. keeps = Keeps(acc.b, t)
  BY <1>3
<1>12. has = (keeps /\ HasStack(t))
  OBVIOUS
<1>13. Target(next, new) = [gs |-> Shown(H, G), runs |-> IF runs THEN m.runs + 1 ELSE m.runs]
  BY <1>3, <1>10 DEF Target
<1>. HIDE DEF next, new, e, E, H, F, G, m, runs, keeps, has, cr, ce, ck
<1>. DEFINE m1 == Applying(m, x)
            m2 == Applying(m1, y)
            m3 == Applying(m2, z)
<1>14. /\ x \in Seq(GivenCall) /\ m1 \in Shows
       /\ m1 = IF runs THEN Applied(m, cr) ELSE m
  BY <1>8, <1>9, <1>10, ApplyingMaybe
<1>. HIDE DEF m1
<1>15. /\ y \in Seq(GivenCall) /\ m2 \in Shows
       /\ m2 = IF keeps THEN Applied(m1, ce) ELSE m1
  BY <1>8, <1>9, <1>14, ApplyingMaybe
<1>. HIDE DEF m2
<1>16. /\ z \in Seq(GivenCall) /\ m3 \in Shows
       /\ m3 = IF has THEN Applied(m2, ck) ELSE m2
  BY <1>8, <1>9, <1>15, ApplyingMaybe
<1>. HIDE DEF m3, x, y, z
<1>17. m1.gs = Shown(E, F) /\ m1.runs = IF runs THEN m.runs + 1 ELSE m.runs
  BY <1>8, <1>10, <1>14 DEF Applied
<1>18. m2.gs = Shown(H, F) /\ m2.runs = m1.runs
  <2>1. CASE keeps
    <3>1. m2.gs = ReplayEvent(m1.gs, e) /\ m2.runs = m1.runs
      BY <1>8, <1>15, <2>1 DEF Applied
    <3>2. H = ReplayEvent(E, e)
      BY <1>5, <1>11, <2>1
    <3>. QED
      BY <1>2, <1>6, <1>17, <3>1, <3>2, ShownEvent
  <2>2. CASE ~ keeps
    BY <1>5, <1>11, <1>15, <1>17, <2>2
  <2>. QED
    BY <1>9, <2>1, <2>2
<1>19. m3.gs = Shown(H, G) /\ m3.runs = m2.runs
  <2>1. CASE has
    <3>1. m3.gs = ReplayStack(m2.gs, StackOf(t)) /\ m3.runs = m2.runs
      BY <1>8, <1>16, <2>1 DEF Applied
    <3>2. G = FrameStep[<<F, StackOf(t)>>] /\ StackOf(t) \in Covered(H)
      BY <1>5, <1>11, <1>12, <2>1
    <3>. QED
      BY <1>6, <1>18, <3>1, <3>2, ShownStack
  <2>2. CASE ~ has
    BY <1>5, <1>11, <1>12, <1>16, <1>18, <2>2
  <2>. QED
    BY <1>9, <2>1, <2>2
<1>20. m3 = [gs |-> Shown(H, G), runs |-> IF runs THEN m.runs + 1 ELSE m.runs]
  BY <1>16, <1>17, <1>18, <1>19 DEF Shows
<1>21. Applying(m, cs) = m3 /\ cs \in Seq(GivenCall)
  <2>. DEFINE xy == x \o y
  <2>1. xy \in Seq(GivenCall)
    BY <1>14, <1>15
  <2>2. Folded(CallStep, m, x \o y) = Folded(CallStep, Folded(CallStep, m, x), y)
    BY <1>14, <1>15, FoldedConcat
  <2>. HIDE DEF xy
  <2>3. Folded(CallStep, m, xy \o z) = Folded(CallStep, Folded(CallStep, m, xy), z)
    BY <1>16, <2>1, FoldedConcat
  <2>4. xy \o z \in Seq(GivenCall) /\ cs = xy \o z
    BY <1>7, <1>16, <2>1 DEF xy
  <2>. QED
    BY <2>2, <2>3, <2>4 DEF Applying, m1, m2, m3, xy
<1>. QED
  BY <1>2, <1>3, <1>4, <1>5, <1>10, <1>13, <1>20, <1>21 DEF m, next, new

-----------------------------------------------------------------------------
(* The end of the run: the parents, the held runs and the labels *)

\* Nothing to merge changes nothing.
LEMMA MergeNothing ==
  ASSUME NEW gs \in Gs, NEW ids, NEW labels
  PROVE  /\ (\A g \in Goroutine : ids[g] = NoID) => MergeParents(gs, ids) = gs
         /\ (\A g \in Goroutine : labels[g] = NoLabel) => MergeLabels(gs, labels) = gs
<1>1. ASSUME NEW r \in GoroutineRecord
      PROVE  /\ r.parent = NoID => [r EXCEPT !.parent = NoID] = r
             /\ [r EXCEPT !.label = OverrideLabel(NoLabel, @)] = r
  BY DEF GoroutineRecord, OverrideLabel
<1>2. gs = [g \in Goroutine |-> gs[g]] /\ \A g \in Goroutine : gs[g] \in GoroutineRecord
  BY DEF Gs
<1>3. ASSUME \A g \in Goroutine : ids[g] = NoID
      PROVE  MergeParents(gs, ids) = gs
  <2>1. \A g \in Goroutine :
          (IF gs[g].known /\ gs[g].parent = NoID
           THEN [gs[g] EXCEPT !.parent = ids[g]] ELSE gs[g]) = gs[g]
    BY <1>1, <1>2, <1>3
  <2>. QED
    BY <1>2, <2>1 DEF MergeParents
<1>4. ASSUME \A g \in Goroutine : labels[g] = NoLabel
      PROVE  MergeLabels(gs, labels) = gs
  <2>1. \A g \in Goroutine :
          (IF gs[g].known
           THEN [gs[g] EXCEPT !.label = OverrideLabel(labels[g], @)] ELSE gs[g]) = gs[g]
    BY <1>1, <1>2, <1>4
  <2>. QED
    BY <1>2, <2>1 DEF MergeLabels
<1>. QED
  BY <1>3, <1>4

\* The last thing the stream and the replay do to the goroutines.
Finally(gs, ids, labels) == MergeLabels(MergeParents(gs, ids), labels)

LEMMA FinallyLocal ==
  ASSUME NEW gs, NEW hs, NEW ids, NEW labels, NEW g \in Goroutine
  PROVE  /\ gs[g] = hs[g] => Finally(gs, ids, labels)[g] = Finally(hs, ids, labels)[g]
         /\ gs[g] = ZeroGoroutine => Finally(gs, ids, labels)[g] = ZeroGoroutine
<1>1. ~ ZeroGoroutine.known
  BY DEF ZeroGoroutine
<1>2. gs[g] = hs[g] => MergeParents(gs, ids)[g] = MergeParents(hs, ids)[g]
  BY DEF MergeParents
<1>3. gs[g] = ZeroGoroutine => MergeParents(gs, ids)[g] = ZeroGoroutine
  BY <1>1 DEF MergeParents
<1>. DEFINE a == MergeParents(gs, ids)
            b == MergeParents(hs, ids)
<1>. HIDE DEF a, b
<1>4. a[g] = b[g] => MergeLabels(a, labels)[g] = MergeLabels(b, labels)[g]
  BY DEF MergeLabels
<1>5. a[g] = ZeroGoroutine => MergeLabels(a, labels)[g] = ZeroGoroutine
  BY <1>1 DEF MergeLabels
<1>. QED
  BY <1>2, <1>3, <1>4, <1>5 DEF a, b, Finally

-----------------------------------------------------------------------------
(* What the batch path saves *)

\* What the filter leaves of a list.
Left(seq, keep, T) == IF keep = {} THEN seq ELSE Chosen(seq, Of(keep, T))

LEMMA PickedIs ==
  ASSUME NEW T, NEW seq \in Seq(T), NEW keep
  PROVE  FlattenSeq([k \in DOMAIN seq |-> IF seq[k].gid \in keep THEN <<seq[k]>> ELSE <<>>])
           = Chosen(seq, Of(keep, T))
<1>1. \A k \in DOMAIN seq : seq[k] \in T
  OBVIOUS
<1>2. \A k \in DOMAIN seq : (IF seq[k].gid \in keep THEN <<seq[k]>> ELSE <<>>)
                               = PickOf(seq[k], Of(keep, T))
  BY <1>1 DEF PickOf, Of
<1>3. [k \in DOMAIN seq |-> IF seq[k].gid \in keep THEN <<seq[k]>> ELSE <<>>]
        = [k \in DOMAIN seq |-> PickOf(seq[k], Of(keep, T))]
  BY <1>2
<1>. QED
  BY <1>3 DEF Chosen

LEMMA FilterIs ==
  ASSUME NEW ev \in Seq(Given), NEW st \in Seq(Shots), NEW keep, keep = Relevant(st),
         NEW f, f = filterCapture([events |-> ev, stacks |-> st])
  PROVE  /\ f.events = Left(ev, keep, Given)
         /\ f.stacks = Left(st, keep, Shots)
<1>1. ASSUME NEW capture, capture = [events |-> ev, stacks |-> st]
      PROVE  /\ filterCapture(capture).events =
                  Left(ev, keep, Given)
             /\ filterCapture(capture).stacks =
                  Left(st, keep, Shots)
  <2>. DEFINE kept == Relevant(capture.stacks)
              evs == capture.events
              sts == capture.stacks
  <2>1. evs = ev /\ sts = st
    BY <1>1
  <2>2. kept = keep
    BY <1>1
  <2>. DEFINE pe == FlattenSeq([k \in DOMAIN evs |-> IF evs[k].gid \in kept
                                                     THEN <<evs[k]>> ELSE <<>>])
              ps == FlattenSeq([k \in DOMAIN sts |-> IF sts[k].gid \in kept
                                                     THEN <<sts[k]>> ELSE <<>>])
  <2>3. filterCapture(capture) =
          IF kept = {} THEN capture ELSE [capture EXCEPT !.events = pe, !.stacks = ps]
    BY Zenon DEF filterCapture, Where
  <2>4. evs \in Seq(Given) /\ sts \in Seq(Shots)
    BY <2>1
  <2>. HIDE DEF kept, evs, sts
  <2>5. pe = Chosen(evs, Of(kept, Given)) /\ ps = Chosen(sts, Of(kept, Shots))
    BY <2>4, PickedIs
  <2>. HIDE DEF pe, ps
  <2>6. [capture EXCEPT !.events = pe, !.stacks = ps] = [events |-> pe, stacks |-> ps]
    <3>1. [capture EXCEPT !.events = pe, !.stacks = ps]
            = [[capture EXCEPT !.events = pe] EXCEPT !.stacks = ps]
      OBVIOUS
    <3>. DEFINE c == [capture EXCEPT !.events = pe]
    <3>2. c = [events |-> pe, stacks |-> st]
      BY <1>1
    <3>. HIDE DEF c
    <3>3. [c EXCEPT !.stacks = ps] = [events |-> pe, stacks |-> ps]
      BY <3>2
    <3>. QED
      BY <3>1, <3>3 DEF c
  <2>. QED
    BY <1>1, <2>1, <2>2, <2>3, <2>5, <2>6 DEF Left
<1>. QED
  BY <1>1

LEMMA SavedIs ==
  ASSUME NEW t \in Seq(Transition), NEW labels, NEW saved, saved = BuildCapture(t, labels),
         NEW acc, acc = Built(t, Len(t)), NEW keep, keep = Relevant(acc.stacks)
  PROVE  /\ acc \in Batch
         /\ saved.events = Left(acc.events, keep, Given)
         /\ saved.stacks = Left(acc.stacks, keep, Shots)
         /\ saved.parents = KeptParents(acc.b) /\ saved.runs = KeptRuns(acc.b)
         /\ saved.labels = labels
<1>. DEFINE f == filterCapture([events |-> acc.events, stacks |-> acc.stacks])
<1>1. acc = FoldLeft(appendXEvent, NewBatch, t) /\ acc \in Batch
  <2>1. Len(t) \in 0..Len(t)
    BY LenProperties
  <2>. QED
    BY <2>1, BuiltIs
<1>2. acc.events \in Seq(Given) /\ acc.stacks \in Seq(Shots)
  BY <1>1, EventedType
<1>3. saved = [events |-> f.events, stacks |-> f.stacks, parents |-> KeptParents(acc.b),
               runs |-> KeptRuns(acc.b), labels |-> labels]
  BY <1>1 DEF BuildCapture, NewBatch
<1>. HIDE DEF f
<1>4. /\ f.events = Left(acc.events, keep, Given)
      /\ f.stacks = Left(acc.stacks, keep, Shots)
  BY <1>2, FilterIs DEF f
<1>. QED
  <2>1. /\ saved.events = f.events /\ saved.stacks = f.stacks
        /\ saved.parents = KeptParents(acc.b) /\ saved.runs = KeptRuns(acc.b)
        /\ saved.labels = labels
    BY <1>3
  <2>. QED
    BY <1>1, <1>4, <2>1

\* What a saved capture replays to, before the parents and the labels: the record
\* of the stream for the goroutines that stay, nothing for the others.
LEMMA ReplayedIs ==
  ASSUME NEW acc \in Batch, NEW time, Replays(acc, time), NEW keep,
         NEW ev, ev = Left(acc.events, keep, Given),
         NEW st, st = Left(acc.stacks, keep, Shots),
         NEW gs, gs = FoldLeft(ReplayStack, FoldLeft(ReplayEvent, Zeros, ev), st),
         NEW g \in Goroutine
  PROVE  gs[g] = Shown(Evented(acc), Framed(acc))[g] \/ gs[g] = ZeroGoroutine
<1>. DEFINE E == Evented(acc)
            all == Folded(StackStep, E, acc.stacks)
            A == Folded(EventStep, Zeros, ev)
<1>1. /\ E \in Gs /\ acc.events \in Seq(Given) /\ acc.stacks \in Seq(Shots)
      /\ Zeros \in Gs /\ \A h \in Goroutine : Zeros[h] = ZeroGoroutine
  BY EventedType, ZerosType
<1>2. all = Shown(E, Framed(acc))
  <2>1. /\ \A h \in Goroutine : E[h].lastStack = NoFrames
        /\ acc.stacks \in Seq(Covered(E))
    BY DEF Replays
  <2>. HIDE DEF E
  <2>. QED
    BY <1>1, <2>1, StacksShown DEF Framed
<1>3. ev \in Seq(Given) /\ st \in Seq(Shots)
  BY <1>1, ChosenType DEF Left
<1>4. A \in Gs
  <2>1. \A a \in Gs, e \in Given : EventStep[<<a, e>>] \in Gs
    BY ReplayedEventIs
  <2>. QED
    BY <1>1, <1>3, <2>1, FoldedType
<1>5. FoldLeft(ReplayEvent, Zeros, ev) = A
  BY <1>1, <1>3, EventsFold
<1>. HIDE DEF A
<1>6. gs = Folded(StackStep, A, st)
  BY <1>3, <1>4, <1>5, StacksFold
<1>7. CASE keep = {}
  <2>1. A = E
    BY <1>7 DEF A, Evented, Left
  <2>. QED
    BY <1>2, <1>6, <1>7, <2>1 DEF Left
<1>8. CASE keep # {}
  <2>1. \A h \in Goroutine : Zeros[h] = Zeros[h]
    OBVIOUS
  <2>2. /\ g \in keep => A[g] = E[g]
        /\ g \notin keep => A[g] = Zeros[g]
    BY <1>1, <1>8, <2>1, ReplaysAreLocal, KeptFold DEF A, Evented, Left
  <2>3. \A h \in Goroutine : h \in keep => A[h] = E[h]
    BY <1>1, <1>8, <2>1, ReplaysAreLocal, KeptFold DEF A, Evented, Left
  <2>. HIDE DEF E
  <2>4. /\ g \in keep =>
             Folded(StackStep, A, Chosen(acc.stacks, Of(keep, Shots)))[g] = all[g]
        /\ g \notin keep =>
             Folded(StackStep, A, Chosen(acc.stacks, Of(keep, Shots)))[g] = A[g]
    BY <1>1, <1>4, <2>3, ReplaysAreLocal, KeptFold
  <2>. QED
    BY <1>1, <1>2, <1>6, <1>8, <2>2, <2>4 DEF E, Left
<1>. QED
  BY <1>7, <1>8

-----------------------------------------------------------------------------
(* The run and the capture, step by step *)

\* The batch builder after the transitions the stream has read, what the engine
\* should show of them once the calls that are left are made, what it shows, and
\* what it should show in the end.
Acc == Built(trace, pos)
Goal == Target(builder, Acc)
Live == [gs |-> goroutines, runs |-> processorSegments]
Parented == MergeParents(Goal.gs, KeptParents(builder))
Labelled == MergeLabels(Parented, Sidecar)
Total == Goal.runs + Cardinality(KeptRuns(builder))

Reading ==
  pc \in {"start", "open", "await", "loop", "read", "check", "apply", "mark", "unmark",
          "flush", "parents"}

\* The stream has ended without an error, and so, at last, has the run.
Settled ==
  \/ pc \in {"runs", "endflush"}
  \/ pc \in {"labels", "labelflush", "wait"} /\ ~ streamErr
  \/ pc = "end" /\ current.status = "completed"

\* The two builders go together, ...
Paired ==
  /\ builder \in Builder /\ Twin(builder, Acc.b)
  /\ Replays(Acc, Clock) /\ RunsOK(Acc.b, Clock)

\* ... the engine shows what the batch builder will save, ...
Showing ==
  /\ pc # "apply" => calls = <<>>
  /\ pc = "start" => goroutines = Zeros /\ processorSegments = 0
  /\ Reading => Live \in Shows /\ Applying(Live, calls) = Goal
                /\ calls \in Seq(GivenCall)
  /\ Settled => exited # "no" /\ pos = written
  /\ pc = "runs" => goroutines = Parented /\ processorSegments = Goal.runs
  /\ pc = "endflush" \/ (pc = "labels" /\ Settled) =>
       goroutines = Parented /\ processorSegments = Total
  /\ pc \in {"labelflush", "wait", "end"} /\ Settled =>
       goroutines = Labelled /\ processorSegments = Total

\* ... and the last step alone completes the session.
RunSession ==
  /\ current = [id |-> current.id, status |-> current.status]
  /\ pc # "end" => current.status # "completed"

\* Nobody uploads and nobody cancels.
Alone == Undisturbed /\ ~ cancelled

SavedInv == OrderInv /\ ReadInv /\ (Alone => Paired /\ Showing /\ RunSession)

\* A step that neither reads nor tells the engine leaves the aim where it was.
LEMMA SameAim ==
  ASSUME UNCHANGED <<trace, pos, builder>>
  PROVE  /\ Clock' = Clock /\ Acc' = Acc /\ Goal' = Goal
         /\ Parented' = Parented /\ Labelled' = Labelled /\ Total' = Total
         /\ Paired => Paired'
<1>1. Clock' = Clock /\ Acc' = Acc
  BY DEF Clock, Acc
<1>2. Goal' = Goal
  BY <1>1 DEF Goal
<1>3. Parented' = Parented
  BY <1>2 DEF Parented
<1>4. Labelled' = Labelled
  BY <1>3 DEF Labelled
<1>5. Total' = Total
  BY <1>2 DEF Total
<1>. QED
  BY <1>1, <1>2, <1>3, <1>4, <1>5 DEF Paired

LEMMA SameLive ==
  ASSUME UNCHANGED <<goroutines, processorSegments>>
  PROVE  Live' = Live
BY DEF Live

\* The session that fails is not the one that completes.
LEMMA FailedSession ==
  ASSUME RunSession, pc # "end", FailCurrent
  PROVE  /\ current' = [id |-> current'.id, status |-> current'.status]
         /\ current'.status # "completed"
<1>1. current' = Finished(Manager, "failed").current
  BY DEF FailCurrent, Becomes
<1>2. current = [id |-> current.id, status |-> current.status]
      /\ current.status # "completed"
  BY DEF RunSession
<1>3. CASE current = NilSession
  <2>1. current' = current
    BY <1>1, <1>3 DEF Finished, Manager
  <2>. QED
    BY <1>2, <2>1
<1>4. CASE current # NilSession
  <2>1. current' = [current EXCEPT !.status = "failed"]
    BY <1>1, <1>4 DEF Finished, Manager
  <2>2. current' = [id |-> current.id, status |-> "failed"]
    BY <1>2, <2>1
  <2>. QED
    BY <2>2
<1>. QED
  BY <1>3, <1>4

LEMMA CompletedSession ==
  ASSUME RunSession, CompleteCurrent
  PROVE  current' = [id |-> current'.id, status |-> current'.status]
<1>1. current' = Finished(Manager, "completed").current
  BY DEF CompleteCurrent, Becomes
<1>2. current = [id |-> current.id, status |-> current.status]
  BY DEF RunSession
<1>3. CASE current = NilSession
  <2>1. current' = current
    BY <1>1, <1>3 DEF Finished, Manager
  <2>. QED
    BY <1>2, <2>1
<1>4. CASE current # NilSession
  <2>1. current' = [current EXCEPT !.status = "completed"]
    BY <1>1, <1>4 DEF Finished, Manager
  <2>2. current' = [id |-> current.id, status |-> "completed"]
    BY <1>2, <2>1
  <2>. QED
    BY <2>2
<1>. QED
  BY <1>3, <1>4

LEMMA StartedSession ==
  ASSUME StartSession
  PROVE  /\ current' = [id |-> current'.id, status |-> current'.status]
         /\ current'.status # "completed"
<1>1. current' = Started(Manager).current
  BY DEF StartSession, Becomes
<1>2. current' = [id |-> nextID + 1, status |-> "running"]
  BY <1>1 DEF Started, Manager
<1>. QED
  BY <1>2

LEMMA SavedInit == LiveInit => SavedInv
<1>. SUFFICES ASSUME LiveInit PROVE SavedInv
  OBVIOUS
<1>1. OrderInv /\ ReadInv
  BY OrderInit, ReadInit
<1>2. /\ trace \in Traces /\ pos = 0 /\ builder = NewBuilder /\ calls = <<>>
      /\ pc = "start" /\ goroutines = [g \in Goroutine |-> ZeroGoroutine]
      /\ processorSegments = 0 /\ current = NilSession
  BY DEF LiveInit, Init, SessionInit, NewManager
<1>3. Acc = NewBatch /\ Clock = 0
  <2>1. trace \in Seq(Transition)
    BY <1>2, LiveAssumption DEF TraceInOrder
  <2>. QED
    BY <1>2, <2>1, BuiltIs DEF Acc, Clock
<1>4. NewBatch.b = NewBuilder
  BY DEF NewBatch
<1>5. Twin(NewBuilder, NewBuilder)
  BY DEF Twin
<1>6. Paired
  BY <1>2, <1>3, <1>4, <1>5, ReplaysStart, RunsStart DEF Paired
<1>7. Goal = [gs |-> Zeros, runs |-> 0]
  <2>1. Shown(Zeros, NoShots) = Zeros
    <3>1. Zeros \in Gs /\ NoShots \in FrameMaps
      BY ZerosType DEF NoShots, FrameMaps
    <3>2. Shot(ZeroGoroutine, NoFrames) = ZeroGoroutine
      <4>1. ASSUME NEW r \in GoroutineRecord, r.lastStack = NoFrames
            PROVE  Shot(r, NoFrames) = r
        BY <4>1 DEF Shot, GoroutineRecord
      <4>. QED
        BY <4>1, ZeroGoroutineType, ZerosType
    <3>3. \A g \in Goroutine : Shot(Zeros[g], NoShots[g]) = ZeroGoroutine
      BY <3>2 DEF Zeros, NoShots
    <3>. QED
      BY <3>3 DEF Shown, Zeros
  <2>2. Emitted(NewBuilder, NewBuilder) = 0
    <3>1. NewBuilder.raw \ NewBuilder.raw = {}
      OBVIOUS
    <3>. QED
      BY <3>1, FS_EmptySet DEF Emitted
  <2>. QED
    BY <1>2, <1>3, <1>4, <2>1, <2>2, ReplaysStart DEF Goal, Target
<1>8. Live = Goal /\ Live \in Shows
  BY <1>2, <1>7, ZerosType DEF Live, Zeros, Shows
<1>9. Applying(Live, calls) = Goal /\ calls \in Seq(GivenCall)
  BY <1>2, <1>8, FoldedEmpty DEF Applying
<1>10. Showing
  BY <1>2, <1>8, <1>9 DEF Showing, Settled, Zeros
<1>11. RunSession
  BY <1>2 DEF RunSession, NilSession
<1>. QED
  BY <1>1, <1>6, <1>10, <1>11 DEF SavedInv

\* Reading a transition: both builders note it, and what the stream shows once it
\* has made its calls is what the batch builder holds.
LEMMA SavedConsume ==
  ASSUME CallsInv, Paired, Showing, RunSession, pos < written, Consume,
         pc \in {"read", "check"}, UNCHANGED <<trace, goroutines, processorSegments, current>>
  PROVE  Paired' /\ Showing' /\ RunSession'
<1>. DEFINE t == trace[pos + 1]
<1>1. /\ Clock \in Nat /\ t \in Transition /\ t.ts \in Nat /\ Clock <= t.ts
  BY ClockType
<1>2. trace \in Seq(Transition) /\ pos \in Nat /\ pos < Len(trace)
  <2>1. trace \in Seq(Transition) /\ Len(trace) \in Nat
    BY LiveAssumption, LenProperties DEF CallsInv, TraceInOrder
  <2>2. pos \in Nat /\ written \in Nat /\ written <= Len(trace)
    BY DEF CallsInv
  <2>. DEFINE n == Len(trace)
  <2>3. n \in Nat /\ written <= n
    BY <2>1, <2>2
  <2>. HIDE DEF n
  <2>4. pos < n
    BY ONLY <2>2, <2>3, pos < written
  <2>. QED
    BY <2>1, <2>2, <2>4 DEF n
<1>3. /\ pos' = pos + 1 /\ builder' = Streamed(builder, t)
      /\ calls' = StreamCalls(builder, t)
      /\ pc' = IF calls' = <<>> THEN "loop" ELSE "apply"
  BY DEF Consume, Goto
<1>4. Acc \in Batch /\ Acc' = appendXEvent(Acc, t)
  <2>1. pos \in 0..Len(trace)
    <3>1. Len(trace) \in Nat
      BY <1>2, LenProperties
    <3>. QED
      BY <1>2, <3>1
  <2>2. Built(trace, pos + 1) = appendXEvent(Built(trace, pos), t) /\ Built(trace, pos) \in Batch
    BY <1>2, <2>1, BuiltIs
  <2>. QED
    BY <1>3, <2>2 DEF Acc
<1>5. Clock' = t.ts
  <2>1. pos + 1 # 0
    BY <1>2
  <2>. QED
    BY <1>3, <2>1 DEF Clock
<1>6. /\ builder \in Builder /\ Twin(builder, Acc.b)
      /\ Replays(Acc, Clock) /\ RunsOK(Acc.b, Clock)
  BY DEF Paired
<1>. DEFINE cs == StreamCalls(builder, t)
            next == Streamed(builder, t)
            new == appendXEvent(Acc, t)
<1>. HIDE DEF t
<1>7. /\ next \in Builder /\ Twin(next, new.b)
      /\ Replays(new, t.ts) /\ RunsOK(new.b, t.ts)
      /\ cs \in Seq(GivenCall)
      /\ Target(builder, Acc) \in Shows
      /\ Applying(Target(builder, Acc), cs) = Target(next, new)
  <2>. HIDE DEF cs
  <2>1. cs = StreamCalls(builder, t)
    BY DEF cs
  <2>. QED
    BY <1>1, <1>4, <1>6, <2>1, TargetStep
<1>8. Paired'
  BY <1>3, <1>4, <1>5, <1>7 DEF Paired
<1>9. Live = Goal /\ Live' = Live
  <2>1. Reading /\ calls = <<>>
    BY DEF Showing, Reading
  <2>2. Applying(Live, <<>>) = Goal
    BY <2>1 DEF Showing
  <2>. QED
    BY <2>2, FoldedEmpty, SameLive DEF Applying
<1>10. Goal' = Target(next, new)
  BY <1>3, <1>4 DEF Goal
<1>11. Live' \in Shows /\ Applying(Live', calls') = Goal' /\ calls' \in Seq(GivenCall)
  BY <1>3, <1>7, <1>9, <1>10 DEF Goal
<1>. HIDE DEF cs, next, new
<1>12. pc' \in {"loop", "apply"} /\ (pc' # "apply" => calls' = <<>>)
  BY <1>3
<1>13. ~ Settled'
  BY <1>12 DEF Settled
<1>14. Showing'
  BY <1>11, <1>12, <1>13 DEF Showing
<1>15. RunSession'
  BY <1>12 DEF RunSession
<1>. QED
  BY <1>8, <1>14, <1>15

\* A call makes the engine show what the call is for.
LEMMA SavedApply ==
  ASSUME CallsInv, Ready, Paired, Showing, RunSession, Apply1
  PROVE  Paired' /\ Showing' /\ RunSession'
<1>. DEFINE c == calls[1]
<1>1. /\ calls # <<>> /\ Head(calls) = c /\ calls' = Tail(calls)
      /\ UNCHANGED <<trace, pos, builder, current>>
      /\ pc = "apply" /\ pc' = IF calls' = <<>> THEN "mark" ELSE "apply"
  BY DEF Apply1, Goto, CallsInv, targetVars, sessionVars
<1>2. Live \in Shows /\ Applying(Live, calls) = Goal /\ calls \in Seq(GivenCall)
  BY <1>1 DEF Showing, Reading
<1>3. /\ c \in GivenCall /\ Tail(calls) \in Seq(GivenCall) /\ Applied(Live, c) \in Shows
      /\ Applying(Live, calls) = Applying(Applied(Live, c), Tail(calls))
  BY <1>1, <1>2, ApplyingHead
<1>4. goroutines \in Gs
  BY <1>2 DEF Shows, Live
<1>5. Live' = Applied(Live, c)
  <2>1. CASE c.op = "run" /\ AddProcessorSegments(1)
    BY <2>1 DEF AddProcessorSegments, timelineVars, Applied, Live
  <2>2. CASE c.op = "event" /\ ApplyEvent(c.event)
    <3>. DEFINE e == c.event
    <3>1. e \in Given
      BY <1>3, <2>2 DEF GivenCall
    <3>2. e \in Event /\ e.gid \in Goroutine /\ e.gid # NoID
      BY <3>1, NoIDAssumption DEF Given
    <3>3. normalizeEvent(e).gid = e.gid
      BY <3>2, NormalizeType
    <3>. HIDE DEF e
    <3>4. goroutines' = [goroutines EXCEPT ![e.gid] =
                           NextGoroutine(goroutines[e.gid], normalizeEvent(e))]
      BY <2>2, <3>2, <3>3 DEF ApplyEvent, applyEventLocked, e
    <3>5. goroutines' = ReplayEvent(goroutines, e) /\ UNCHANGED processorSegments
      BY <2>2, <3>4 DEF ReplayEvent, ApplyEvent
    <3>. QED
      BY <2>2, <3>5 DEF Applied, Live, e
  <2>3. CASE c.op = "stack" /\ ApplyStackSnapshot(c.stack)
    <3>. DEFINE s == c.stack
    <3>1. s \in Shots
      BY <1>3, <2>3 DEF GivenCall
    <3>2. s.gid # NoID
      BY <3>1, NoIDAssumption DEF Shots
    <3>. HIDE DEF s
    <3>3. goroutines' = ReplayStack(goroutines, s) /\ UNCHANGED processorSegments
      BY <2>3, <3>2 DEF ReplayStack, ApplyStackSnapshot, applyStackSnapshotLocked, s
    <3>. QED
      BY <2>3, <3>3 DEF Applied, Live, s
  <2>. QED
    BY <1>1, <2>1, <2>2, <2>3 DEF Apply1
<1>6. Paired' /\ Goal' = Goal
  BY <1>1, SameAim
<1>. HIDE DEF c
<1>7. pc' \in {"mark", "apply"} /\ (pc' # "apply" => calls' = <<>>)
  BY <1>1
<1>8. ~ Settled'
  BY <1>7 DEF Settled
<1>9. Live' \in Shows /\ Applying(Live', calls') = Goal' /\ calls' \in Seq(GivenCall)
  BY <1>1, <1>2, <1>3, <1>5, <1>6
<1>10. Showing'
  BY <1>7, <1>8, <1>9 DEF Showing
<1>11. RunSession'
  BY <1>1, <1>7 DEF RunSession
<1>. QED
  BY <1>6, <1>10, <1>11

\* A step that leaves the reader, the engine's records and the session alone, and
\* takes the stream no further than it is.
LEMMA SavedQuiet ==
  ASSUME Paired, Showing, RunSession,
         UNCHANGED <<trace, readVars, goroutines, processorSegments, current>>,
         \/ UNCHANGED <<pc, streamErr>>
         \/ Reading /\ Reading' /\ pc # "apply" /\ pc' # "start"
         \/ pc' = "labels" /\ streamErr' /\ pc \notin {"apply", "end"},
         Settled => UNCHANGED written /\ exited' # "no"
  PROVE  Paired' /\ Showing' /\ RunSession'
<1>1. /\ Paired' /\ Goal' = Goal /\ Parented' = Parented /\ Labelled' = Labelled
      /\ Total' = Total /\ Live' = Live /\ UNCHANGED <<pos, calls>>
  BY SameAim, SameLive DEF readVars
<1>2. CASE UNCHANGED <<pc, streamErr>>
  <2>1. Reading' = Reading /\ Settled' = Settled
    BY <1>2 DEF Reading, Settled
  <2>2. Showing'
    BY <1>1, <1>2, <2>1 DEF Showing
  <2>. QED
    BY <1>1, <1>2, <2>2 DEF RunSession
<1>3. CASE Reading /\ Reading' /\ pc # "apply" /\ pc' # "start"
  <2>1. pc' \notin {"start", "runs", "endflush", "labels", "labelflush", "wait", "end"}
    BY <1>3 DEF Reading
  <2>2. ~ Settled' /\ calls' = <<>>
    BY <1>1, <1>3, <2>1 DEF Settled, Showing
  <2>3. Showing'
    BY <1>1, <1>3, <2>1, <2>2 DEF Showing
  <2>4. pc # "end"
    BY <1>3 DEF Reading
  <2>. QED
    BY <1>1, <2>3, <2>4 DEF RunSession
<1>4. CASE pc' = "labels" /\ streamErr' /\ pc \notin {"apply", "end"}
  <2>1. ~ Settled' /\ ~ Reading' /\ calls' = <<>>
    BY <1>1, <1>4 DEF Settled, Reading, Showing
  <2>2. Showing'
    BY <1>1, <1>4, <2>1 DEF Showing
  <2>3. RunSession'
    BY <1>4 DEF RunSession
  <2>. QED
    BY <1>1, <2>2, <2>3
<1>. QED
  BY <1>2, <1>3, <1>4

\* The end of the stream, one step at a time.
LEMMA SavedEnds ==
  ASSUME CallsInv, ReadInv, Ready, Paired, Showing, RunSession, ~ cancelled,
         EmitParents \/ EmitRuns \/ ApplyLabels \/ Finish
           \/ (StreamFlush /\ pc # "flush")
  PROVE  Paired' /\ Showing' /\ RunSession'
<1>. USE DEF Goto
<1>0. /\ UNCHANGED <<trace, written, exited, pos, builder, calls>>
      /\ pc' \notin {"start", "apply"} /\ ~ Reading' /\ pc # "apply"
      /\ UNCHANGED streamErr
  <2>. USE DEF targetVars, readVars, Reading
  <2>1. EmitParents \/ EmitRuns =>
           /\ UNCHANGED <<trace, written, exited, pos, builder, calls>>
           /\ pc' \notin {"start", "apply"} /\ ~ Reading' /\ pc # "apply"
           /\ UNCHANGED streamErr
    BY DEF EmitParents, EmitRuns
  <2>2. ApplyLabels \/ Finish =>
           /\ UNCHANGED <<trace, written, exited, pos, builder, calls>>
           /\ pc' \notin {"start", "apply"} /\ ~ Reading' /\ pc # "apply"
           /\ UNCHANGED streamErr
    BY DEF ApplyLabels, Finish
  <2>3. StreamFlush /\ pc # "flush" =>
           /\ UNCHANGED <<trace, written, exited, pos, builder, calls>>
           /\ pc' \notin {"start", "apply"} /\ ~ Reading' /\ pc # "apply"
           /\ UNCHANGED streamErr
    BY DEF StreamFlush
  <2>. QED
    BY <2>1, <2>2, <2>3
<1>1. /\ Paired' /\ Goal' = Goal /\ Parented' = Parented /\ Labelled' = Labelled
      /\ Total' = Total
  BY <1>0, SameAim
<1>2. goroutines \in Gs /\ calls' = <<>>
  BY <1>0 DEF Ready, Gs, Showing
<1>3. CASE EmitParents
  <2>1. pc = "parents" /\ pc' = "runs" /\ UNCHANGED current
    BY <1>3 DEF EmitParents, sessionVars
  <2>2. Live = Goal
    <3>1. Reading /\ calls = <<>>
      BY <2>1 DEF Reading, Showing
    <3>2. Applying(Live, <<>>) = Goal
      BY <3>1 DEF Showing
    <3>. QED
      BY <3>2, FoldedEmpty DEF Applying
  <2>3. goroutines = Goal.gs /\ processorSegments = Goal.runs
    BY <2>2 DEF Live
  <2>4. /\ goroutines' = MergeParents(goroutines, KeptParents(builder))
        /\ UNCHANGED processorSegments
    <3>. DEFINE kept == KeptParents(builder)
    <3>1. \/ goroutines' = MergeParents(goroutines, kept) /\ UNCHANGED processorSegments
          \/ UNCHANGED vars /\ \A g \in Goroutine : kept[g] = NoID
      BY <1>3 DEF EmitParents, SetParentIDs
    <3>. HIDE DEF kept
    <3>2. CASE UNCHANGED vars /\ \A g \in Goroutine : kept[g] = NoID
      BY <1>2, <3>2, MergeNothing DEF vars, timelineVars, kept
    <3>. QED
      BY <3>1, <3>2 DEF kept
  <2>5. goroutines' = Parented' /\ processorSegments' = Goal'.runs
    BY <1>1, <2>3, <2>4 DEF Parented
  <2>6. exited' # "no" /\ pos' = written'
    BY <1>0, <2>1 DEF ReadInv, ReadToTheEnd
  <2>. QED
    BY <1>0, <1>1, <1>2, <2>1, <2>5, <2>6 DEF Showing, RunSession
<1>4. CASE EmitRuns
  <2>1. pc = "runs" /\ pc' = "endflush" /\ UNCHANGED <<goroutines, current>>
    BY <1>4 DEF EmitRuns, AddProcessorSegments, vars, timelineVars, sessionVars
  <2>2. /\ exited # "no" /\ pos = written
        /\ goroutines = Parented /\ processorSegments = Goal.runs
    BY <2>1 DEF Showing, Settled
  <2>3. /\ Goal.runs = Emitted(builder, Acc.b) /\ Emitted(builder, Acc.b) \in Nat
        /\ Cardinality(KeptRuns(builder)) \in Nat
        /\ KeptRuns(builder) = {} => Cardinality(KeptRuns(builder)) = 0
    <3>1. /\ builder \in Builder /\ Acc.b \in Builder /\ Twin(builder, Acc.b)
          /\ IsFiniteSet(Acc.b.raw)
      <4>1. Acc \in Batch
        <5>1. trace \in Seq(Transition) /\ Len(trace) \in Nat
          BY LiveAssumption, LenProperties DEF CallsInv, TraceInOrder
        <5>2. pos \in Nat /\ written \in Nat /\ pos <= written /\ written <= Len(trace)
          BY DEF CallsInv
        <5>. DEFINE n == Len(trace)
        <5>3. n \in Nat /\ written <= n
          BY <5>1, <5>2
        <5>. HIDE DEF n
        <5>4. pos \in 0..n
          BY ONLY <5>2, <5>3
        <5>. QED
          BY <5>1, <5>4, BuiltIs DEF Acc, n
      <4>. QED
        BY <4>1 DEF Paired, RunsOK, Batch
    <3>. QED
      BY <3>1, TwinsEnd DEF Goal, Target
  <2>4. processorSegments' = processorSegments + Cardinality(KeptRuns(builder))
    <3>1. CASE KeptRuns(builder) # {}
      BY <1>4, <3>1 DEF EmitRuns, AddProcessorSegments
    <3>2. CASE KeptRuns(builder) = {}
      BY <1>4, <2>2, <2>3, <3>2 DEF EmitRuns, vars
    <3>. QED
      BY <3>1, <3>2
  <2>5. goroutines' = Parented' /\ processorSegments' = Total'
    BY <1>1, <2>1, <2>2, <2>4 DEF Total
  <2>. QED
    BY <1>0, <1>1, <1>2, <2>1, <2>2, <2>5 DEF Showing, RunSession
<1>5. CASE StreamFlush /\ pc # "flush"
  <2>1. /\ UNCHANGED <<goroutines, processorSegments, current>>
        /\ \/ pc = "endflush" /\ pc' = "labels"
           \/ pc = "labelflush" /\ pc' = "wait"
    BY <1>5 DEF StreamFlush, Flush, timelineVars, sessionVars
  <2>2. CASE pc = "endflush" /\ pc' = "labels"
    BY <1>0, <1>1, <1>2, <2>1, <2>2 DEF Showing, RunSession, Settled
  <2>3. CASE pc = "labelflush" /\ pc' = "wait"
    BY <1>0, <1>1, <1>2, <2>1, <2>3 DEF Showing, RunSession, Settled
  <2>. QED
    BY <2>1, <2>2, <2>3
<1>6. CASE ApplyLabels
  <2>1. /\ UNCHANGED <<current, processorSegments>>
        /\ pc = "labels" /\ pc' \in {"labelflush", "wait"}
    BY <1>6 DEF ApplyLabels, SetLabelOverrides, vars, sessionVars
  <2>2. Settled' = Settled
    BY <1>0, <2>1 DEF Settled
  <2>3. goroutines' = MergeLabels(goroutines, Sidecar)
    <3>1. \/ goroutines' = MergeLabels(goroutines, Sidecar)
          \/ UNCHANGED vars /\ \A g \in Goroutine : Sidecar[g] = NoLabel
      BY <1>6 DEF ApplyLabels, SetLabelOverrides
    <3>2. CASE UNCHANGED vars /\ \A g \in Goroutine : Sidecar[g] = NoLabel
      BY <1>2, <3>2, MergeNothing DEF vars, timelineVars
    <3>. QED
      BY <3>1, <3>2
  <2>4. Settled => goroutines' = Labelled' /\ processorSegments' = Total'
                   /\ exited' # "no" /\ pos' = written'
    BY <1>0, <1>1, <2>1, <2>3 DEF Showing, Labelled
  <2>. QED
    BY <1>0, <1>1, <1>2, <2>1, <2>2, <2>4 DEF Showing, RunSession
<1>7. CASE Finish
  <2>1. /\ UNCHANGED <<goroutines, processorSegments>>
        /\ pc = "wait" /\ pc' = "end"
        /\ \/ FailCurrent
           \/ CompleteCurrent /\ ~ streamErr
    BY <1>7 DEF Finish, NoEngine, vars, timelineVars
  <2>2. current' = [id |-> current'.id, status |-> current'.status]
    BY <2>1, FailedSession, CompletedSession
  <2>3. Settled' => Settled
    BY <2>1, FailedSession DEF Settled
  <2>. QED
    BY <1>0, <1>1, <1>2, <2>1, <2>2, <2>3 DEF Showing, RunSession
<1>. QED
  BY <1>3, <1>4, <1>5, <1>6, <1>7

LEMMA SavedStep ==
  ASSUME SavedInv, LiveNext, Alone'
  PROVE  Paired' /\ Showing' /\ RunSession'
<1>1. CallsInv /\ ReadInv
  BY DEF SavedInv, OrderInv
<1>2. /\ Undisturbed
      /\ \A u \in Uploads : ~ UploadStart(u) /\ ~ UploadLoad(u)
  BY <1>1, StaysAlone DEF Alone
<1>3. ~ cancelled' /\ ~ cancelled
  <2>1. CASE ~ UNCHANGED cancelled
    <3>1. Cancel
      <4>1. ~ (Begin \/ CreateFile \/ WriteTrace \/ ExitTarget)
        BY <2>1 DEF Begin, CreateFile, WriteTrace, ExitTarget
      <4>2. ~ (Open \/ AwaitFile \/ Loop \/ Read \/ Check)
        BY <2>1 DEF Open, AwaitFile, Loop, Read, Check, Consume, StreamFails, Goto
      <4>3. ~ (Apply1 \/ Mark \/ Unmark \/ StreamFlush)
        BY <2>1 DEF Apply1, Mark, Unmark, StreamFlush, Goto
      <4>4. ~ (EmitParents \/ EmitRuns \/ ApplyLabels \/ Finish)
        BY <2>1 DEF EmitParents, EmitRuns, ApplyLabels, Finish, Goto
      <4>5. ~ TickerStep
        BY <2>1 DEF TickerStep, Tick, TickFlush, TickerStops, TickerOnly
      <4>6. ~ (StopServer \/ LoadStep \/ LoadNotifies)
        BY <2>1 DEF StopServer, LoadStep, LoadNotifies, ServerOnly
      <4>. QED
        BY <1>2, <4>1, <4>2, <4>3, <4>4, <4>5, <4>6 DEF LiveNext, StreamStep
    <3>. QED
      BY <3>1 DEF Cancel, Alone
  <2>. QED
    BY <2>1 DEF Alone
<1>4. Ready /\ Paired /\ Showing /\ RunSession /\ MuFree
  BY <1>2, <1>3 DEF SavedInv, OrderInv, Alone, Ready
<1>. DEFINE Same == UNCHANGED <<trace, readVars, goroutines, processorSegments, current>>
<1>5. CASE Begin
  <2>1. /\ pc = "start" /\ pc' = "open" /\ UNCHANGED <<trace, pos, builder, calls>>
        /\ goroutines' = Zeros /\ processorSegments' = 0 /\ StartSession
    BY <1>5 DEF Begin, Reset, resetLocked, Zeros, targetVars, readVars
  <2>2. UNCHANGED <<goroutines, processorSegments>>
    BY <1>4, <2>1 DEF Showing
  <2>3. Paired' /\ Goal' = Goal /\ Live' = Live
    BY <1>4, <2>1, <2>2, SameAim, SameLive
  <2>4. ~ Settled' /\ Reading /\ calls' = <<>>
    BY <1>4, <2>1 DEF Settled, Reading, Showing
  <2>5. Showing'
    BY <1>4, <2>1, <2>3, <2>4 DEF Showing
  <2>6. RunSession'
    BY <2>1, StartedSession DEF RunSession
  <2>. QED
    BY <2>3, <2>5, <2>6
<1>6. CASE CreateFile \/ WriteTrace \/ ExitTarget
  <2>. USE DEF Outside, vars, timelineVars, sessionVars
  <2>1. Same /\ UNCHANGED <<pc, streamErr>>
    BY <1>6 DEF CreateFile, WriteTrace, ExitTarget
  <2>2. Settled => exited # "no"
    BY <1>4 DEF Showing
  <2>3. Settled => UNCHANGED written /\ exited' # "no"
    BY <1>6, <2>2 DEF CreateFile, WriteTrace, ExitTarget
  <2>. QED
    BY <1>4, <2>1, <2>3, SavedQuiet
<1>7. CASE Open \/ Loop \/ Mark \/ Unmark \/ (StreamFlush /\ pc = "flush")
  <2>. USE DEF Goto, NoEngine, vars, timelineVars, targetVars, sessionVars
  <2>1. Open \/ Loop =>
          Same /\ Reading /\ Reading' /\ pc # "apply" /\ pc' # "start" /\ ~ Settled
    BY <1>3 DEF Open, Loop, Reading, Settled
  <2>2. Mark \/ Unmark =>
          Same /\ Reading /\ Reading' /\ pc # "apply" /\ pc' # "start" /\ ~ Settled
    BY DEF Mark, Unmark, Reading, Settled
  <2>3. StreamFlush /\ pc = "flush" =>
          Same /\ Reading /\ Reading' /\ pc # "apply" /\ pc' # "start" /\ ~ Settled
    BY DEF StreamFlush, Flush, Reading, Settled
  <2>. HIDE DEF Same
  <2>4. Same /\ Reading /\ Reading' /\ pc # "apply" /\ pc' # "start" /\ ~ Settled
    BY <1>7, <2>1, <2>2, <2>3
  <2>. QED
    BY <1>4, <2>4, SavedQuiet DEF Same
<1>8. CASE AwaitFile
  <2>1. /\ UNCHANGED <<trace, readVars, goroutines, processorSegments>>
        /\ pc = "await" /\ ~ Settled /\ Reading
        /\ \/ UNCHANGED current /\ Reading' /\ pc' # "start"
           \/ FailCurrent /\ pc' = "end"
    BY <1>8 DEF AwaitFile, Goto, NoEngine, vars, timelineVars, targetVars, sessionVars,
       Settled, Reading
  <2>2. CASE UNCHANGED current /\ Reading' /\ pc' # "start"
    BY <1>4, <2>1, <2>2, SavedQuiet
  <2>3. CASE FailCurrent /\ pc' = "end"
    <3>1. RunSession' /\ current'.status # "completed"
      BY <1>4, <2>1, <2>3, FailedSession DEF RunSession
    <3>2. Paired'
      BY <1>4, <2>1, SameAim DEF readVars
    <3>3. ~ Settled' /\ ~ Reading' /\ calls' = <<>>
      BY <1>4, <2>1, <2>3, <3>1 DEF Settled, Reading, Showing, readVars
    <3>4. Showing'
      BY <2>3, <3>3 DEF Showing
    <3>. QED
      BY <3>1, <3>2, <3>4
  <2>. QED
    BY <2>1, <2>2, <2>3
<1>9. CASE Read \/ Check
  <2>1. /\ UNCHANGED <<trace, goroutines, processorSegments, current>>
        /\ pc \in {"read", "check"}
        /\ \/ Consume /\ pos < written
           \/ UNCHANGED readVars /\ Reading' /\ pc' # "start"
           \/ UNCHANGED readVars /\ pc' = "labels" /\ streamErr'
    BY <1>9 DEF Read, Check, StreamFails, Goto, NoEngine, vars, timelineVars, targetVars,
       sessionVars, Consume, Reading
  <2>2. CASE Consume /\ pos < written
    BY <1>1, <1>4, <2>1, <2>2, SavedConsume
  <2>3. CASE UNCHANGED readVars /\ Reading' /\ pc' # "start"
    BY <1>4, <2>1, <2>3, SavedQuiet DEF Reading, Settled
  <2>4. CASE UNCHANGED readVars /\ pc' = "labels" /\ streamErr'
    BY <1>4, <2>1, <2>4, SavedQuiet DEF Settled
  <2>. QED
    BY <2>1, <2>2, <2>3, <2>4
<1>10. CASE Apply1
  BY <1>1, <1>4, <1>10, SavedApply
<1>11. CASE EmitParents \/ EmitRuns \/ ApplyLabels \/ Finish \/ (StreamFlush /\ pc # "flush")
  BY <1>1, <1>3, <1>4, <1>11, SavedEnds
<1>12. CASE TickerStep \/ LoadNotifies
  <2>. USE DEF vars, timelineVars, targetVars, sessionVars
  <2>1. TickerStep => Same /\ UNCHANGED <<pc, streamErr, written, exited>>
    BY DEF TickerStep, Tick, TickFlush, TickerStops, TickerOnly, Flush
  <2>2. LoadNotifies => Same /\ UNCHANGED <<pc, streamErr, written, exited>>
    BY DEF LoadNotifies, LoadNotify
  <2>3. Same /\ UNCHANGED <<pc, streamErr, written, exited>>
    BY <1>12, <2>1, <2>2
  <2>4. Settled => exited # "no"
    BY <1>4 DEF Showing
  <2>. QED
    BY <1>4, <2>3, <2>4, SavedQuiet
<1>13. ~ StopServer /\ ~ LoadStep /\ ~ Cancel
  BY <1>3, <1>4 DEF StopServer, LoadStep, LoadEvent, LoadStack, LoadEnd, Cancel
<1>. QED
  BY <1>2, <1>5, <1>6, <1>7, <1>8, <1>9, <1>10, <1>11, <1>12, <1>13
     DEF LiveNext, StreamStep

LEMMA SavedInvStep == SavedInv /\ [LiveNext]_allVars => SavedInv'
<1>. SUFFICES ASSUME SavedInv, [LiveNext]_allVars PROVE SavedInv'
  OBVIOUS
<1>1. OrderInv' /\ ReadInv'
  BY OrderStep, ReadStep DEF SavedInv
<1>2. CASE LiveNext
  BY <1>1, <1>2, SavedStep DEF SavedInv
<1>3. CASE UNCHANGED allVars
  <2>1. /\ UNCHANGED <<trace, readVars, goroutines, processorSegments, current, pc,
                       streamErr, written, exited, uploads, cancelled>>
    BY <1>3 DEF allVars, liveVars, vars, timelineVars, targetVars, sessionVars
  <2>2. Alone' => Alone
    BY <2>1 DEF Alone, Undisturbed
  <2>3. Showing /\ Settled => exited # "no"
    BY DEF Showing
  <2>4. Alone' => Paired' /\ Showing' /\ RunSession'
    BY <2>1, <2>2, <2>3, SavedQuiet DEF SavedInv
  <2>. QED
    BY <1>1, <2>4 DEF SavedInv
<1>. QED
  BY <1>2, <1>3

\* The capture that is saved replays to the run that was shown.
LEMMA SavedShown == SavedInv => SavedAsShown
<1>. SUFFICES ASSUME SavedInv, pc = "end", current.status = "completed", Undisturbed,
                     ~ cancelled, written = Len(trace),
                     NEW saved, saved = BuildCapture(trace, Sidecar)
              PROVE  /\ \A g \in Goroutine : Replayed(saved)[g].state # "" =>
                          Replayed(saved)[g] = goroutines[g]
                     /\ processorSegments = Cardinality(saved.runs)
  BY DEF SavedAsShown
<1>1. Paired /\ Showing /\ Settled /\ CallsInv
  BY DEF SavedInv, Alone, OrderInv, Settled
<1>2. /\ pos = Len(trace) /\ goroutines = Labelled /\ processorSegments = Total
  BY <1>1 DEF Showing
<1>3. trace \in Seq(Transition)
  BY <1>1, LiveAssumption DEF CallsInv, TraceInOrder
<1>4. Acc = Built(trace, Len(trace))
  BY <1>2 DEF Acc
<1>. DEFINE acc == Acc
            keep == Relevant(acc.stacks)
<1>. HIDE DEF acc, keep
<1>13. acc = Built(trace, Len(trace)) /\ keep = Relevant(acc.stacks)
  BY <1>4 DEF acc, keep
<1>5. /\ acc \in Batch
      /\ saved.events = Left(acc.events, keep, Given)
      /\ saved.stacks = Left(acc.stacks, keep, Shots)
      /\ saved.parents = KeptParents(acc.b) /\ saved.runs = KeptRuns(acc.b)
      /\ saved.labels = Sidecar
  BY <1>3, <1>13, SavedIs
<1>6. /\ builder \in Builder /\ acc.b \in Builder /\ Twin(builder, acc.b)
      /\ Replays(acc, Clock) /\ IsFiniteSet(acc.b.raw)
  BY <1>1, <1>5 DEF Paired, RunsOK, Batch, acc
<1>7. /\ KeptParents(builder) = KeptParents(acc.b)
      /\ Cardinality(KeptRuns(acc.b)) = Emitted(builder, acc.b) + Cardinality(KeptRuns(builder))
  BY <1>6, TwinsEnd
<1>8. processorSegments = Cardinality(saved.runs)
  BY <1>2, <1>5, <1>7 DEF Total, Goal, Target, acc
<1>. DEFINE gs == FoldLeft(ReplayStack, FoldLeft(ReplayEvent, Zeros, saved.events), saved.stacks)
            shown == Shown(Evented(acc), Framed(acc))
            parents == KeptParents(builder)
<1>9. Replayed(saved) = Finally(gs, parents, Sidecar)
  BY <1>5, <1>7 DEF Replayed, Finally, Zeros
<1>10. goroutines = Finally(shown, parents, Sidecar)
  BY <1>2 DEF Labelled, Parented, Goal, Target, Finally, acc
<1>11. \A g \in Goroutine : gs[g] = shown[g] \/ gs[g] = ZeroGoroutine
  <2>. DEFINE ev == saved.events
              st == saved.stacks
  <2>1. /\ ev = Left(acc.events, keep, Given)
        /\ st = Left(acc.stacks, keep, Shots)
        /\ gs = FoldLeft(ReplayStack, FoldLeft(ReplayEvent, Zeros, ev), st)
    BY <1>5
  <2>. HIDE DEF ev, st, gs
  <2>2. ASSUME NEW g \in Goroutine
        PROVE  gs[g] = Shown(Evented(acc), Framed(acc))[g] \/ gs[g] = ZeroGoroutine
    BY <1>5, <1>6, <2>1, ReplayedIs
  <2>. QED
    BY <2>2
<1>. HIDE DEF gs, shown, parents
<1>12. ASSUME NEW g \in Goroutine, Replayed(saved)[g].state # ""
       PROVE  Replayed(saved)[g] = goroutines[g]
  <2>1. CASE gs[g] = shown[g]
    BY <1>9, <1>10, <2>1, FinallyLocal
  <2>2. CASE gs[g] = ZeroGoroutine
    <3>1. Replayed(saved)[g] = ZeroGoroutine
      BY <1>9, <2>2, FinallyLocal
    <3>. QED
      BY <1>12, <3>1, ZerosType
  <2>. QED
    BY <1>11, <2>1, <2>2
<1>. QED
  BY <1>8, <1>12

\* streamLiveTrace saves a capture that the batch path builds from the trace
\* file, while the engine shows what the stream made of the same file: for every
\* trace, every goroutine that replaying the capture shows has the record the
\* stream left, and every run on a processor is counted once.  The stream calls
\* for an event and its stack in turn and emits or holds runs by what it knows so
\* far; the capture keeps the events apart from the stacks and filters at the end.
THEOREM SavedIsShown == LiveSpec => []SavedAsShown
BY SavedInit, SavedInvStep, SavedShown, PTL DEF LiveSpec
=============================================================================
