------------------------------- MODULE LiveRun ------------------------------
(***************************************************************************)
(* `goroscope run` with its user interface (serveLiveRunSession and        *)
(* streamLiveTrace in internal/cli/app.go): the traced target, the reader   *)
(* that follows its trace file, the stream loop and its ticker, the server  *)
(* with the uploads it accepts, and the session manager, all around one     *)
(* engine.                                                                 *)
(*                                                                         *)
(* The file is a sequence of transitions of which a prefix has been written *)
(* and a prefix read; a target that dies may leave a partial record behind. *)
(* Reading the header is part of reading the first transition.              *)
(***************************************************************************)
EXTENDS Engine, TraceBuilder, SessionManager

CONSTANTS
  Traces,      \* what the target may write, in order
  Sidecar,     \* the labels the agent leaves beside the trace
  Uploads,     \* upload requests
  Uploaded,    \* the capture they upload
  FlushEvery   \* notify after so many kept events (64 in the code)

\* The trace reader hands out transitions in the order of their times.
TraceInOrder(t) ==
  /\ t \in Seq(Transition)
  /\ \A i, j \in 1..Len(t) : i < j => t[i].ts <= t[j].ts

ASSUME LiveAssumption ==
  /\ \A t \in Traces : TraceInOrder(t)
  /\ Sidecar \in [Goroutine -> Label \cup {NoLabel}]
  /\ FlushEvery \in Nat \ {0}

VARIABLES
  trace, file, written, truncated,  \* the target's trace file
  exited,        \* has the target exited (done is closed), and how?
  cancelled,     \* has the context been cancelled?
  pc,            \* where streamLiveTrace is
  pos,           \* transitions read
  builder,       \* the streamBuilder
  calls,         \* calls left of the appendEvent in progress
  hasPending, pendingFlush, streamErr,
  ticker,        \* the flushing goroutine: idle, about to flush, off
  server,        \* the HTTP server: up or down
  uploads,       \* each upload: its step and its session
  \* History: versions of the latest event emitted and at the latest notification.
  emittedAt, flushedAt

targetVars == <<trace, file, written, truncated, exited>>
readVars == <<pos, builder, calls>>
flushVars == <<hasPending, pendingFlush, ticker, flushedAt>>
liveVars == <<targetVars, cancelled, pc, readVars, flushVars, streamErr, server,
              uploads, emittedAt>>
allVars == <<vars, sessionVars, liveVars>>

LiveInit ==
  /\ Init
  /\ SessionInit
  /\ trace \in Traces /\ file = FALSE /\ written = 0 /\ truncated = FALSE
  /\ exited = "no" /\ cancelled = FALSE
  /\ pc = "start" /\ pos = 0 /\ builder = NewBuilder /\ calls = <<>>
  /\ hasPending = FALSE /\ pendingFlush = 0 /\ streamErr = FALSE
  /\ ticker = "idle" /\ server = "up"
  /\ uploads = [u \in Uploads |-> [step |-> "idle", id |-> 0]]
  /\ emittedAt = 0 /\ flushedAt = 0

\* serveLiveRunSession, up to the start of the target.
Begin ==
  /\ pc = "start"
  /\ StartSession
  /\ Reset(nextID')
  /\ pc' = "open"
  /\ UNCHANGED <<targetVars, cancelled, readVars, flushVars, streamErr, server,
                 uploads, emittedAt>>

-----------------------------------------------------------------------------
(* The target and the context: nothing else changes *)

Outside == UNCHANGED <<vars, sessionVars, pc, readVars, flushVars, streamErr, server,
                       uploads, emittedAt>>

CreateFile ==
  /\ exited = "no" /\ ~ file /\ pc # "start"
  /\ file' = TRUE
  /\ UNCHANGED <<trace, written, truncated, exited, cancelled>> /\ Outside

WriteTrace ==
  /\ exited = "no" /\ file /\ written < Len(trace)
  /\ written' = written + 1
  /\ UNCHANGED <<trace, file, truncated, exited, cancelled>> /\ Outside

\* The target ends or is killed; cmd.Wait returns and done is closed.
ExitTarget ==
  /\ exited = "no" /\ pc # "start"
  /\ exited' \in {"ok", "failed"}
  /\ truncated' \in {FALSE, file}
  /\ UNCHANGED <<trace, file, written, cancelled>> /\ Outside

Cancel ==
  /\ ~ cancelled /\ pc # "start"
  /\ cancelled' = TRUE
  /\ UNCHANGED targetVars /\ Outside

-----------------------------------------------------------------------------
(* streamLiveTrace *)

Goto(step) ==
  pc' = step /\ UNCHANGED <<targetVars, cancelled, server, uploads>>

NoEngine == UNCHANGED <<vars, emittedAt, flushedAt>>

\* WaitForTraceFile opens the file, ...
Open ==
  /\ pc = "open"
  /\ Goto(IF file THEN "loop" ELSE "await")
  /\ NoEngine /\ UNCHANGED <<sessionVars, readVars, flushVars, streamErr>>

\* Mutant: a failure to open the file does not return.
AwaitFileGoingOn ==
  /\ pc = "await"
  /\ \/ exited = "no" /\ ~ cancelled /\ Goto("open") /\ UNCHANGED sessionVars
     \/ exited # "no" /\ file /\ Goto("loop") /\ UNCHANGED sessionVars
     \/ exited # "no" /\ ~ file /\ FailCurrent /\ Goto("labels")
     \/ cancelled /\ FailCurrent /\ Goto("labels")
  /\ NoEngine /\ UNCHANGED <<readVars, flushVars, streamErr>>

\* ... else waits for a moment, the target or the context, and looks once more
\* when the target has exited.
AwaitFile ==
  /\ pc = "await"
  /\ \/ exited = "no" /\ ~ cancelled /\ Goto("open") /\ UNCHANGED sessionVars
     \/ exited # "no" /\ file /\ Goto("loop") /\ UNCHANGED sessionVars
     \/ exited # "no" /\ ~ file /\ FailCurrent /\ Goto("end")
     \/ cancelled /\ FailCurrent /\ Goto("end")
  /\ NoEngine /\ UNCHANGED <<readVars, flushVars, streamErr>>

\* StreamBinaryTrace returns an error: no parents, no flush.
StreamFails == streamErr' = TRUE /\ Goto("labels") /\ UNCHANGED readVars

\* The next transition is read and appendEvent decides what to call.
Consume ==
  LET t    == trace[pos + 1]
      next == StreamCalls(builder, t)
  IN  /\ pos' = pos + 1
      /\ builder' = Streamed(builder, t)
      /\ calls' = next
      /\ Goto(IF next = <<>> THEN "loop" ELSE "apply")
      /\ UNCHANGED streamErr

Loop ==
  /\ pc = "loop"
  /\ \/ cancelled /\ StreamFails
     \/ ~ cancelled /\ Goto("read") /\ UNCHANGED <<readVars, streamErr>>
  /\ NoEngine /\ UNCHANGED <<sessionVars, flushVars>>

\* TailReader.Read: the file's next bytes, or its end.
Read ==
  /\ pc = "read"
  /\ IF pos < written THEN Consume
     ELSE Goto("check") /\ UNCHANGED <<readVars, streamErr>>
  /\ NoEngine /\ UNCHANGED <<sessionVars, flushVars>>

\* Mutant: the target's exit is the end of the file, with no second look.
CheckOnce ==
  /\ pc = "check"
  /\ Goto(IF exited = "no" THEN "read" ELSE "parents")
  /\ NoEngine /\ UNCHANGED <<sessionVars, readVars, flushVars, streamErr>>

\* Mutant: a partial record is waited for even when the target is gone.
CheckWaits ==
  /\ pc = "check"
  /\ CASE exited = "no" \/ truncated -> Goto("read") /\ UNCHANGED <<readVars, streamErr>>
       [] exited # "no" /\ pos < written -> Consume
       [] OTHER -> Goto("parents") /\ UNCHANGED <<readVars, streamErr>>
  /\ NoEngine /\ UNCHANGED <<sessionVars, flushVars>>

\* At the end of the file: wait if the target lives, else look once more.
Check ==
  /\ pc = "check"
  /\ CASE exited = "no" -> Goto("read") /\ UNCHANGED <<readVars, streamErr>>
       [] exited # "no" /\ pos < written -> Consume
       [] exited # "no" /\ pos = written /\ truncated -> StreamFails
       [] OTHER -> Goto("parents") /\ UNCHANGED <<readVars, streamErr>>
  /\ NoEngine /\ UNCHANGED <<sessionVars, flushVars>>

\* One call of appendEvent on the engine.
Apply1 ==
  LET call == Head(calls)
  IN  /\ pc = "apply"
      /\ \/ call.op = "run" /\ AddProcessorSegments(1)
         \/ call.op = "event" /\ ApplyEvent(call.event)
         \/ call.op = "stack" /\ ApplyStackSnapshot(call.stack)
      /\ emittedAt' = dataVersion'
      /\ calls' = Tail(calls)
      /\ Goto(IF calls' = <<>> THEN "mark" ELSE "apply")
      /\ UNCHANGED <<sessionVars, pos, builder, flushVars, streamErr>>

\* Mutant: only the first of FlushEvery events is flagged.
MarkFirst ==
  /\ pc = "mark"
  /\ hasPending' = (hasPending \/ pendingFlush = 0)
  /\ pendingFlush' = pendingFlush + 1
  /\ Goto(IF pendingFlush' >= FlushEvery THEN "unmark" ELSE "loop")
  /\ NoEngine /\ UNCHANGED <<sessionVars, readVars, ticker, streamErr>>

\* Mutant: the flag for the ticker is forgotten.
MarkSilent ==
  /\ pc = "mark"
  /\ pendingFlush' = pendingFlush + 1
  /\ Goto(IF pendingFlush' >= FlushEvery THEN "unmark" ELSE "loop")
  /\ NoEngine /\ UNCHANGED <<sessionVars, readVars, hasPending, ticker, streamErr>>

\* hasPending.Store(true) and the count of kept events ...
Mark ==
  /\ pc = "mark"
  /\ hasPending' = TRUE
  /\ pendingFlush' = pendingFlush + 1
  /\ Goto(IF pendingFlush' >= FlushEvery THEN "unmark" ELSE "loop")
  /\ NoEngine /\ UNCHANGED <<sessionVars, readVars, ticker, streamErr>>

\* ... and every FlushEvery of them hasPending.Store(false) and a flush.
Unmark ==
  /\ pc = "unmark"
  /\ hasPending' = FALSE
  /\ Goto("flush")
  /\ NoEngine /\ UNCHANGED <<sessionVars, readVars, pendingFlush, ticker, streamErr>>

\* Writer.Flush, in the loop, at the end of the trace and after the labels.
StreamFlush ==
  /\ pc \in {"flush", "endflush", "labelflush"}
  /\ Flush
  /\ flushedAt' = dataVersion
  /\ pendingFlush' = IF pc = "flush" THEN 0 ELSE pendingFlush
  /\ Goto(CASE pc = "flush" -> "loop" [] pc = "endflush" -> "labels"
            [] OTHER -> "wait")
  /\ UNCHANGED <<sessionVars, readVars, hasPending, ticker, streamErr, emittedAt>>

\* The end of the trace: the parents of kept goroutines, then their held runs.
EmitParents ==
  LET kept == KeptParents(builder)
  IN  /\ pc = "parents"
      /\ IF \E g \in Goroutine : kept[g] # NoID
         THEN SetParentIDs(kept) ELSE UNCHANGED vars
      /\ Goto("runs")
      /\ UNCHANGED <<sessionVars, readVars, flushVars, streamErr, emittedAt>>

EmitRuns ==
  LET kept == KeptRuns(builder)
  IN  /\ pc = "runs"
      /\ IF kept # {} THEN AddProcessorSegments(Cardinality(kept))
         ELSE UNCHANGED vars
      /\ Goto("endflush")
      /\ UNCHANGED <<sessionVars, readVars, flushVars, streamErr, emittedAt>>

\* The sidecar is read when the stream is over, whether it failed or not.
ApplyLabels ==
  /\ pc = "labels"
  /\ IF \E g \in Goroutine : Sidecar[g] # NoLabel
     THEN SetLabelOverrides(Sidecar) /\ Goto("labelflush")
     ELSE UNCHANGED vars /\ Goto("wait")
  /\ UNCHANGED <<sessionVars, readVars, flushVars, streamErr, emittedAt>>

\* liveRun.Wait, and the session ends as the run did.
Finish ==
  /\ pc = "wait" /\ exited # "no"
  /\ IF exited = "failed" \/ streamErr THEN FailCurrent ELSE CompleteCurrent
  /\ Goto("end")
  /\ NoEngine /\ UNCHANGED <<readVars, flushVars, streamErr>>

StreamStep ==
  \/ Open \/ AwaitFile \/ Loop \/ Read \/ Check \/ Apply1 \/ Mark \/ Unmark
  \/ StreamFlush \/ EmitParents \/ EmitRuns \/ ApplyLabels \/ Finish

-----------------------------------------------------------------------------
(* The ticker of StreamBinaryTrace *)

TickerOnly == UNCHANGED <<sessionVars, targetVars, cancelled, pc, readVars,
                          pendingFlush, streamErr, server, uploads, emittedAt>>

StreamOver == pc \in {"labels", "labelflush", "wait", "end"}

\* hasPending.Swap(false): what was pending is this goroutine's to flush.
Tick ==
  /\ ticker = "idle" /\ hasPending
  /\ hasPending' = FALSE
  /\ ticker' = "flush"
  /\ UNCHANGED <<vars, flushedAt>> /\ TickerOnly

TickFlush ==
  /\ ticker = "flush"
  /\ Flush
  /\ flushedAt' = dataVersion
  /\ ticker' = "idle"
  /\ UNCHANGED hasPending /\ TickerOnly

\* The context or streamDone ends it, though a last tick may come first.
TickerStops ==
  /\ ticker = "idle" /\ (cancelled \/ StreamOver)
  /\ ticker' = "off"
  /\ UNCHANGED <<vars, hasPending, flushedAt>> /\ TickerOnly

TickerStep == Tick \/ TickFlush \/ TickerStops

-----------------------------------------------------------------------------
(* The server *)

ServerOnly == UNCHANGED <<targetVars, cancelled, pc, readVars, flushVars, streamErr,
                          emittedAt>>

\* Serve's own goroutine: the active session is completed, whichever it is.
StopServer ==
  /\ cancelled /\ server = "up"
  /\ CompleteCurrent
  /\ server' = "down"
  /\ UNCHANGED <<vars, uploads>> /\ ServerOnly

\* handleReplayLoad starts a session ...
UploadStart(u) ==
  /\ uploads[u].step = "idle" /\ server = "up" /\ pc # "start"
  /\ StartSession
  /\ uploads' = [uploads EXCEPT ![u] = [step |-> "load", id |-> nextID']]
  /\ UNCHANGED <<vars, server>> /\ ServerOnly

\* ... and loads the capture, bound to it.
UploadLoad(u) ==
  /\ uploads[u].step = "load"
  /\ LoadBegin(uploads[u].id, Uploaded)
  /\ uploads' = [uploads EXCEPT ![u].step = "done"]
  /\ UNCHANGED <<sessionVars, server>> /\ ServerOnly

\* The rest of LoadCapture.
LoadStep ==
  /\ LoadEvent \/ LoadStack \/ LoadEnd
  /\ UNCHANGED <<sessionVars, uploads, server>> /\ ServerOnly

LoadNotifies ==
  /\ LoadNotify
  /\ flushedAt' = dataVersion
  /\ UNCHANGED <<sessionVars, targetVars, cancelled, pc, readVars, hasPending,
                 pendingFlush, ticker, streamErr, server, uploads, emittedAt>>

LiveNext ==
  \/ Begin \/ CreateFile \/ WriteTrace \/ ExitTarget \/ Cancel
  \/ StreamStep \/ TickerStep
  \/ StopServer \/ LoadStep \/ LoadNotifies
  \/ \E u \in Uploads : UploadStart(u) \/ UploadLoad(u)

\* While the process lives (it ends when the server does), Go schedules the
\* stream, the ticker fires, and a load in progress ends.  The uploads are
\* finitely many, so no writer is locked out for ever.
Fairly(A) == server = "up" /\ A

LiveSpec ==
  /\ LiveInit
  /\ [][LiveNext]_allVars
  /\ WF_allVars(Fairly(Begin \/ StreamStep))
  /\ WF_allVars(Fairly(TickerStep))
  /\ WF_allVars(Fairly(LoadStep))
  /\ WF_allVars(StopServer)

-----------------------------------------------------------------------------
(* Properties *)

Undisturbed == \A u \in Uploads : uploads[u].step = "idle"

\* Without an upload the bridge meets what Engine assumes of its producers: the
\* events of a goroutine come in the order of their times, and a stack is no
\* newer than the event before it.
ProducerInOrder ==
  pc = "apply" /\ Undisturbed =>
    /\ Head(calls).op = "event" => InOrder(Head(calls).event)
    /\ Head(calls).op = "stack" => WithItsEvent(Head(calls).stack)

\* A stream that ends without an error has read everything the target wrote,
\* however late the target wrote it and however the exit raced with the reads.
ReadToTheEnd ==
  pc \in {"parents", "runs", "endflush"} => exited # "no" /\ pos = written

\* Between two transitions, what no notification has covered yet is flagged for
\* the ticker or in its hands: hasPending is set and cleared by two goroutines.
PendingFlagged ==
  pc \in {"loop", "read", "check"} /\ emittedAt > flushedAt
    => hasPending \/ ticker = "flush"

\* What LoadCapture makes of the goroutines when it replays a saved capture.
ReplayEvent(gs, e) == [gs EXCEPT ![e.gid] = NextGoroutine(@, normalizeEvent(e))]
ReplayStack(gs, s) == [gs EXCEPT ![s.gid] = WithStack(@, s)]

Replayed(saved) ==
  LET events == FoldLeft(ReplayEvent, [g \in Goroutine |-> ZeroGoroutine], saved.events)
      stacks == FoldLeft(ReplayStack, events, saved.stacks)
  IN  MergeLabels(MergeParents(stacks, saved.parents), saved.labels)

\* The saved capture is the run that was shown: every goroutine the batch builder
\* saves replays to the record the stream left, and no processor run is missing
\* or counted twice, although one builder emits as it goes and the other holds.
SavedAsShown ==
  LET saved == BuildCapture(trace, Sidecar)
      shown == Replayed(saved)
  IN  pc = "end" /\ current.status = "completed" /\ Undisturbed /\ ~ cancelled
        /\ written = Len(trace)
      => /\ \A g \in Goroutine : shown[g].state # "" => shown[g] = goroutines[g]
         /\ processorSegments = Cardinality(saved.runs)

\* A session is archived once: whatever fails, a run finishes its session in one
\* place only.  (On shutdown the server finishes it as well.)
ArchivedOnce ==
  ~ cancelled =>
    \A i, j \in 1..Len(history) : history[i].id = history[j].id => i = j

\* A run whose target has exited ends, unless the process does: no step of the
\* stream waits for what cannot come.
RunEnds == exited # "no" ~> (pc = "end" \/ server = "down")

\* Every event is announced to the subscribers, also while the target is silent
\* and too few events came to fill a batch, unless the stream fails first.
EventsAnnounced == []<>(flushedAt >= emittedAt \/ streamErr \/ server = "down")

\* streamLiveTrace's comment: when the target exits it marks the session complete
\* (or failed).  The run's session, the first one, is in the history.
RunSessionFinished ==
  pc = "end" => \E i \in 1..Len(history) : history[i].id = 1
=============================================================================
