# Goroscope in TLA+

Goroscope shows what the goroutines of a Go program do.  A producer (a runtime
trace that is followed while it is written, a poller of a pprof or
flight-recorder endpoint, or an uploaded capture) feeds one in-memory *analysis
engine*; an HTTP server reads the engine and streams its changes to browsers.
This directory specifies the parts of that program whose correctness depends on
order, concurrency and bookkeeping, checks them with TLC, and proves the central
invariants with TLAPS.  What is a function of a snapshot (the cycle search, the
insights, the comparisons, the dump parser) is written as functions and checked
against plain definitions of the answers.

Contents: [inventory](#inventory), [modules](#modules-and-the-code-they-model),
[runs](#runs), [fairness](#fairness), [proofs](#proofs),
[disagreements found](#disagreements-found), [not modelled](#not-modelled),
[next](#next).

## Inventory

| Component | State | Operations that change it | Interacts with |
|---|---|---|---|
| Goroutine state machine (`analysis/state_machine.go`) | one goroutine record: state, wait reason, wait time, life times | `Apply(current, event)`, pure | called by the engine under its lock |
| Analysis engine (`analysis/engine.go`, `requests.go`, `contention.go`) | goroutine map, open and closed timeline segments, stack histories and their count, resource graph, processor segments, version and per-goroutine revision marks, two caches, subscriber channels | `Reset`, `LoadCapture`, `ApplyEvent`, `ApplyStackSnapshot`, `AddProcessorSegments`, `SetParentIDs`, `SetLabelOverrides`, `SetResourceGraph`, the two caching queries, `Subscribe`/`Unsubscribe`, `Flush` | every producer writes it, every handler reads it |
| Event stream (`api/http.go`, `handleStream`, `sendSSEDelta`) | per connection: the client's revision and a one-slot channel | connect, send a delta, stamp the revision, wake, disconnect | reads the engine, woken by `Flush` and `LoadCapture` |
| HTTP handlers (`api/http.go`, `analyze.go`) | none of their own, apart from the upload and target handlers | read snapshots; `handleReplayLoad` starts a session and loads a capture | engine, session manager, registry |
| Session manager (`session/manager.go`) | next ID, current session, history | start, complete, fail | live run, uploads, pollers, shutdown |
| Live run (`cli/app.go`, `serveLiveRunSession`, `streamLiveTrace`) | the target process, its trace file, the verdict | start, stream, apply labels, finish, save | bridge, engine, session manager, server |
| Trace bridge, streaming (`tracebridge/stream.go`) | tail reader position, builder maps, the pending flag shared with a ticker goroutine | wait for the file, read, emit calls, flush | writes the engine |
| Trace bridge, batch and replay (`xtrace.go`, `parsedtrace.go`, `replay.go`, `labels.go`) | a capture under construction | build, filter, merge labels, save, load | live run (saving), uploads, flight-recorder poller |
| pprof poller (`pprofpoll/`) | every event so far, known IDs, its session | poll: parse a dump, compare it with the known IDs, load the whole history | engine, session manager, registry |
| Flight-recorder poller (`flightrec/`) | its session | poll: load one snapshot | engine |
| Target registry (`target/registry.go`) | targets, default target | add, remove | pollers; every request picks an engine from it |
| Capture store (`store/store.go`, `cli/annotate.go`) | an index file and capture files | save, list, add and delete annotations | several processes, no lock |
| Graph, deadlock, insights, sampling, diff, grouping (`analysis/`) | none: functions of snapshots | - | handlers and commands |
| Agent (`agent/`) | inside the traced program: trace, label sidecar, flight recorder | start, stop | files the bridge reads |
| Command line (`cli/`) | none of its own but the loop of `watch` | `run`, `ui`, `attach` compose the above; `watch`, `top`, `check`, `doctor`, `diff` judge a snapshot | all of the above |
| Static analysis, OTLP, CI check, UI, editor plugins | formatting or batch work | - | - |

What is hard in this code, component by component (PROJECT.json lists each
hazard with its line):

- *Engine*: two maps that must agree (open segment and goroutine state), times
  that accumulate over repeated events, counters kept beside what they count,
  caches that every writer must invalidate, and one method that notifies after
  it has unlocked.  Correct means: the open segment is the state, wait time is
  the segment's age, segments of a goroutine do not overlap, counts are exact,
  caches answer what would be computed, and one version is one state.
- *Event stream*: a delta and the revision of the next one are read under two
  acquisitions of the lock; signals coalesce; connections break and resume.
  Correct means that a client's copy is complete, or at least that every way to
  lose an update is known, and that a wake-up is never lost.
- *Live run*: a file that grows while it is read, an exit that races with the
  reads, two goroutines that share a flag, an upload or a shutdown in between.
  Correct means: everything written is read, everything emitted is announced,
  the run ends with one verdict, and the saved capture is the run shown.
- *Sessions*: three parties finish "the current" session.
- *Pollers and registry*: a poll rebuilds the engine from the whole history, so
  what it shows must be the last dump although it is replayed from the first;
  polls outlive their target; adding and registering are two steps; a request
  chooses its engine anew at each use.  Correct means: the default is registered,
  the last dump is shown with its waits, a removed target is no longer polled,
  and a client is told that a changed list has not changed only after another
  engine came to answer it.
- *Store*: files that are read, changed and rewritten in place by several
  processes, any of which may die.  Correct means: no entry without its file, and
  nothing lost but by an overlap or a cut.
- *Functions of a snapshot*: two views of one thing that must agree (hints and
  the drawn graph, leaks and the sample, the heatmap and the peaks, the tree and
  the folded text), thresholds that split a set, a parser with a state.

## Modules and the code they model

```
GoroutineState        state_machine.go and the records: Apply, NextGoroutine
   |         \    \
Engine   TraceBuilder  \            SessionState        what a manager does
   | \ \        \       \            /        \
   |  \ MCEngine \_____ LiveRun _ SessionManager  \
   |   \             (also extends Engine)  Targets (GoroutineState, SessionState)
   |    EngineRefinement        |                  |
   |        | INSTANCE      MCLiveRun          MCTargets
   |     Revisions         what the engine promises subscribers
   |        |
   |     SSEStream -- MCSSEStream     handlers, clients, writers
   |
   MCEngineRefines (MCEngine and EngineRefinement)

WaitGraph -- Findings \                            Store -- MCStore
   |                   Analysis -- MCAnalysis
 Watch   Comparison   /
         GoroutineDump

Proofs
  GoroutineState_proofs    the state machine: types, what an event and a stack change
  Sums_proofs              induction over finite sets, sums, folds, selections, SetToSeq and FlattenSeq
  Engine_proofs            extends EngineRefinement and both of these
  SSEStream_proofs, Store_proofs
  LiveRun_proofs, Targets_proofs     extend GoroutineState_proofs and Sums_proofs
  Analysis_proofs          extends Analysis and Sums_proofs
```

**GoroutineState** holds the records and the pure transition function of one
goroutine.  Times are naturals, 0 is Go's zero `time.Time`, a missing map entry
is the zero record.  Stacks, resource names and request IDs are members of small
sets; of a label map only the request ID is kept, because grouping reads nothing
else.

**Engine** has one action per exported method of `analysis.Engine`, since each
holds `e.mu` throughout.  `LoadCapture` is the exception: it is `LoadBegin`,
`LoadEvent`*, `LoadStack`*, `LoadEnd` (with `loading` saying that the lock is
held, so that nothing else runs in between but a query of the channels, which
have a lock of their own) and `LoadNotify`, after the unlock.  The two caches
hold *what their answer is computed from* rather than the formatted answer.  The
next-state relation includes what the producers are known to do: events carry a
time, are of lifecycle kinds, arrive in time order per goroutine (`InOrder`), and
a stack is no newer than the event before it (`WithItsEvent`).  LiveRun shows the
last two of the bridge (`ProducerInOrder`) as long as no upload interferes.
`CaptureInOrder` says the same of a capture that is loaded.

**Revisions** is the abstract engine: a version, two revision marks, opaque
contents, a coalescing signal.  An event (`Touch`) moves the marks; any other
write (`Amend`, the merges of `Release`) moves at most the version; `Clear`
forgets everything.  **EngineRefinement** maps the engine's variables to it and
states `ImplementsRevisions`: every engine step is a step of Revisions or a
stutter.  `Stay` is the part of a record that only events write.

**SSEStream** puts `handleStream` on top of Revisions, `Send` and `Stamp` being
the two acquisitions of the lock, together with a client that does what the
handler's doc comment describes: it applies each delta and resumes from the last
event ID.  (The bundled browser code uses the update as a signal to fetch again,
so what this model finds concerns clients of the documented protocol.)
`missed`, `silent` and `flushed` are history variables that never guard an
action.

**TraceBuilder** contains both bridges as operators over *transitions*: the
streaming builder, which yields the calls to make on the engine, and the batch
builder with its relevance filter, which yields a capture.

**SessionState** is what the methods of `session.Manager` do to one manager;
**SessionManager** is the manager of one process, one action per method.

**LiveRun** composes Engine, TraceBuilder and SessionManager.  The target writes
a sequence of transitions, in the order of their times (`TraceInOrder`, which the
trace reader guarantees), to its file and may die at any moment, leaving a
partial record or no file; `pc` walks `streamLiveTrace` through
`WaitForTraceFile`, `TailReader.Read` (with its look at `done` between two
reads), `appendEvent` (one engine call per step), the flag shared with the
ticker, the flushes, the parents and held runs at the end, the labels and the
verdict; the ticker, the server's shutdown, and an upload (session first, load
later) run beside it.  A target that cannot be started at all ends the command
and is left out.

**Targets** is everything that polls, with one engine, one session manager and
one poller for each target and one more set for the server itself.  Its `mode` is
the command: `ui --target`, where `AddStart` starts the poller and `AddRegister`
registers the target under the lock; `attach`, whose first poll may end the
command; and `attach` with flight-recorder snapshots, each a capture of its own.
`FetchDump` is a poll up to its history, `LoadDump` the load, so that a removal,
a request or a signal may come in between.  `Route` is `engineFor`: a target that
is named and registered, else the default.  A conditional GET is `ReadVersion`
and `ReadBody`, an upload `UploadStart` and `UploadLoad`, and each of the four
chooses its engine anew, as the handlers do.  Contexts are the set `cancelled`.
`observed` remembers the dumps, and `Reroute`, which every change of the registry
performs, notes in `rerouted` which readers another engine will answer; neither
guards an action.  A dump maps a
goroutine to its block, and a block has a reason exactly when its state waits
(`IsDump`, from `classifyState`).

**Store** has the commands of separate processes over the same files, system call
by system call: `Save` and `Annotate` read and decide, `OpenFile` truncates,
`WriteFile` writes (over a file that another command wrote meanwhile, the result
may be readable or not), `Die` ends a command anywhere.  A file is absent,
unreadable or the set of what it lists: neither List nor the annotations depend
on the order.  `intact` remembers the files that no two commands held at once and
no death cut off.

**WaitGraph** (`graph.go`, `deadlock_report.go`), **Findings** (`leak.go`,
`group.go`, `sampler.go`, `contention.go`, `insights.go` and the goroutine list),
**Comparison** (`diff.go`, `stackdiff.go`, `flamegraph.go`, `cli/diff.go`),
**GoroutineDump** (`pprofpoll/parse.go`) and **Watch** (`cli/watch.go`,
`cli/top.go`) are functions.  Loops over maps are nondeterministic or sets;
sorted output is a sequence; functions and files are members of small sets, and
the order of names is that of numbers.  The parser reads lines that say what they
are (a header, a call, a place, a creator, a blank), not characters.
**Analysis** makes them a system: each request reads what it reads (goroutines
and graph under an acquisition each, and so in any combination), computes and
holds its answer; `WatchTick` is a poll of `goroscope watch`.

## Runs

Passing runs:

| Run | Question | Bounds |
|---|---|---|
| `engine` | Do the timeline and the wait times stay right under every stream of events?  Do the snapshot counter and both caches survive loads, stacks, labels, resets and queries in any order?  Does the engine implement Revisions, and is a version an ETag? | two scenarios, chosen at the start (`MCSpec`): a stream of up to 4 events out of 5 kinds of 2 goroutines over 3 ticks, with parents in between (the goroutines are alike, so the first event is `g1`'s); and loads of two captures (one with entries that name no goroutine, a goroutine seen only in a stack, labels and a graph) between streamed events, one subscriber, 6 versions.  Retention of one closed segment and one stack, so that both are trimmed |
| `sse` | What can a client lose, is a wake-up ever lost, does what is announced arrive? | 1 client, 2 goroutines, 2 contents, 3 versions, every kind of write, broken connections and resumes without limit |
| `live` | Does a run read, show, announce, save and end as it should, however the target dies? | two traces of 3 and 5 transitions, one upload, one shutdown, batches of 3 events (64 in the code) |
| `targets` | Is the default registered, the last dump shown with its waits, who is told that a stale copy is current, and is a removed target left alone? | 2 targets and the server's own engine, 2 goroutines, 3 dumps, one upload, 5 inputs altogether, each of the three commands |
| `store` | What do commands without a lock lose, and what never? | 5 commands, 2 captures, one annotated time, one suffix, one death; commands and captures are interchangeable |
| `analysis` | Does each answer agree with what it should be? | all lists of 3 goroutines over 5 records (and chosen lists of up to 6), graphs of 2 and 3 edges in every order, up to 4 of 8 segments on 2 resources, captures of up to 2 goroutines, dumps of up to 3 of 5 blocks; display limit 2 (15000 in the code), insights that list 3 goroutines |

The bounds are small but each hazard happens inside them.  The stream of `engine`
reaches a wait that is repeated, left, re-entered and trimmed with a second
goroutine in between; its loads come over streamed data, with a query before and
after, and a goroutine seen in a stack first is dropped by a reset and seen again.  In `sse` three versions are enough for a write in the window
between delta and stamp followed by another; the theorems below remove the bound.
In `live` the two traces contain a goroutine that is recognised as user code only
after its first run on a processor, a run emitted at once, a creation that the
trace does not contain, an end, and a goroutine whose latest stack makes the
batch filter drop it; a batch is filled and a batch is left to the ticker.
`MaxVersion` is never reached in `live`, else `RunEnds` would fail.  Five inputs
of `targets` are an add, two polls with a request or a removal between them and
one more; dumps list a goroutine in a wait with and without a readable address, in
another state, and not at all, so that it vanishes, comes back and continues or
restarts its wait.  Five commands of `store` are two overlapping saves with two
overlapping annotations of what they saved, and a fifth that comes later; one
death reaches every cut.  In `analysis` three goroutines make a cycle with a
bystander, three records of each kind fill every list.  Deadlock is not checked
where bounded counters stop and where a run really ends; it is in `analysis`.

Properties, and the question each answers, are stated above their definitions.
The ones that took thought: `WaitAccounted` relates an accumulated counter to a
segment that another function maintains; `LossExplained` says that there are
exactly two ways for a client to lose an update; `WakeCovered` that a waiting
handler with an empty channel is past the last announcement; `PendingFlagged`
that the flag shared by the stream and its ticker never hides an event;
`SavedAsShown` that replaying the saved file gives the records the user saw;
`WaitsSurviveReloads` finds, from the dumps alone, when the wait of a goroutine
began, and compares it with what an engine shows that is thrown away and rebuilt
with every poll; `UpdatesKept` says that overlaps and cuts are the only ways to
lose an update; `LongWaitsOnce` that two thresholds with different notions of
waiting neither miss a goroutine nor name it twice.

Violation runs (each checks one statement of the code's documentation):
`engine_groups`, `sse_window`, `sse_phantoms`, `live_session`, `watch_deadlock`,
`etag_engines`; see [disagreements](#disagreements-found).

## Fairness

- `SSESpec`: a handler is a goroutine that Go schedules, so receiving from its
  channel is weakly fair.  `Send` and `Stamp` need the read lock, which is free
  and taken again and again; `sync.RWMutex` does not let writers starve a waiting
  reader, hence strong fairness.  That of `Stamp` also supposes that the network
  write between the two returns: the server sets no write timeout
  (`api/http.go:139`), so a client that neither reads nor breaks holds its handler
  there.  `LoadCapture` ends (weak).  Writers, clients
  and the network owe nothing.
- `LiveSpec`: as long as the process lives (the command returns once its server
  has), the stream goroutine, the ticker goroutine and a load in progress are
  weakly fair, and the shutdown goroutine runs once the context is cancelled.
  Weak fairness is enough because uploads are finitely many.  The target owes
  nothing: it may stay silent for ever, never create the file, never exit.  That
  is why `EventsAnnounced` needs the ticker and `RunEnds` starts from the exit.
  A cancelled run whose target does not exit stays in the tail reader, which does
  not look at the context; only the end of the process frees it.

- `Targets`: a poller that has its dump waits for no one (weak), and a poller
  whose context is done takes its way out: `select` may prefer the tick for a
  while, but the poll of a cancelled context fails at once and changes nothing,
  so that the step stays enabled and weak fairness is enough.  Targets, clients
  and the network owe nothing: `PollersStop` holds with a target that never
  answers.
- `Store` and `Analysis` state safety only: any command may stop anywhere.

## Proofs

A theorem is listed with the property it states; the runs above check the same
property on a small instance.  All of them rest on the assumptions named in the
modules, which TLC evaluates in every run: inputs are well-typed, distinguished
values are distinct, what a producer emits is stamped and of a lifecycle kind
(`EngineAssumption`), a dump says what `classifyState` can say
(`InputAssumption` of Targets), lists and timelines are finite and hold numbers
(`InputAssumption` of Analysis), the trace reader hands out transitions in the order of their
times (`LiveAssumption`).  A theorem that needs more names it as a hypothesis.

`Engine_proofs` proves of Engine's `Spec`, for all sets of goroutines, events,
snapshots, captures, sessions and subscribers and every retention policy:

| Theorem | Property | |
|---|---|---|
| `Typing` | `TypeOK` | every variable keeps its type |
| `SegmentsInStep` | `ActiveSegmentMatches` | open segments and states agree, also inside a load |
| `MarksOrdered` | `RevisionsOrdered` | the marks `DeltaSince` reads are ordered and within the version |
| `ContentionFresh` | `ContentionCacheFresh` | the contention cache answers what would be computed |
| `GroupsFresh` | `GroupsCacheFresh` | so does the groups cache, if no parents arrive after the groups were asked for |
| `VersionCovers` | `VersionCoversState` | a visible change of data is a change of version |
| `StackCountKept` | `StackCountExact` | the stack counter is the sum of the histories, for finitely many goroutines |
| `WaitsAccounted` | `WaitAccounted` | wait time is the age of the open segment, if captures are in time order |
| `SegmentsNeverOverlap` | `SegmentsDisjoint` | segments of a goroutine are in order and disjoint, if captures are in time order |
| `EngineImplementsRevisions` | `ImplementsRevisions` | every step of the engine is a step of Revisions or a stutter |

*Hypotheses.*  `CapturesInOrder` asks of a loaded capture what `InOrder` and
`WithItsEvent` ask of a stream; the captures of `engine` have it (TLC
evaluates it), those the bridge and the pollers build have it, and of a file from
elsewhere the code checks nothing, in which case a wait may be counted twice.
`ParentsArriveDirty` excludes exactly what `engine_groups` finds: `SetParentIDs`
changing a goroutine while the groups are cached.  `IsFiniteSet(Goroutine)` gives
the sum over all histories a value.

*Argument.*  The inductive invariant `EngineInv` is `TypeOK` and six conjuncts.
`ActiveSegmentMatches` alone is not inductive: an event may find a goroutine that
was seen in a stack only, so `UnseenBlank` says that an untracked goroutine has
no state; and during a load the events still to come must be stamped
(`LoadingStamped`), or a load could change a state without its segment.
`ContentionCacheFresh` needs `LoadingDirty` (a load in progress has invalidated
the caches) and, for a streamed stack, that `LastSeenAt` does not move:
`WithItsEvent`, for the end of an open segment is `LastSeenAt` and a stack does
not invalidate the contention cache.  For the times, `TimelineInv` adds that what
is left of a load is in order among itself and ahead of what is applied, that no
open segment starts after its goroutine was last seen and no closed one ends
after it, and states the order of the closed segments for the sequence trimming
leaves, which is a suffix.  The counter is compared with the sum over the
histories by adding one history at a time to a finite set (`Sums_proofs`); inside
a load the counter is stale, and what holds is that the histories and the stacks
still to come add up to the capture's.  The refinement has a step per action: an
event is `Touch`, stacks, parents, labels, graph and runs are `Amend`, `Reset` and
`LoadBegin` are `Clear`, `LoadEnd` is `Release`; it needs that during a load an
event finds room below the bound on the version.

`SSEStream_proofs` proves of `SSESpec`, for all numbers of clients, goroutines
and contents:

| Theorem | Property | |
|---|---|---|
| `SSETyping` | `SSETypeOK` | every variable keeps its type |
| `LossIsExplained` | `LossExplained` | only the stamp window and amendments lose updates |
| `NoLostWakeUp` | `WakeCovered` | a waiting handler with an empty channel is up to date |

`SSEInv` strengthens them: a stale entry must be excused at the handler's
revision, at the last event ID (where the client resumes when the connection
breaks), and between a delta and its stamp at the version that was read
(`StaleExcused`); an entry that was never touched is silent, so that a client may
start over (`UntouchedSilent`); a handler's channel is subscribed
(`HandlerSubscribed`); revisions never exceed the version (`RevisionsBounded`).
SSEStream stands on Revisions, and `EngineImplementsRevisions` carries what is
proved there over to the engine.

`LiveRun_proofs` proves of `LiveSpec`, for any traces, batch sizes, labels,
uploads and engines:

| Theorem | Property | |
|---|---|---|
| `ReadsToTheEnd` | `ReadToTheEnd` | a stream that ends without an error has read everything |
| `PendingIsFlagged` | `PendingFlagged` | what no notification covers is flagged or in the ticker's hands |
| `ArchivesOnce` | `ArchivedOnce` | without a shutdown a session is archived once |
| `ProducerKeepsOrder` | `ProducerInOrder` | without an upload the bridge calls the engine in the order Engine assumes |
| `SavedIsShown` | `SavedAsShown` | the saved capture replays to the run that was shown |

`PendingInv` needs that no step moves the version back (`VersionGrows`, one case
for each writer) and that nothing is emitted before the loop; `ArchiveInv` that
the history is empty until the stream's last step.  `OrderInv` relates the calls
of the transition in progress, all at its time and a stack right after the event
of the same goroutine (`Fits`), to the engine, whose goroutines were seen no later
than that; an upload ends the relation for good, since a load replaces the
goroutines by those of another clock.

`SavedIsShown` is a simulation between two programs that read one file: the stream,
step by step into an engine, and the batch builder, of which LiveRun has only the
result, a fold over the whole trace.  `SavedInv` puts beside the stream the batch
builder as it would be after the transitions read so far (`Built`).  The two agree
but for the runs one has emitted and the other holds (`Twin`); a run ends before
its goroutine's next one begins, so that none is counted twice (`RunsOK`).  The
engine lags by the calls that are left: once they are made (`Applying`) it shows
`Target`, the records that the batch builder's events make with the stacks on top.
`TargetStep` is one transition, `SavedApply` one call, `SavedEnds` the parents,
the runs that were held and the labels.  That the stream interleaves stacks with
events, while a replay has all events first, changes nothing because an event
neither reads nor writes the latest stack (`NextOfShot`) and a stack is no newer
than its event (`StackOfShot`, `Covered`).  That the filter drops goroutines
changes nothing for the others, since a step of the replay looks at one goroutine
only (`Local`, `KeptFold`).  The theorem assumes no more than `LiveAssumption`.

`Targets_proofs` proves of `Spec`, for any targets, goroutines, dumps, uploads and
each of the three commands:

| Theorem | Property | |
|---|---|---|
| `DefaultIsRegistered` | `DefaultRegistered` | the default is registered, and unset only when nothing is |
| `EngineShowsLatestDump` | `ShownIsDump` | an engine that a poll loaded shows what the latest dump said |
| `WaitTimesSurvive` | `WaitsSurviveReloads` | the wait shown is the time since the dump that began it |
| `OnlyReroutingMisleads` | `MisledOnlyIfRerouted` | a 304 for a stale copy needs a change of the registry that gave the client another engine |

The first is inductive with the targets' type.  For the next two the hard part is
that a poll shows nothing itself: it appends to a history, which is replayed from
its first event into an empty engine.  `Histories` is the invariant of a history:
replayed, it gives every goroutine of the latest dump its block and every other
one that ever was an end; it is kept by a step per event that a poll appends
(`BlockEvents`, `EndEvents`), since replaying is a recursive function of the
history's length.  `EngineShows` carries it to the engines that hold a poller's
session, and `Numbered` tells those from the engines an upload has overwritten:
a manager numbers its sessions upwards, so that no upload is ever bound to the
session a poller started before.  `WaitInv` adds, to the same replay, since when
each goroutine is seen waiting: `observed`, the list of dumps, determines it
(`IsSince`), and the replay agrees.  `TagInv` is that versions only grow, and grow
with every load, so that a tag read before a load matches nothing after it, as long
as `Reroute` has not noted that another engine answers the client: of a new engine's
version the client's tag says nothing, which is what `etag_engines` shows.

`Store_proofs` proves of `Spec`, for any commands, captures, times and suffixes:

| Theorem | Property | |
|---|---|---|
| `FileBeforeEntry` | `EntriesHaveFiles` | what is listed has its file, or annotate commands took it |
| `OnlyOverlapLoses` | `UpdatesKept` | a file whose updates did not overlap holds what they made of it |
| `PlainIDs` | `PlainIDsUnique` | no file holds two annotations with one plain ID |

`StoreInv` says how far each command is (`StepsOK`), that a capture has one save,
which comes before any annotation (`OneSave`, `FreshUntilWritten`), that two
commands which hold one file have spoilt it (`SpoiltByOverlap`), that captures in
the index, or on their way to it, are filed (`FiledFirst`), and that in an intact
file the items are the net sum of the finished commands, to which the one that
holds it adds its own change (`Accounted`).  TLC checked the invariant itself
before the proof.  It rests on `StoreAssumption` only.

`Analysis_proofs` proves of Analysis's `Spec`, for any lists, timelines, graphs
and captures of any size:

| Theorem | Property | |
|---|---|---|
| `HintsAreReal` | `HintsAreDeadlocks` | a hint is a simple cycle of goroutines that are blocked, also if the graph was read at another moment |
| `LeaksStayShown` | `LeaksSurviveSampling` | a leak is left out of the sample only when the sample is full of leaks |
| `SeveritiesDescend` | `SeverityRanked` | no insight stands above a more severe one |
| `LongWaitsAreNamed` | `LongWaitsOnce` | who waits long is named by one insight, unless that one is full |
| `PeaksAreShown` | `HeatmapShowsPeak` | a bin counts what runs when it starts and what starts later in it, and the peak is reached in its row |
| `ComparisonsMirror` | `DiffMirrors` | the comparison read from the other side says the opposite |
| `ContendersAreHinted` | `ContendersHinted` | without a graph, contenders for one resource have their hint and their red nodes |
| `FlamesAgree` | `FoldedAgrees` | a node of the tree is the sum of the folded lines through it |
| `DumpsAreUnderstood` | `DumpUnderstood` | the parser reads every readable block as the runtime printed it |

The state is one request and its answer, so each property is inductive as it
stands, and the work is in the operators.  A list ranked by counting how many
come before each element is a permutation in that order if the order is total
(`RankedIs`); the sampler and the order of the insights then follow from the
scores alone.  That the groups of leaks share no goroutine and leave none out
(`GroupsAre`) makes the leaks name each goroutine once, and a threshold separates
them from what blocking names (`LeakNamed`, `BlockingNamed`).
The search `FindCycle` is a recursive function on the paths of the graph: that
it exists is shown by induction over the number of goroutines still open
(`Open`, `SearchesExists`), that what it returns closes by induction over the
same measure along the walk (`WalkCloses`), and `ClosedIs` carries it through the
rotation that makes equal cycles one hint.  For the heatmap, the prefix sums of
the delta array are compared with the number of segments between their first and
last bin by induction over the bins (`BetweenIs`, `RunsAre`); the peak is reached
when some segment starts, and the bin of that time is touched by everything that
runs then (`PeakTouches`).

`ContendersAreHinted` is the converse of `HintsAreReal`: the search is complete
where it has to be.  Edges derived for one resource form a ring (`Ring`) that
shares no goroutine with another one, because a goroutine has one resource
(`DerivedEdges`, `ProperRing`); a walk that enters a ring stays in it
(`SearchStays`) and comes back to its start (`RingFound`), whatever the order in
which goroutines and resources are visited.  The dump and the flame graph compare
a fold with what it should compute, by an invariant of the fold's prefixes: the
parser's state after some lines is the blocks closed so far and the one still
open, and the sum of a node's lines grows with each stack by what the tree adds.
`Where`, a selection of a sequence in its order (Selection), is followed through
one append at a time (`ChosenAppend`).

*Induction.*  The prover cannot instantiate a theorem that takes an operator, such
as the library's for natural numbers.  Three ways around it are used: a predicate
given as the *set* of numbers, or of subsets, that satisfy it (`NatSetInduction`,
`SubsetInduction` in `Sums_proofs`); an invariant of the steps that build a
sequence, with a recursive function of its length for what the sequence means;
and, for a recursive function of the model, the solutions of its equation on the
arguments up to some measure, shown to exist by induction over it.

Every invariant and action property of the passing runs is a theorem.  Only
model-checked is liveness under fairness, which the prover cannot do:
`FlushReaches`, `RunEnds`, `EventsAnnounced`, `PollersStop`.

## Disagreements found

| Run | Code | Documentation |
|---|---|---|
| `sse_window` | the delta and the next revision are read under two locks; an event in between reaches no delta (`api/http.go:1376`) | the stream sends what changed "since the client's last revision, so the client does not need to re-fetch" (`api/http.go:1322`) |
| `sse_phantoms` | resets and loads drop goroutines and no delta removes them | "the engine never deletes goroutines" (`analysis/engine.go:721`) |
| `engine_groups` | `SetParentIDs` does not invalidate the request groups | groups follow the "parent-chain" (`analysis/requests.go:11`) |
| `live_session` | an upload replaces the current session, and the end of the run finishes that one | the stream "marks the session complete (or failed)" (`cli/app.go:1271`) |
| `watch_deadlock` | the edges of the watch lead from a goroutine that waits to one that does not, and close no cycle (`cli/watch.go:286`) | "alert on any deadlock hint" (`cli/watch.go:66`) |
| `etag_engines` | a tag is the version of whichever engine answered; when the registry changes which one answers, the same number is another list's, and a 304 confirms a stale copy (`api/http.go:505`, `:513`) | a version "that changes whenever engine state changes. Used for ETag / conditional requests" (`analysis/engine.go:337`) |

Seen while reading, and not given a run:

- Engine and captures: `LoadCapture` keeps every stack (`analysis/engine.go:212`),
  `MaxStacksPerGoroutine` caps "snapshots retained per goroutine"
  (`analysis/engine.go:19`).  A goroutine that reappears keeps the time of its
  first death (`DiedNS`).  `xtrace.go:120` says that parents are kept for the
  goroutines the relevance filter keeps, the code keeps them for those the builder
  kept, which are more (`BuildCapture` follows the code).
- Sessions: shutdown completes the current session whatever its status, so that a
  failed run is archived a second time as completed (`api/http.go:149`).  With
  `attach`, both the server and the pprof poller complete the same session; the
  flight-recorder poller never does.  Managers number their sessions alike.
- Targets: `engineFor` answers a request that names no target, or one that is
  gone, from the registry's default; its comment says "the server's primary engine"
  (`api/http.go:86`).  Between starting a session and loading its capture an
  upload chooses its target again.  An uploaded capture is overwritten by the next
  poll while the session shown stays the upload's.  `Default` is documented as the target added first
  (`target/registry.go:149`): it is the one registered first, and after a removal
  any of the others.
- Store: a damaged index makes every later save and list fail, and nothing
  repairs it.  Entries are listed in the order of the updates of the index, which
  for overlapping saves is not that of their times (`store/store.go:88`).  The
  suffix that makes an annotation's ID different is not checked again.
- Deadlock search: of each start only the first cycle is returned, so that a cycle
  of blocked goroutines is missed when one through a running goroutine is met
  first (`graph.go:131`).  Insights are promised stable IDs within a snapshot
  (`insights.go:36`), but deadlocks are numbered in the order of a map.
- Thresholds: the sampler raises a goroutine at *more than* 30 s, leaks begin *at*
  30 s.  A goroutine long in SYSCALL is in no insight.  A comparison calls a
  goroutine improved when either of its two times went down, also when the other
  went up.  `diff --format=json` ignores `--threshold`.
- Heatmap: the comment of `ContentionHeatmap` promises "the instantaneous
  concurrent count at the start of each bin" (`analysis/contention.go:33`), and the
  rows are described as "concurrent-waiter counts" (`:9`), in the CHANGELOG as
  "peak waiter count".  The code adds a segment to every bin it touches (`:96`),
  also when it starts after the bin does, and counts segments that follow one
  another within a bin together though they never wait at once: of [2, 6) and
  [5, 7), in bins of width 2 from 2, the bin from 4 counts both, and only the first
  runs at 4.  The tests only have segments that start and end with a bin.
  `HeatmapShowsPeak` states what the code does: the count of the comment and the
  later starters, never fewer than wait at once.
- Watch: the text format posts no webhook; `-alert-block-ms` ignores durations (a
  comment says so).
- Agent: when the snapshot server cannot listen, the goroutine that waits for the
  context returns, and the flight recorder is not stopped with the context
  (`agent/flightrec.go:137`); `stopOnce` is a plain bool.

## Not modelled

Formatting, authentication, CORS, asset serving, argument parsing, the parser of
textual traces, the binary trace format (`golang.org/x/exp/trace`), OTLP, the CI
check, static analysis and the user interfaces: their correctness is about data,
not about order or shared state.  The handlers that copy one reading (a
goroutine, its stacks, the timeline, the export, metrics) have nothing of their
own to get wrong.  The agent runs in another program and consists of calls of the
runtime.  Read-only engine
methods are modelled where an answer has something to get wrong (Analysis) and
left out where they copy.  Several engines behind one event stream, and a restart
of the server under a client that resumes, are not modelled.

## Next

1. The event stream over Targets: a client whose target changes or whose server
   restarts resumes at a version of another engine.
2. The agent's flight recorder: its two callers and the listener that fails.
