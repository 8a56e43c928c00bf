------------------------------- MODULE Targets -------------------------------
(***************************************************************************)
(* Polling: the registry of targets (internal/target/registry.go), one     *)
(* pprof poller per target (internal/pprofpoll/poller.go), the requests    *)
(* that name a target or fall back to the default one, and the two         *)
(* commands that poll: `ui --target` (many targets) and `attach` (one, at  *)
(* the server's own engine, by pprof or by flight-recorder snapshots).     *)
(*                                                                         *)
(* NoTarget is the zero ID, and the key of the server's own engine and     *)
(* session manager.  A dump maps the goroutines it lists to what their     *)
(* blocks say (GoroutineDump is the parser); a poll's LoadCapture is one   *)
(* step, whose inside is Engine's.                                         *)
(***************************************************************************)
EXTENDS GoroutineState, SessionState, SequencesExt

CONSTANTS
  Target,       \* IDs that generateID may return; none is returned twice
  NoTarget,
  Dumps,        \* what a target may answer
  Uploads,      \* captures a client may upload: sequences of events
  Modes,        \* commands: "ui", "attach" (pprof) and "recorder" (attach)
  Asked,        \* IDs that requests name, NoTarget for none
  MaxInputs     \* bound: adds, removals, dumps, reads and uploads altogether

ASSUME TargetAssumption == NoTarget \notin Target

\* What a dump says of a goroutine: goroutineInfo.
Block ==
  [state: GoroutineStates, reason: Reason \cup {""}, resource: Resource \cup {""},
   parent: Goroutine \cup {NoID}, frames: Frames \cup {NoFrames}]

\* classifyState gives a reason to the states that wait, and to them only.
IsDump(dump) ==
  /\ IsFiniteSet(DOMAIN dump) /\ DOMAIN dump \subseteq Goroutine
  /\ \A g \in DOMAIN dump :
       dump[g] \in Block /\ (dump[g].reason = "" <=> ~ isWaitState(dump[g].state))

ASSUME InputAssumption ==
  /\ \A dump \in Dumps : IsDump(dump)
  /\ \A events \in Uploads : events \in Seq(Event)

VARIABLES
  mode,        \* the command that runs
  targets,     \* the keys of r.targets
  defaultID,   \* r.defaultID
  added,       \* targets that Add was called for
  adding,      \* targets whose Add runs: polled and not yet registered
  cancelled,   \* keys whose poller's context is done
  poller,      \* each poller: its place, the dump it holds, knownIDs, events, stacks
  engine,      \* each engine: session, goroutines, version
  sessions,    \* each session manager
  interrupted, \* the command's context is done
  serving,     \* the server: "no" (not yet), "yes", "exited"
  upload,      \* the upload in progress
  client,      \* a polling client: its cached answer, and the one in progress
  inputs,      \* how many inputs there were
  now,         \* the clock: one tick per dump
  observed     \* auxiliary: the dumps of each poller and their times

registryVars == <<targets, defaultID, added, adding>>
serverVars == <<mode, interrupted, serving>>
requestVars == <<upload, client>>
clockVars == <<now, observed>>
vars == <<registryVars, serverVars, requestVars, cancelled, poller, engine,
          sessions, inputs, clockVars>>

Keys == Target \cup {NoTarget}

-----------------------------------------------------------------------------
(* Engines *)

\* Managers number their sessions alike, so a session is known by its manager
\* too.  The one that NewPoller starts is the first.
PollerSession(k) == [of |-> k, id |-> 1]
NoSession == [of |-> NoTarget, id |-> 0]

NewEngine ==
  [session |-> NoSession, goroutines |-> [g \in Goroutine |-> ZeroGoroutine],
   version |-> 0]

Touch(gs, event) ==
  [gs EXCEPT ![event.gid] = NextGoroutine(@, normalizeEvent(event))]

Sample(gs, snapshot) == [gs EXCEPT ![snapshot.gid] = WithStack(@, snapshot)]

\* Mutant: a reset starts the versions over.
VersionFromZero(version, events, stacks) == 1 + Len(events) + Len(stacks)

\* The reset and each event and stack bump the version.
LoadedVersion(version, events, stacks) ==
  version + 1 + Len(events) + Len(stacks)

\* LoadCapture: all the events, then all the stacks, into an empty engine.
Loaded(e, session, events, stacks) ==
  LET touched[i \in 0..Len(events)] ==
        IF i = 0 THEN NewEngine.goroutines ELSE Touch(touched[i - 1], events[i])
      sampled[i \in 0..Len(stacks)] ==
        IF i = 0 THEN touched[Len(events)] ELSE Sample(sampled[i - 1], stacks[i])
  IN  [session    |-> session,
       goroutines |-> sampled[Len(stacks)],
       version    |-> LoadedVersion(e.version, events, stacks)]

-----------------------------------------------------------------------------
(* The pprof poller *)

NoPoller ==
  [at |-> "none", dump |-> <<>>, known |-> {}, events |-> <<>>, stacks |-> <<>>]


Ev(kind, g, t) ==
  [kind |-> kind, gid |-> g, ts |-> t, state |-> "", reason |-> "",
   resource |-> "", parent |-> NoID, label |-> NoLabel]

\* A goroutine that is not known is created; any is given the state it is in.
BlockEvents(g, block, known, t) ==
  (IF g \in known THEN <<>>
   ELSE <<[Ev("goroutine.create", g, t) EXCEPT !.parent = block.parent]>>)
  \o <<[Ev("goroutine.state", g, t) EXCEPT
          !.state = block.state, !.reason = block.reason, !.resource = block.resource]>>

StacksOf(dump, t) ==
  LET sampled == {g \in DOMAIN dump : dump[g].frames # NoFrames}
  IN  SetToSeq({[gid |-> g, ts |-> t, frames |-> dump[g].frames] : g \in sampled})

\* Mutant: goroutines that disappeared are not ended.
EndNone(known, dump, t) == <<>>

EndEvents(known, dump, t) ==
  SetToSeq({Ev("goroutine.end", g, t) : g \in known \ DOMAIN dump})

\* Mutant: each poll feeds the engine what it saw, not the whole history.
OnlyLast(history, fresh) == fresh

Accumulate(history, fresh) == history \o fresh

\* What a dump adds to the poller's history.
Polled(p, dump, t) ==
  LET ids   == SetToSeq(DOMAIN dump)
      fresh == FlattenSeq([i \in 1..Len(ids) |->
                             BlockEvents(ids[i], dump[ids[i]], p.known, t)])
               \o EndEvents(p.known, dump, t)
  IN  [at     |-> "loading",
       dump   |-> dump,
       known  |-> DOMAIN dump,
       events |-> Accumulate(p.events, fresh),
       stacks |-> Accumulate(p.stacks, StacksOf(dump, t))]

Alive == serving # "exited"

\* Something happens outside.
Input == inputs < MaxInputs /\ inputs' = inputs + 1

\* A tick's request brings the dump, unless its context is cancelled, and poll
\* works it into the history.  A flight recorder's snapshot is a capture of its
\* own: it starts from none.  A failed request is logged and changes nothing ...
FetchDump(k, dump) ==
  /\ Alive /\ poller[k].at \in {"idle", "verifying"} /\ k \notin cancelled
  /\ Input
  /\ now' = now + 1
  /\ poller' = [poller EXCEPT
                  ![k] = Polled(IF mode = "recorder" THEN NoPoller ELSE @, dump, now')]
  /\ observed' = [observed EXCEPT ![k] = Append(@, [dump |-> dump, ts |-> now'])]
  /\ UNCHANGED <<registryVars, serverVars, requestVars, cancelled, engine, sessions>>

\* ... but that of attach's first poll, which ends the command.
VerifyFails ==
  /\ Alive /\ poller[NoTarget].at = "verifying"
  /\ serving' = "exited"
  /\ UNCHANGED <<registryVars, requestVars, mode, interrupted, cancelled, poller,
                 engine, sessions, inputs, clockVars>>

\* The end of poll, whether or not the context was cancelled meanwhile.
LoadDump(k) ==
  /\ Alive /\ poller[k].at = "loading"
  /\ poller' = [poller EXCEPT ![k].at = "idle"]
  /\ engine' = [engine EXCEPT
                  ![k] = Loaded(@, PollerSession(k), poller[k].events,
                                poller[k].stacks)]
  /\ serving' = IF serving = "no" THEN "yes" ELSE serving
  /\ UNCHANGED <<registryVars, requestVars, mode, interrupted, cancelled,
                 sessions, inputs, clockVars>>

\* Run's select takes the cancelled context: the pprof poller completes whatever
\* session is current, the flight recorder's just returns.
StopPoller(k) ==
  /\ Alive /\ poller[k].at = "idle" /\ k \in cancelled
  /\ poller' = [poller EXCEPT ![k].at = "stopped"]
  /\ sessions' = IF mode = "recorder" THEN sessions
                 ELSE [sessions EXCEPT ![k] = Finished(@, "completed")]
  /\ UNCHANGED <<registryVars, serverVars, requestVars, cancelled, engine, inputs,
                 clockVars>>

-----------------------------------------------------------------------------
(* The registry *)

\* engineFor and sessionsFor are the same choice, made anew at each of the places
\* where a handler calls them.
RouteIn(registered, default, id) ==
  IF id \in registered THEN id ELSE default

Route(id) == RouteIn(targets, defaultID, id)

\* Auxiliary: a step of the registry that answers the client from another engine
\* than before.
Reroute ==
  LET other == RouteIn(targets', defaultID', client.asks) # Route(client.asks)
  IN  client' = [client EXCEPT !.rerouted = @ \/ other, !.newRerouted = @ \/ other]

\* Add starts the session and the poller, whose context is a child of the
\* command's, and only then takes r.mu ...
AddStart(t) ==
  /\ Alive /\ mode = "ui" /\ Input
  /\ t \notin added
  /\ added' = added \cup {t}
  /\ adding' = adding \cup {t}
  /\ sessions' = [sessions EXCEPT ![t] = Started(@)]
  /\ poller' = [poller EXCEPT ![t].at = "idle"]
  /\ cancelled' = IF interrupted THEN cancelled \cup {t} ELSE cancelled
  /\ UNCHANGED <<serverVars, requestVars, targets, defaultID, engine, clockVars>>

\* ... to register the target; the first one becomes the default.
AddRegister(t) ==
  /\ Alive /\ t \in adding
  /\ adding' = adding \ {t}
  /\ targets' = targets \cup {t}
  /\ defaultID' = IF defaultID = NoTarget THEN t ELSE defaultID
  /\ Reroute
  /\ UNCHANGED <<serverVars, upload, added, cancelled, poller, engine, sessions,
                 inputs, clockVars>>

\* Mutant: the default is not reassigned.
KeepDefault(t) == {defaultID}

\* The default after t is removed: if it was t, any other by map order.
DefaultsWithout(t) ==
  IF defaultID # t THEN {defaultID}
  ELSE IF targets = {t} THEN {NoTarget} ELSE targets \ {t}

\* Mutant: the poller is left running.
CancelNone(t) == cancelled

Cancelling(t) == cancelled \cup {t}

RemoveTarget(t) ==
  /\ Alive /\ t \in targets /\ Input
  /\ targets' = targets \ {t}
  /\ defaultID' \in DefaultsWithout(t)
  /\ cancelled' = Cancelling(t)
  /\ Reroute
  /\ UNCHANGED <<serverVars, upload, added, adding, poller, engine, sessions,
                 clockVars>>

-----------------------------------------------------------------------------
(* Requests *)

Serving == serving = "yes"

\* The engine that answers the client.
Answering == engine[Route(client.asks)]

\* A GET is answered 304, and the client keeps its copy, when the tag of the copy
\* is the version of the engine that answers.
NotModified == client.tag = Answering.version

\* Otherwise that version is the tag of the answer ...
ReadVersion ==
  /\ Serving /\ ~ client.reading /\ Input
  /\ ~ NotModified
  /\ client' = [client EXCEPT !.reading = TRUE, !.newTag = Answering.version,
                              !.newRerouted = FALSE]
  /\ UNCHANGED <<registryVars, serverVars, upload, cancelled, poller, engine,
                 sessions, clockVars>>

\* ... and the body is read after it, from an engine chosen anew.
ReadBody ==
  /\ Alive /\ client.reading
  /\ client' = [client EXCEPT
                  !.reading = FALSE, !.newTag = 0, !.newRerouted = FALSE,
                  !.tag = client.newTag, !.body = Answering.goroutines,
                  !.rerouted = client.newRerouted]
  /\ UNCHANGED <<registryVars, serverVars, upload, cancelled, poller, engine,
                 sessions, inputs, clockVars>>

\* handleReplayLoad starts a session with one manager ...
UploadStart(id, events) ==
  LET k == Route(id)
  IN  /\ Serving /\ upload.at = "idle" /\ Input
      /\ sessions' = [sessions EXCEPT ![k] = Started(@)]
      /\ upload' = [at |-> "load", asks |-> id, events |-> events,
                    session |-> [of |-> k, id |-> sessions'[k].current.id]]
      /\ UNCHANGED <<registryVars, serverVars, client, cancelled, poller, engine,
                     clockVars>>

\* ... and loads the capture into an engine.
UploadLoad ==
  LET k == Route(upload.asks)
  IN  /\ Alive /\ upload.at = "load"
      /\ engine' = [engine EXCEPT ![k] = Loaded(@, upload.session, upload.events, <<>>)]
      /\ upload' = [upload EXCEPT !.at = "idle", !.asks = NoTarget, !.events = <<>>,
                                  !.session = NoSession]
      /\ UNCHANGED <<registryVars, serverVars, client, cancelled, poller, sessions,
                     inputs, clockVars>>

-----------------------------------------------------------------------------
(* The command *)

\* A signal: every poller's context is a child of the command's.
Interrupt ==
  /\ Alive /\ ~ interrupted
  /\ interrupted' = TRUE
  /\ cancelled' = cancelled \cup {k \in Keys : poller[k].at # "none"}
  /\ UNCHANGED <<registryVars, requestVars, mode, serving, poller, engine,
                 sessions, inputs, clockVars>>

\* Serve completes the session of its own manager and shuts down; the process
\* ends, wherever its pollers are.
Exit ==
  /\ interrupted /\ serving = "yes"
  /\ serving' = "exited"
  /\ sessions' = [sessions EXCEPT ![NoTarget] = Finished(@, "completed")]
  /\ UNCHANGED <<registryVars, requestVars, mode, interrupted, cancelled, poller,
                 engine, inputs, clockVars>>

-----------------------------------------------------------------------------

\* attach polls once before it serves; ui serves at once.
Init ==
  /\ mode \in Modes
  /\ targets = {} /\ defaultID = NoTarget /\ adding = {}
  /\ added = {}
  /\ cancelled = {}
  /\ poller = [k \in Keys |->
                 IF k = NoTarget /\ mode # "ui"
                 THEN [NoPoller EXCEPT !.at = "verifying"] ELSE NoPoller]
  /\ engine = [k \in Keys |-> NewEngine]
  /\ sessions = [k \in Keys |->
                   IF k = NoTarget /\ mode # "ui" THEN Started(NewManager)
                   ELSE NewManager]
  /\ interrupted = FALSE
  /\ serving = IF mode = "ui" THEN "yes" ELSE "no"
  /\ upload = [at |-> "idle", asks |-> NoTarget, events |-> <<>>,
             session |-> NoSession]
  /\ client \in [asks: Asked, reading: {FALSE}, newTag: {0}, newRerouted: {FALSE},
                 tag: {-1}, body: {NewEngine.goroutines}, rerouted: {FALSE}]
  /\ inputs = 0 /\ now = 0 /\ observed = [k \in Keys |-> <<>>]

Poll(k) ==
  \/ \E dump \in Dumps : FetchDump(k, dump)
  \/ LoadDump(k)
  \/ StopPoller(k)

Next ==
  \/ \E k \in Keys : Poll(k)
  \/ VerifyFails
  \/ \E t \in Target : AddStart(t) \/ AddRegister(t) \/ RemoveTarget(t)
  \/ ReadVersion
  \/ ReadBody
  \/ \E id \in Asked, events \in Uploads : UploadStart(id, events)
  \/ UploadLoad
  \/ Interrupt
  \/ Exit

\* A poll that has its dump waits for nobody.  Of a tick and a cancelled context
\* that are both ready select takes either, but a poll of a cancelled context
\* fails at once, so Run takes the latter at last.
Fairness ==
  \A k \in Keys : WF_vars(LoadDump(k)) /\ WF_vars(StopPoller(k))

Spec == Init /\ [][Next]_vars /\ Fairness

-----------------------------------------------------------------------------
(* Properties *)

\* A request that names no target, or one that is gone, is answered by a target
\* as long as there is one: whatever was added and removed, and however adds
\* interleave, the default is registered, and unset only when nothing is.
DefaultRegistered ==
  IF targets = {} THEN defaultID = NoTarget ELSE defaultID \in targets

\* The engine holds the poller's latest dump, and no upload since.
ShowsPoll(k) ==
  engine[k].session = PollerSession(k) /\ poller[k].at \notin {"none", "loading"}

Given(value, shown) == value \in {"", shown}

\* What an engine shows after its poller loaded a dump is the dump, although it
\* was rebuilt from all the events so far: each listed goroutine is in the state
\* its block said, with the block's last stack, and one that an earlier dump
\* listed and this one does not is finished.
ShownIsDump ==
  \A k \in Keys :
    ShowsPoll(k) =>
      LET dump == poller[k].dump
      IN  \A g \in Goroutine :
            LET shown == engine[k].goroutines[g]
            IN  IF g \in DOMAIN dump
                THEN /\ shown.state = dump[g].state
                     /\ shown.reason = dump[g].reason
                     /\ IF isWaitState(shown.state)
                        THEN Given(dump[g].resource, shown.resource)
                        ELSE shown.resource = ""
                     /\ dump[g].frames \in {NoFrames, shown.lastStack}
                     /\ shown.isAlive = (shown.state # "DONE")
                ELSE shown.known => shown.state = "DONE" /\ ~ shown.isAlive

LastPoll(k) == observed[k][Len(observed[k])].ts

\* The time of the first of the dumps that end a poller's and all list g in the
\* wait the last one does.  One without a readable resource repeats one with it.
WaitingSince(dumps, g) ==
  LET last == Len(dumps)
      SameWait(i, j) == /\ g \in DOMAIN dumps[i].dump \cap DOMAIN dumps[j].dump
                        /\ dumps[j].dump[g].state = dumps[i].dump[g].state
                        /\ dumps[j].dump[g].reason = dumps[i].dump[g].reason
                        /\ Given(dumps[j].dump[g].resource, dumps[i].dump[g].resource)
      Whole(i) == \A j \in i..last : SameWait(i, j)
  IN  dumps[CHOOSE i \in 1..last : Whole(i) /\ \A h \in 1..(i - 1) : ~ Whole(h)].ts

\* Every poll resets the engine, and yet the wait time it shows, which leak
\* detection compares with its threshold, goes back to the first dump of the
\* wait the goroutine is still in.
WaitsSurviveReloads ==
  \A k \in Keys :
    ShowsPoll(k) /\ mode # "recorder" =>
      \A g \in DOMAIN poller[k].dump :
        engine[k].goroutines[g].waitNS =
          IF isWaitState(poller[k].dump[g].state)
          THEN LastPoll(k) - WaitingSince(observed[k], g) ELSE 0

\* A client is told "not modified" of a copy that is not what the engine that
\* answers holds only if a registration or a removal has given it another engine
\* since the version of its tag was read: no poll, no upload and no change of the
\* registry that leaves its own target alone does it, whether it comes before the
\* body is read or after.  The next property is what is lost with that exception.
MisledOnlyIfRerouted ==
  NotModified => client.body = Answering.goroutines \/ client.rerouted

\* "304 Not Modified": the version, a tag for conditional requests that "changes
\* whenever engine state changes", tells a current copy from any other.
NotModifiedIsCurrent ==
  NotModified => client.body = Answering.goroutines

Removed(t) == t \in added /\ t \notin targets \cup adding

\* The poller of a removed target stops, and does not poll it for ever.
PollersStop ==
  \A t \in Target : Removed(t) ~> (poller[t].at = "stopped" \/ serving = "exited")
=============================================================================
