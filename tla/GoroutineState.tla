--------------------------- MODULE GoroutineState ---------------------------
(***************************************************************************)
(* The goroutine state machine (internal/analysis/state_machine.go): what  *)
(* a goroutine is, what an event is, and how one event turns one goroutine *)
(* into the next.  Pure operators: Engine.tla holds the state.             *)
(*                                                                         *)
(* Times are naturals and 0 is Go's zero time.Time.  A missing map entry   *)
(* is the zero Goroutine, as in Go.  Stack frames, request IDs and         *)
(* resource names are members of small sets: nothing looks inside them.    *)
(* Of a goroutine's labels only its request ID matters here.               *)
(***************************************************************************)
EXTENDS Integers

CONSTANTS
  Goroutine,  \* goroutine IDs other than Go's zero value
  NoID,       \* the zero ID: no goroutine, unknown parent
  Reason,     \* blocking reasons, "unknown" among them
  Resource,   \* resource IDs
  Label,      \* request IDs that a label may carry
  NoLabel,    \* no request-ID label
  Frames,     \* call stacks
  NoFrames    \* no stack seen yet (LastStack is nil)

ASSUME NoIDAssumption == NoID \notin Goroutine
ASSUME NoFramesAssumption == NoFrames \notin Frames
ASSUME NoLabelAssumption == NoLabel \notin Label
ASSUME UnknownAssumption == "unknown" \in Reason

GoroutineStates ==
  {"RUNNING", "RUNNABLE", "WAITING", "BLOCKED", "SYSCALL", "DONE"}

EventKinds ==
  {"goroutine.create", "goroutine.start", "goroutine.state", "goroutine.end",
   "stack.snapshot", "resource.edge"}

Event ==
  [kind: EventKinds, gid: Goroutine \cup {NoID}, ts: Nat,
   state: GoroutineStates \cup {""}, reason: Reason \cup {""},
   resource: Resource \cup {""}, parent: Goroutine \cup {NoID},
   label: Label \cup {NoLabel}]

StackSnapshot == [gid: Goroutine \cup {NoID}, ts: Nat, frames: Frames]

\* known stands for ID # 0; BornNS is CreatedAt, set by the first event, and is
\* left out.
GoroutineRecord ==
  [known: BOOLEAN, parent: Goroutine \cup {NoID},
   state: GoroutineStates \cup {""}, reason: Reason \cup {""},
   resource: Resource \cup {""}, waitNS: Nat, createdAt: Nat,
   lastSeenAt: Nat, diedNS: Nat, isAlive: BOOLEAN,
   lastStack: Frames \cup {NoFrames}, label: Label \cup {NoLabel}]

ZeroGoroutine ==
  [known |-> FALSE, parent |-> NoID, state |-> "", reason |-> "",
   resource |-> "", waitNS |-> 0, createdAt |-> 0, lastSeenAt |-> 0,
   diedNS |-> 0, isAlive |-> FALSE, lastStack |-> NoFrames, label |-> NoLabel]

-----------------------------------------------------------------------------

isWaitState(state) == state \in {"WAITING", "BLOCKED", "SYSCALL"}

isTimelineEventKind(kind) ==
  kind \in {"goroutine.create", "goroutine.start", "goroutine.state",
            "goroutine.end"}

shouldTrackState(state) == state \notin {"", "DONE"}

\* Mutant: the operands of the subtraction swapped.
elapsedNSSwapped(from, to) == IF from = 0 \/ to <= from THEN 0 ELSE from - to

elapsedNS(from, to) == IF from = 0 \/ to <= from THEN 0 ELSE to - from

FirstOf(value, fallback) == IF value # "" THEN value ELSE fallback

\* Merging labels: a new value of a key wins.
OverrideLabel(new, old) == IF new # NoLabel THEN new ELSE old

resolveNextState(current, event) ==
  CASE event.kind = "goroutine.end"    -> "DONE"
    [] event.kind = "goroutine.create" -> FirstOf(event.state, "RUNNABLE")
    [] event.kind = "goroutine.start"  -> FirstOf(event.state, "RUNNING")
    [] OTHER                           -> FirstOf(event.state, current.state)

\* The event finds the goroutine in the wait it is already in: same state,
\* and a reason and resource that are the same or not given.
continuingWait(current, event) ==
  /\ isWaitState(current.state)
  /\ resolveNextState(current, event) = current.state
  /\ event.reason \in {"", current.reason}
  /\ event.resource \in {"", current.resource}

\* StateMachine.Apply.  A continuing wait accumulates WaitNS; any other event
\* starts a new stay and resets it.
Apply(current, event) ==
  LET seen == [current EXCEPT
                 !.known      = TRUE,
                 !.createdAt  = IF @ = 0 THEN event.ts ELSE @,
                 !.lastSeenAt = IF event.ts # 0 THEN event.ts ELSE @,
                 !.label      = OverrideLabel(event.label, @)]
      state == resolveNextState(current, event)
      waits == isWaitState(state)
  IN  IF continuingWait(current, event)
      THEN [seen EXCEPT
              !.waitNS = @ + elapsedNS(current.lastSeenAt, event.ts)]
      ELSE [seen EXCEPT
              !.state    = state,
              !.waitNS   = 0,
              !.reason   = IF waits THEN FirstOf(event.reason, "unknown") ELSE "",
              !.resource = IF waits THEN event.resource ELSE ""]

\* The completion of incomplete events at the head of applyEventLocked.
normalizeEvent(event) ==
  LET stated == IF event.kind = "goroutine.state"
                THEN [event EXCEPT !.state = FirstOf(@, "WAITING")]
                ELSE event
  IN  IF isWaitState(stated.state)
      THEN [stated EXCEPT !.reason = FirstOf(@, "unknown")]
      ELSE stated

\* The goroutine an event leaves behind: Apply and the lifecycle fields
\* that applyEventLocked sets after it.
NextGoroutine(current, event) ==
  LET next == Apply(current, event)
  IN  [next EXCEPT
         !.parent  = IF event.kind = "goroutine.create" /\ @ = NoID
                     THEN event.parent ELSE @,
         !.diedNS  = IF next.state = "DONE" /\ @ = 0 THEN event.ts ELSE @,
         !.isAlive = next.state # "DONE"]

\* The goroutine a snapshot leaves behind; the history is the caller's part.
WithStack(current, snapshot) ==
  LET seen == IF current.known THEN current
              ELSE [current EXCEPT !.known = TRUE, !.isAlive = TRUE,
                                   !.createdAt = snapshot.ts]
  IN  [seen EXCEPT
         !.lastSeenAt = IF snapshot.ts > @ THEN snapshot.ts ELSE @,
         !.lastStack  = snapshot.frames]
=============================================================================
