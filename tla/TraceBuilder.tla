---------------------------- MODULE TraceBuilder ----------------------------
(***************************************************************************)
(* From runtime-trace transitions to the engine's events                   *)
(* (internal/tracebridge).  The bridge exists twice: streamBuilder emits    *)
(* calls to the engine as it reads (stream.go), xBuilder fills a capture    *)
(* that is filtered at the end (xtrace.go).  Pure operators: LiveRun.tla    *)
(* runs the first and compares it with the second.                          *)
(***************************************************************************)
EXTENDS GoroutineState, Sequences, FiniteSets, Selection

CONSTANTS
  UserFrames,  \* the stacks for which hasUserFrame holds
  Main         \* goroutine 1, kept whatever its stacks

ASSUME TraceAssumption ==
  /\ UserFrames \subseteq Frames
  /\ Main \in Goroutine
  /\ {"syscall", "chan_recv", "chan_send", "select", "mutex_lock", "sync_cond",
      "sleep", "gc_assist"} \subseteq Reason

GoStates == {"NotExist", "Undetermined", "Running", "Runnable", "Waiting", "Syscall"}

\* running is the goroutine that was running: the creator, on a creation.
Transition ==
  [gid: Goroutine, from: GoStates, to: GoStates, ts: Nat, onP: BOOLEAN,
   running: Goroutine \cup {NoID}, reason: STRING, stack: Frames \cup {NoFrames}]

mapWaitingReason(reason) ==
  CASE reason = "chan receive"      -> <<"BLOCKED", "chan_recv">>
    [] reason = "chan send"         -> <<"BLOCKED", "chan_send">>
    [] reason = "select"            -> <<"BLOCKED", "select">>
    [] reason = "sync"              -> <<"BLOCKED", "mutex_lock">>
    [] reason = "sync.(*Cond).Wait" -> <<"WAITING", "sync_cond">>
    [] reason = "sleep"             -> <<"WAITING", "sleep">>
    [] reason = "GC"                -> <<"WAITING", "gc_assist">>
    [] OTHER                        -> <<"WAITING", "unknown">>

xMapState(to, reason) ==
  CASE to = "Running"  -> <<"RUNNING", "">>
    [] to = "Runnable" -> <<"RUNNABLE", "">>
    [] to = "Syscall"  -> <<"SYSCALL", "syscall">>
    [] to = "Waiting"  -> mapWaitingReason(reason)
    [] OTHER           -> <<"WAITING", "unknown">>

-----------------------------------------------------------------------------
(* What both builders keep per goroutine.  A slot is the start of its current *)
(* run on a processor, 0 when it has none.                                    *)

NewBuilder ==
  [kept |-> {}, parents |-> [g \in Goroutine |-> NoID],
   slots |-> [g \in Goroutine |-> 0], raw |-> {}]

Appears(t) == t.from \in {"NotExist", "Undetermined"}

Keeps(b, t) == t.gid \in b.kept \/ t.stack \in UserFrames \/ t.gid = Main

\* The run on a processor that the transition ends, as a set of at most one.
EndedRun(b, t) ==
  IF t.from = "Running" /\ b.slots[t.gid] # 0 /\ t.ts > b.slots[t.gid]
  THEN {[gid |-> t.gid, start |-> b.slots[t.gid], end |-> t.ts]}
  ELSE {}

\* The maps after a transition; `held` are the ended runs left for the end.
Noted(b, t, held) ==
  [kept    |-> IF Keeps(b, t) THEN b.kept \cup {t.gid} ELSE b.kept,
   parents |-> IF Appears(t) /\ t.running \notin {NoID, t.gid}
               THEN [b.parents EXCEPT ![t.gid] = t.running] ELSE b.parents,
   slots   |-> [b.slots EXCEPT
                  ![t.gid] = IF t.to = "Running" /\ t.onP THEN t.ts
                             ELSE IF t.from = "Running" THEN 0 ELSE @],
   raw     |-> b.raw \cup held]

EventOf(b, t) ==
  LET mapped == xMapState(t.to, t.reason)
      ended  == t.to = "NotExist"
      kind   == IF ended THEN "goroutine.end"
                ELSE IF Appears(t) THEN "goroutine.create" ELSE "goroutine.state"
  IN  [kind |-> kind, gid |-> t.gid, ts |-> t.ts,
       state |-> IF ended THEN "" ELSE mapped[1],
       reason |-> IF ended THEN "" ELSE mapped[2], resource |-> "",
       parent |-> IF kind = "goroutine.create" THEN b.parents[t.gid] ELSE NoID,
       label |-> NoLabel]

StackOf(t) == [gid |-> t.gid, ts |-> t.ts, frames |-> t.stack]
HasStack(t) == t.to # "NotExist" /\ t.stack # NoFrames

KeptParents(b) == [g \in Goroutine |-> IF g \in b.kept THEN b.parents[g] ELSE NoID]
KeptRuns(b) == {run \in b.raw : run.gid \in b.kept}

-----------------------------------------------------------------------------
(* streamBuilder.appendEvent: the next builder, and the calls it makes *)

\* Mutant: a run that is emitted at once is held for the end as well.
StreamedTwice(b, t) == Noted(b, t, EndedRun(b, t))

\* A goroutine known as user code gets its run at once, any other at the end.
Streamed(b, t) == Noted(b, t, IF t.gid \in b.kept THEN {} ELSE EndedRun(b, t))

\* Mutant: the stack goes before the event it comes with.
StreamCallsStackFirst(b, t) ==
  LET next == Streamed(b, t)
      When(condition, call) == IF condition THEN <<call>> ELSE <<>>
  IN  When(t.gid \in b.kept /\ EndedRun(b, t) # {}, [op |-> "run"])
        \o When(Keeps(b, t) /\ HasStack(t), [op |-> "stack", stack |-> StackOf(t)])
        \o When(Keeps(b, t), [op |-> "event", event |-> EventOf(next, t)])

StreamCalls(b, t) ==
  LET next == Streamed(b, t)
      When(condition, call) == IF condition THEN <<call>> ELSE <<>>
  IN  When(t.gid \in b.kept /\ EndedRun(b, t) # {}, [op |-> "run"])
        \o When(Keeps(b, t), [op |-> "event", event |-> EventOf(next, t)])
        \o When(Keeps(b, t) /\ HasStack(t), [op |-> "stack", stack |-> StackOf(t)])

-----------------------------------------------------------------------------
(* The batch builder *)

appendXEvent(acc, t) ==
  LET next == Noted(acc.b, t, EndedRun(acc.b, t))
  IN  [b |-> next,
       events |-> IF Keeps(acc.b, t)
                  THEN Append(acc.events, EventOf(next, t)) ELSE acc.events,
       stacks |-> IF Keeps(acc.b, t) /\ HasStack(t)
                  THEN Append(acc.stacks, StackOf(t)) ELSE acc.stacks]

\* The goroutines whose latest stack (the first of those with its time) is user
\* code, and the main one if it has a stack: only they stay, unless none does.
Relevant(stacks) ==
  LET Of(g)     == Where(stacks, LAMBDA s : s.gid = g)
      Latest(g) == FoldLeft(LAMBDA s, r : IF r.ts > s.ts THEN r ELSE s,
                            Head(Of(g)), Of(g))
  IN  {g \in Goroutine : /\ Of(g) # <<>>
                         /\ g = Main \/ Latest(g).frames \in UserFrames}

filterCapture(capture) ==
  LET keep == Relevant(capture.stacks)
  IN  IF keep = {} THEN capture
      ELSE [capture EXCEPT
              !.events = Where(@, LAMBDA e : e.gid \in keep),
              !.stacks = Where(@, LAMBDA s : s.gid \in keep)]

\* buildCaptureFromReader and the sidecar's labels; parents and runs are those of
\* the goroutines the builder kept, which the filter may have dropped since.
BuildCapture(trace, overrides) ==
  LET built    == FoldLeft(appendXEvent,
                           [b |-> NewBuilder, events |-> <<>>, stacks |-> <<>>], trace)
      filtered == filterCapture([events |-> built.events, stacks |-> built.stacks])
  IN  [events |-> filtered.events, stacks |-> filtered.stacks,
       parents |-> KeptParents(built.b), runs |-> KeptRuns(built.b),
       labels |-> overrides]
=============================================================================
