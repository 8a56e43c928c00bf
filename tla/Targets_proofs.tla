---------------------------- MODULE Targets_proofs ----------------------------
(***************************************************************************)
(* What Targets promises for any targets, dumps, uploads and inputs.       *)
(***************************************************************************)
EXTENDS Targets, GoroutineState_proofs, Sums_proofs, SequenceTheorems, TLAPS

\* DefaultRegistered, with the targets' type: the zero ID registers nothing.
DefaultInv == targets \subseteq Target /\ DefaultRegistered

LEMMA DefaultInit == Init => DefaultInv
BY DEF Init, DefaultInv, DefaultRegistered

\* Neither a registration nor a removal leaves a default that is gone.
LEMMA DefaultStep == DefaultInv /\ [Next]_vars => DefaultInv'
<1>. SUFFICES ASSUME DefaultInv, [Next]_vars PROVE DefaultInv'
  OBVIOUS
<1>. USE TargetAssumption DEF DefaultInv, DefaultRegistered
<1>1. ASSUME NEW t \in Target, AddRegister(t) PROVE DefaultInv'
  BY <1>1 DEF AddRegister
<1>2. ASSUME NEW t \in Target, RemoveTarget(t) PROVE DefaultInv'
  <2>1. CASE defaultID # t
    BY <1>2, <2>1 DEF RemoveTarget, DefaultsWithout
  <2>2. CASE defaultID = t /\ targets = {t}
    BY <1>2, <2>2 DEF RemoveTarget, DefaultsWithout
  <2>3. CASE defaultID = t /\ targets # {t}
    BY <1>2, <2>3 DEF RemoveTarget, DefaultsWithout
  <2>. QED
    BY <2>1, <2>2, <2>3
<1>3. ASSUME NEW t \in Target, AddStart(t) PROVE DefaultInv'
  BY <1>3 DEF AddStart
<1>4. ASSUME NEW k \in Keys, Poll(k) PROVE DefaultInv'
  BY <1>4 DEF Poll, FetchDump, LoadDump, StopPoller, registryVars
<1>5. CASE VerifyFails \/ Interrupt \/ Exit
  BY <1>5 DEF VerifyFails, Interrupt, Exit, registryVars
<1>6. CASE \/ ReadVersion \/ ReadBody \/ UploadLoad
           \/ \E id \in Asked, events \in Uploads : UploadStart(id, events)
  BY <1>6 DEF ReadVersion, ReadBody, UploadLoad, UploadStart, registryVars
<1>7. CASE UNCHANGED vars
  BY <1>7 DEF vars, registryVars
<1>. QED
  BY <1>1, <1>2, <1>3, <1>4, <1>5, <1>6, <1>7 DEF Next

\* Add registers long after it began and Remove picks an arbitrary successor, but
\* at every moment requests without a target have one when anything is registered.
THEOREM DefaultIsRegistered == Spec => []DefaultRegistered
<1>1. DefaultInv => DefaultRegistered
  BY DEF DefaultInv
<1>. QED
  BY <1>1, DefaultInit, DefaultStep, PTL DEF Spec

-----------------------------------------------------------------------------
(* LoadCapture's two loops, as the recursions of Loaded *)

TouchStep(f, base, events, i) == IF i = 0 THEN base ELSE Touch(f[i - 1], events[i])

Touches(f, base, events) ==
  f = [i \in 0..Len(events) |-> TouchStep(f, base, events, i)]

\* The goroutines after the events.
TouchAll(base, events) == (CHOOSE f : Touches(f, base, events))[Len(events)]

SampleStep(f, base, stacks, i) == IF i = 0 THEN base ELSE Sample(f[i - 1], stacks[i])

Samples(f, base, stacks) ==
  f = [i \in 0..Len(stacks) |-> SampleStep(f, base, stacks, i)]

\* The goroutines after the stacks.
SampleAll(base, stacks) == (CHOOSE f : Samples(f, base, stacks))[Len(stacks)]

LEMMA LoadedIs ==
  ASSUME NEW e, NEW session, NEW events, NEW stacks
  PROVE  Loaded(e, session, events, stacks) =
           [session    |-> session,
            goroutines |-> SampleAll(TouchAll(NewEngine.goroutines, events), stacks),
            version    |-> LoadedVersion(e.version, events, stacks)]
BY DEF Loaded, TouchAll, Touches, TouchStep, SampleAll, Samples, SampleStep

LEMMA TouchesExists ==
  ASSUME NEW base, NEW events, Len(events) \in Nat
  PROVE  \E f : Touches(f, base, events)
<1>. DEFINE Upto(f, n) == f = [i \in 0..n |-> TouchStep(f, base, events, i)]
            X == {n \in Nat : \E f : Upto(f, n)}
<1>1. 0 \in X
  <2>1. Upto([i \in 0..0 |-> base], 0)
    BY DEF TouchStep
  <2>. HIDE DEF Upto
  <2>. QED
    BY <2>1
<1>2. ASSUME NEW n \in Nat, n \in X PROVE n + 1 \in X
  <2>1. PICK f : Upto(f, n)
    BY <1>2
  <2>. DEFINE h == [i \in 0..(n + 1) |-> TouchStep(f, base, events, i)]
  <2>2. ASSUME NEW i \in 0..n PROVE h[i] = f[i]
    <3>1. f[i] = TouchStep(f, base, events, i)
      BY <2>1
    <3>. QED
      BY <3>1
  <2>3. ASSUME NEW i \in 0..(n + 1)
        PROVE  TouchStep(h, base, events, i) = TouchStep(f, base, events, i)
    <3>1. i = 0 \/ i - 1 \in 0..n
      OBVIOUS
    <3>. HIDE DEF h
    <3>. QED
      BY <2>2, <3>1 DEF TouchStep
  <2>4. h = [i \in 0..(n + 1) |-> TouchStep(h, base, events, i)]
    <3>1. h = [i \in 0..(n + 1) |-> TouchStep(f, base, events, i)]
      OBVIOUS
    <3>. HIDE DEF h
    <3>. QED
      BY <2>3, <3>1
  <2>. HIDE DEF h
  <2>. QED
    BY <2>4
<1>. HIDE DEF X
<1>3. \A n \in Nat : n \in X
  BY <1>1, <1>2, NatSetInduction
<1>. QED
  BY <1>3 DEF X, Touches

\* The loop has one result only.
LEMMA TouchesUnique ==
  ASSUME NEW base, NEW events, Len(events) \in Nat, NEW f, NEW h,
         Touches(f, base, events), Touches(h, base, events)
  PROVE  f[Len(events)] = h[Len(events)]
<1>. DEFINE X == {n \in Nat : n <= Len(events) => f[n] = h[n]}
<1>1. \A i \in 0..Len(events) : /\ f[i] = TouchStep(f, base, events, i)
                                /\ h[i] = TouchStep(h, base, events, i)
  BY DEF Touches
<1>2. 0 \in X
  BY <1>1 DEF TouchStep
<1>3. ASSUME NEW n \in Nat, n \in X PROVE n + 1 \in X
  <2>. SUFFICES ASSUME n + 1 <= Len(events) PROVE f[n + 1] = h[n + 1]
    OBVIOUS
  <2>1. f[n] = h[n] /\ n + 1 \in 0..Len(events) /\ n + 1 # 0 /\ (n + 1) - 1 = n
    BY <1>3
  <2>. QED
    BY <1>1, <2>1 DEF TouchStep
<1>. HIDE DEF X
<1>4. \A n \in Nat : n \in X
  BY <1>2, <1>3, NatSetInduction
<1>. QED
  BY <1>4 DEF X

LEMMA TouchAllIs ==
  ASSUME NEW base, NEW events, Len(events) \in Nat, NEW f, Touches(f, base, events)
  PROVE  TouchAll(base, events) = f[Len(events)]
<1>1. Touches((CHOOSE h : Touches(h, base, events)), base, events)
  OBVIOUS
<1>. QED
  BY <1>1, TouchesUnique DEF TouchAll

LEMMA TouchAllNone ==
  ASSUME NEW base
  PROVE  TouchAll(base, <<>>) = base
<1>1. Len(<<>>) = 0
  OBVIOUS
<1>2. PICK f : Touches(f, base, <<>>)
  BY <1>1, TouchesExists
<1>3. f[0] = base
  BY <1>1, <1>2 DEF Touches, TouchStep
<1>. QED
  BY <1>1, <1>2, <1>3, TouchAllIs

LEMMA TouchAllOne ==
  ASSUME NEW base, NEW S, NEW e \in S
  PROVE  TouchAll(base, <<e>>) = Touch(base, e)
<1>1. Len(<<e>>) = 1 /\ <<e>>[1] = e
  OBVIOUS
<1>2. PICK f : Touches(f, base, <<e>>)
  BY <1>1, TouchesExists
<1>3. \A i \in 0..1 : f[i] = TouchStep(f, base, <<e>>, i)
  BY <1>1, <1>2 DEF Touches
<1>4. f[0] = base /\ f[1] = Touch(f[0], e)
  BY <1>1, <1>3 DEF TouchStep
<1>. QED
  BY <1>1, <1>2, <1>4, TouchAllIs

\* A history that goes on.
LEMMA TouchAllConcat ==
  ASSUME NEW base, NEW S, NEW a \in Seq(S), NEW b \in Seq(S)
  PROVE  TouchAll(base, a \o b) = TouchAll(TouchAll(base, a), b)
<1>. DEFINE n == Len(a)
            m == Len(b)
            c == a \o b
            mid == TouchAll(base, a)
<1>1. n \in Nat /\ m \in Nat /\ Len(c) = n + m
  OBVIOUS
<1>2. /\ \A i \in 1..n : c[i] = a[i]
      /\ \A i \in 1..(n + m) : i > n => c[i] = b[i - n]
  BY ConcatProperties
<1>3. PICK f : Touches(f, base, a)
  BY <1>1, TouchesExists
<1>4. PICK h : Touches(h, mid, b)
  BY <1>1, TouchesExists
<1>5. mid = f[n] /\ TouchAll(mid, b) = h[m]
  BY <1>1, <1>3, <1>4, TouchAllIs
<1>6. /\ \A i \in 0..n : f[i] = TouchStep(f, base, a, i)
      /\ \A i \in 0..m : h[i] = TouchStep(h, mid, b, i)
  BY <1>3, <1>4 DEF Touches
<1>. HIDE DEF n, m, c, mid
<1>. DEFINE both == [i \in 0..(n + m) |-> IF i <= n THEN f[i] ELSE h[i - n]]
<1>7. h[0] = f[n]
  BY <1>1, <1>5, <1>6 DEF TouchStep
<1>8. ASSUME NEW i \in 0..(n + m)
      PROVE  both[i] = TouchStep(both, base, c, i)
  <2>1. CASE i = 0
    <3>1. both[i] = f[0] /\ f[0] = base
      BY <1>1, <1>6, <2>1 DEF TouchStep
    <3>. QED
      BY <2>1, <3>1 DEF TouchStep
  <2>2. CASE i # 0 /\ i <= n
    <3>1. both[i] = f[i] /\ both[i - 1] = f[i - 1] /\ c[i] = a[i]
      BY <1>1, <1>2, <2>2
    <3>2. f[i] = Touch(f[i - 1], a[i])
      BY <1>1, <1>6, <2>2 DEF TouchStep
    <3>. HIDE DEF both
    <3>. QED
      BY <2>2, <3>1, <3>2 DEF TouchStep
  <2>3. CASE i # 0 /\ i > n
    <3>1. /\ both[i] = h[i - n] /\ c[i] = b[i - n]
          /\ both[i - 1] = h[(i - n) - 1]
      <4>1. i - 1 \in 0..(n + m) /\ ~ (i <= n) /\ (i - 1 <= n <=> i - n = 1)
            /\ (i - 1) - n = (i - n) - 1
        BY <1>1, <2>3
      <4>2. CASE i - n = 1
        <5>1. both[i - 1] = f[i - 1] /\ i - 1 = n /\ (i - n) - 1 = 0
          BY <1>1, <4>1, <4>2
        <5>. QED
          BY <1>2, <1>7, <2>3, <4>1, <5>1
      <4>3. CASE i - n # 1
        <5>1. both[i - 1] = h[(i - 1) - n]
          BY <4>1, <4>3
        <5>. QED
          BY <1>2, <2>3, <4>1, <5>1
      <4>. QED
        BY <4>2, <4>3
    <3>2. i - n \in 0..m /\ i - n # 0
      BY <1>1, <2>3
    <3>3. h[i - n] = Touch(h[(i - n) - 1], b[i - n])
      BY <1>6, <3>2 DEF TouchStep
    <3>. HIDE DEF both
    <3>. QED
      BY <2>3, <3>1, <3>3 DEF TouchStep
  <2>. QED
    BY <1>1, <2>1, <2>2, <2>3
<1>9. Touches(both, base, c)
  <2>1. both = [i \in 0..(n + m) |-> both[i]]
    OBVIOUS
  <2>. HIDE DEF both
  <2>2. both = [i \in 0..(n + m) |-> TouchStep(both, base, c, i)]
    BY <1>8, <2>1
  <2>. QED
    BY <1>1, <2>2 DEF Touches
<1>10. TouchAll(base, c) = both[n + m]
  <2>. HIDE DEF both
  <2>. QED
    BY <1>1, <1>9, TouchAllIs
<1>11. both[n + m] = h[m]
  <2>1. CASE m = 0
    BY <1>1, <1>7, <2>1
  <2>2. CASE m # 0
    BY <1>1, <2>2
  <2>. QED
    BY <2>1, <2>2
<1>. QED
  BY <1>5, <1>10, <1>11 DEF c, mid

-----------------------------------------------------------------------------
(* What a poll's events make of one goroutine *)

CreateEvent(g, block, t) ==
  [Ev("goroutine.create", g, t) EXCEPT !.parent = block.parent]

StateEvent(g, block, t) ==
  [Ev("goroutine.state", g, t) EXCEPT
     !.state = block.state, !.reason = block.reason, !.resource = block.resource]

After(r, event) == NextGoroutine(r, normalizeEvent(event))

IsBlock(block) ==
  block \in Block /\ (block.reason = "" <=> ~ isWaitState(block.state))

LEMMA EventTypes ==
  ASSUME NEW g \in Goroutine, NEW block, IsBlock(block), NEW t \in Nat
  PROVE  /\ CreateEvent(g, block, t) \in Event
         /\ StateEvent(g, block, t) \in Event
         /\ Ev("goroutine.end", g, t) \in Event
         /\ CreateEvent(g, block, t).gid = g
         /\ StateEvent(g, block, t).gid = g
         /\ Ev("goroutine.end", g, t).gid = g
BY DEF CreateEvent, StateEvent, Ev, Event, EventKinds, IsBlock, Block, GoroutineStates

LEMMA EndEventType ==
  ASSUME NEW g \in Goroutine, NEW t \in Nat
  PROVE  /\ Ev("goroutine.end", g, t) \in Event
         /\ Ev("goroutine.end", g, t).gid = g
BY DEF Ev, Event, EventKinds

LEMMA AfterType ==
  ASSUME NEW r \in GoroutineRecord, NEW e \in Event
  PROVE  After(r, e) \in GoroutineRecord
BY NormalizeType, NextGoroutineType DEF After

LEMMA AfterKnown ==
  ASSUME NEW r \in GoroutineRecord, NEW e \in Event
  PROVE  /\ After(r, e).known = TRUE
         /\ After(r, e).lastStack = r.lastStack
<1>. DEFINE n == normalizeEvent(e)
<1>1. Apply(r, n).known = TRUE /\ Apply(r, n).lastStack = r.lastStack
  <2>. HIDE DEF n
  <2>1. CASE continuingWait(r, n)
    BY <2>1 DEF Apply, GoroutineRecord
  <2>2. CASE ~ continuingWait(r, n)
    BY <2>2 DEF Apply, GoroutineRecord
  <2>. QED
    BY <2>1, <2>2
<1>2. Apply(r, n) \in GoroutineRecord
  BY NormalizeType, ApplyType
<1>. HIDE DEF n
<1>3. /\ NextGoroutine(r, n).known = Apply(r, n).known
      /\ NextGoroutine(r, n).lastStack = Apply(r, n).lastStack
  <2>. DEFINE q == Apply(r, n)
  <2>. HIDE DEF q
  <2>1. q \in GoroutineRecord
    BY <1>2 DEF q
  <2>2. NextGoroutine(r, n) =
          [q EXCEPT
             !.parent  = IF n.kind = "goroutine.create" /\ @ = NoID
                         THEN n.parent ELSE @,
             !.diedNS  = IF q.state = "DONE" /\ @ = 0 THEN n.ts ELSE @,
             !.isAlive = q.state # "DONE"]
    BY DEF NextGoroutine, q
  <2>3. NextGoroutine(r, n).known = q.known /\ NextGoroutine(r, n).lastStack = q.lastStack
    BY <2>1, <2>2 DEF GoroutineRecord
  <2>. QED
    BY <2>3 DEF q
<1>. QED
  BY <1>1, <1>3 DEF After, n

\* The end of a goroutine.
LEMMA EndIs ==
  ASSUME NEW r \in GoroutineRecord, NEW g \in Goroutine, NEW t \in Nat
  PROVE  /\ After(r, Ev("goroutine.end", g, t)).state = "DONE"
         /\ After(r, Ev("goroutine.end", g, t)).isAlive = FALSE
<1>. DEFINE e == Ev("goroutine.end", g, t)
<1>1. e \in Event /\ e.kind = "goroutine.end" /\ e.state = ""
  BY DEF Ev, Event, EventKinds
<1>. HIDE DEF e
<1>2. normalizeEvent(e) = e
  BY <1>1 DEF normalizeEvent, isWaitState
<1>3. resolveNextState(r, e) = "DONE" /\ ~ continuingWait(r, e)
  BY <1>1 DEF resolveNextState, continuingWait, isWaitState
<1>4. Apply(r, e).state = "DONE" /\ Apply(r, e) \in GoroutineRecord
  <2>1. Apply(r, e) \in GoroutineRecord
    BY <1>1, ApplyType
  <2>2. Apply(r, e).state = "DONE"
    BY <1>3 DEF Apply, GoroutineRecord
  <2>. QED
    BY <2>1, <2>2
<1>5. NextGoroutine(r, e).state = "DONE" /\ NextGoroutine(r, e).isAlive = FALSE
  BY <1>4 DEF NextGoroutine, GoroutineRecord
<1>. QED
  BY <1>2, <1>5 DEF After, e

LEMMA CreateIs ==
  ASSUME NEW r \in GoroutineRecord, NEW g \in Goroutine, NEW block, IsBlock(block),
         NEW t \in Nat
  PROVE  After(r, CreateEvent(g, block, t)).state = "RUNNABLE"
<1>. DEFINE e == CreateEvent(g, block, t)
<1>1. e \in Event /\ e.kind = "goroutine.create" /\ e.state = ""
  <2>1. e \in Event
    BY EventTypes
  <2>. QED
    BY <2>1 DEF CreateEvent, Ev
<1>. HIDE DEF e
<1>2. normalizeEvent(e) = e
  BY <1>1 DEF normalizeEvent, isWaitState
<1>3. resolveNextState(r, e) = "RUNNABLE" /\ ~ continuingWait(r, e)
  BY <1>1 DEF resolveNextState, continuingWait, isWaitState, FirstOf
<1>4. Apply(r, e).state = "RUNNABLE" /\ Apply(r, e) \in GoroutineRecord
  <2>1. Apply(r, e) \in GoroutineRecord
    BY <1>1, ApplyType
  <2>2. Apply(r, e).state = "RUNNABLE"
    BY <1>3 DEF Apply, GoroutineRecord
  <2>. QED
    BY <2>1, <2>2
<1>5. NextGoroutine(r, e).state = "RUNNABLE"
  BY <1>4 DEF NextGoroutine, GoroutineRecord
<1>. QED
  BY <1>2, <1>5 DEF After, e

\* The wait that the block of a dump repeats: the state machine's continuingWait.
Repeats(r, block) ==
  /\ isWaitState(block.state)
  /\ r.state = block.state /\ r.reason = block.reason
  /\ Given(block.resource, r.resource)

\* The state a block gives: it is the block's, whatever came before, and so is the
\* wait, unless it is repeated.
Becomes(q, r, block, t) ==
  /\ q.state = block.state /\ q.reason = block.reason
  /\ Repeats(r, block) =>
       q.resource = r.resource /\ q.waitNS = r.waitNS + elapsedNS(r.lastSeenAt, t)
  /\ ~ Repeats(r, block) => q.waitNS = 0
  /\ ~ Repeats(r, block) /\ isWaitState(block.state) => q.resource = block.resource
  /\ ~ isWaitState(block.state) => q.resource = ""
  /\ q.lastSeenAt = t
  /\ q.isAlive = (block.state # "DONE")

LEMMA StateIs ==
  ASSUME NEW r \in GoroutineRecord, NEW g \in Goroutine, NEW block, IsBlock(block),
         NEW t \in Nat \ {0}
  PROVE  Becomes(After(r, StateEvent(g, block, t)), r, block, t)
<1>. DEFINE e == StateEvent(g, block, t)
<1>1. /\ e \in Event /\ e.kind = "goroutine.state" /\ e.ts = t
      /\ e.state = block.state /\ e.reason = block.reason
      /\ e.resource = block.resource
  <2>1. e \in Event
    BY EventTypes
  <2>. QED
    BY <2>1 DEF StateEvent, Ev, IsBlock, Block
<1>2. block.state \in GoroutineStates /\ block.state # ""
      /\ (block.reason = "" <=> ~ isWaitState(block.state))
  BY DEF IsBlock, Block, GoroutineStates
<1>. HIDE DEF e
<1>3. normalizeEvent(e) = e
  <2>1. [e EXCEPT !.state = FirstOf(@, "WAITING")] = e
    BY <1>1, <1>2 DEF FirstOf, Event
  <2>2. isWaitState(e.state) => [e EXCEPT !.reason = FirstOf(@, "unknown")] = e
    BY <1>1, <1>2 DEF FirstOf, Event
  <2>. QED
    BY <1>1, <2>1, <2>2 DEF normalizeEvent
<1>4. resolveNextState(r, e) = block.state
  BY <1>1, <1>2 DEF resolveNextState, FirstOf
<1>5. continuingWait(r, e) <=> Repeats(r, block)
  BY <1>1, <1>2, <1>4 DEF continuingWait, Repeats, Given
<1>. DEFINE a == Apply(r, e)
<1>6. a \in GoroutineRecord
  BY <1>1, ApplyType
<1>7. a.lastSeenAt = t
  <2>1. CASE continuingWait(r, e)
    BY <1>1, <2>1 DEF Apply, GoroutineRecord
  <2>2. CASE ~ continuingWait(r, e)
    BY <1>1, <2>2 DEF Apply, GoroutineRecord
  <2>. QED
    BY <2>1, <2>2
<1>8. /\ a.state = block.state
      /\ a.reason = block.reason
      /\ Repeats(r, block) => /\ a.resource = r.resource
                              /\ a.waitNS = r.waitNS + elapsedNS(r.lastSeenAt, t)
      /\ ~ Repeats(r, block) => a.waitNS = 0
      /\ ~ Repeats(r, block) /\ isWaitState(block.state) => a.resource = block.resource
      /\ ~ isWaitState(block.state) => a.resource = ""
  <2>1. CASE Repeats(r, block)
    <3>1. /\ a.state = r.state /\ a.reason = r.reason /\ a.resource = r.resource
          /\ a.waitNS = r.waitNS + elapsedNS(r.lastSeenAt, e.ts)
      BY <1>5, <2>1 DEF Apply, GoroutineRecord
    <3>. HIDE DEF a
    <3>. QED
      BY <1>1, <2>1, <3>1 DEF Repeats
  <2>2. CASE ~ Repeats(r, block)
    <3>1. /\ a.state = block.state /\ a.waitNS = 0
          /\ a.reason = IF isWaitState(block.state)
                        THEN FirstOf(e.reason, "unknown") ELSE ""
          /\ a.resource = IF isWaitState(block.state) THEN e.resource ELSE ""
      BY <1>4, <1>5, <2>2 DEF Apply, GoroutineRecord
    <3>. HIDE DEF a
    <3>. QED
      BY <1>1, <1>2, <2>2, <3>1 DEF FirstOf
  <2>. QED
    BY <2>1, <2>2
<1>. HIDE DEF a
<1>9. NextGoroutine(r, e) =
        [a EXCEPT
           !.parent  = IF e.kind = "goroutine.create" /\ @ = NoID
                       THEN e.parent ELSE @,
           !.diedNS  = IF a.state = "DONE" /\ @ = 0 THEN e.ts ELSE @,
           !.isAlive = a.state # "DONE"]
  BY DEF NextGoroutine, a
<1>10. LET q == NextGoroutine(r, e)
       IN  /\ q.state = a.state /\ q.reason = a.reason /\ q.resource = a.resource
           /\ q.waitNS = a.waitNS /\ q.lastSeenAt = a.lastSeenAt
           /\ q.isAlive = (a.state # "DONE")
  BY <1>6, <1>9 DEF GoroutineRecord
<1>. QED
  BY <1>3, <1>7, <1>8, <1>10 DEF After, e, Becomes

-----------------------------------------------------------------------------
(* What a poll's events make of all goroutines *)

GoroutineMap == [Goroutine -> GoroutineRecord]

LEMMA TouchIs ==
  ASSUME NEW gs \in GoroutineMap, NEW e \in Event
  PROVE  /\ Touch(gs, e) \in GoroutineMap
         /\ \A g \in Goroutine :
              Touch(gs, e)[g] = IF e.gid = g THEN After(gs[g], e) ELSE gs[g]
<1>1. Touch(gs, e) = [gs EXCEPT ![e.gid] = After(gs[e.gid], e)]
  BY DEF Touch, After
<1>2. e.gid \in Goroutine => After(gs[e.gid], e) \in GoroutineRecord
  BY AfterType DEF GoroutineMap
<1>. QED
  BY <1>1, <1>2 DEF GoroutineMap

LEMMA TouchAllType ==
  ASSUME NEW gs \in GoroutineMap, NEW events \in Seq(Event)
  PROVE  TouchAll(gs, events) \in GoroutineMap
<1>1. Len(events) \in Nat /\ \A i \in 1..Len(events) : events[i] \in Event
  OBVIOUS
<1>2. PICK f : Touches(f, gs, events)
  BY <1>1, TouchesExists
<1>3. \A i \in 0..Len(events) : f[i] = TouchStep(f, gs, events, i)
  BY <1>2 DEF Touches
<1>. DEFINE X == {n \in Nat : n <= Len(events) => f[n] \in GoroutineMap}
<1>4. 0 \in X
  BY <1>1, <1>3 DEF TouchStep
<1>5. ASSUME NEW n \in Nat, n \in X PROVE n + 1 \in X
  <2>. SUFFICES ASSUME n + 1 <= Len(events) PROVE f[n + 1] \in GoroutineMap
    OBVIOUS
  <2>1. /\ n + 1 \in 1..Len(events) /\ n + 1 \in 0..Len(events)
        /\ n + 1 # 0 /\ (n + 1) - 1 = n /\ f[n] \in GoroutineMap
    BY <1>1, <1>5
  <2>2. f[n + 1] = Touch(f[n], events[n + 1])
    BY <1>3, <2>1 DEF TouchStep
  <2>. QED
    BY <1>1, <2>1, <2>2, TouchIs
<1>. HIDE DEF X
<1>6. \A n \in Nat : n \in X
  BY <1>4, <1>5, NatSetInduction
<1>7. f[Len(events)] \in GoroutineMap
  BY <1>1, <1>6 DEF X
<1>. QED
  BY <1>1, <1>2, <1>7, TouchAllIs

\* What a dump makes of a goroutine that it lists.
Listed(r, g, block, known, t) ==
  After(IF g \in known THEN r ELSE After(r, CreateEvent(g, block, t)),
        StateEvent(g, block, t))

LEMMA BlockEventsShow ==
  ASSUME NEW gs \in GoroutineMap, NEW g \in Goroutine, NEW block, IsBlock(block),
         NEW t \in Nat, NEW known
  PROVE  /\ BlockEvents(g, block, known, t) \in Seq(Event)
         /\ TouchAll(gs, BlockEvents(g, block, known, t)) \in GoroutineMap
         /\ \A h \in Goroutine :
              TouchAll(gs, BlockEvents(g, block, known, t))[h] =
                IF h = g THEN Listed(gs[g], g, block, known, t) ELSE gs[h]
<1>. DEFINE c == CreateEvent(g, block, t)
            s == StateEvent(g, block, t)
<1>1. c \in Event /\ s \in Event /\ c.gid = g /\ s.gid = g
  BY EventTypes
<1>2. BlockEvents(g, block, known, t) = (IF g \in known THEN <<>> ELSE <<c>>) \o <<s>>
  BY DEF BlockEvents, CreateEvent, StateEvent
<1>. HIDE DEF c, s
<1>3. <<c>> \in Seq(Event) /\ <<s>> \in Seq(Event) /\ <<>> \in Seq(Event)
  BY <1>1
<1>4. BlockEvents(g, block, known, t) \in Seq(Event)
  BY <1>2, <1>3, ConcatProperties
<1>5. TouchAll(gs, BlockEvents(g, block, known, t)) \in GoroutineMap
  BY <1>4, TouchAllType
<1>6. CASE g \in known
  <2>1. BlockEvents(g, block, known, t) = <<s>>
    BY <1>2, <1>3, <1>6, ConcatEmptySeq
  <2>2. TouchAll(gs, <<s>>) = Touch(gs, s)
    BY <1>1, TouchAllOne
  <2>3. Listed(gs[g], g, block, known, t) = After(gs[g], s)
    BY <1>6 DEF Listed, s
  <2>4. \A h \in Goroutine : Touch(gs, s)[h] = IF s.gid = h THEN After(gs[h], s)
                                                ELSE gs[h]
    BY <1>1, TouchIs
  <2>. QED
    BY <1>1, <1>4, <1>5, <2>1, <2>2, <2>3, <2>4
<1>7. CASE g \notin known
  <2>1. BlockEvents(g, block, known, t) = <<c>> \o <<s>>
    BY <1>2, <1>7
  <2>. DEFINE mid == Touch(gs, c)
  <2>2. TouchAll(gs, <<c>>) = mid
    BY <1>1, TouchAllOne
  <2>3. TouchAll(mid, <<s>>) = Touch(mid, s)
    BY <1>1, TouchAllOne
  <2>4. TouchAll(gs, <<c>> \o <<s>>) = Touch(mid, s)
    <3>. DEFINE one == <<c>>
                two == <<s>>
    <3>1. one \in Seq(Event) /\ two \in Seq(Event)
      BY <1>3
    <3>2. TouchAll(gs, one) = mid /\ TouchAll(mid, two) = Touch(mid, s)
      BY <2>2, <2>3
    <3>. HIDE DEF one, two, mid
    <3>3. TouchAll(gs, one \o two) = TouchAll(TouchAll(gs, one), two)
      BY ONLY <3>1, TouchAllConcat
    <3>4. TouchAll(gs, one \o two) = Touch(mid, s)
      BY ONLY <3>2, <3>3, Zenon
    <3>. QED
      BY <3>4 DEF one, two
  <2>5. mid \in GoroutineMap
        /\ \A h \in Goroutine : mid[h] = IF c.gid = h THEN After(gs[h], c) ELSE gs[h]
    BY <1>1, TouchIs
  <2>. HIDE DEF mid
  <2>6. \A h \in Goroutine : Touch(mid, s)[h] = IF s.gid = h THEN After(mid[h], s)
                                                 ELSE mid[h]
    BY <1>1, <2>5, TouchIs
  <2>7. Listed(gs[g], g, block, known, t) = After(After(gs[g], c), s)
    BY <1>7 DEF Listed, c, s
  <2>. QED
    BY <1>1, <1>4, <1>5, <2>1, <2>4, <2>5, <2>6, <2>7
<1>. QED
  BY <1>6, <1>7

\* The goroutines of a dump in some order, and their events.
Orders(ids, dump) ==
  /\ ids \in Seq(DOMAIN dump)
  /\ \A i, j \in 1..Len(ids) : ids[i] = ids[j] => i = j
  /\ \A g \in DOMAIN dump : \E i \in 1..Len(ids) : ids[i] = g

AreBlocks(blocks, ids, dump, known, t) ==
  /\ blocks \in Seq(Seq(Event)) /\ Len(blocks) = Len(ids)
  /\ \A i \in 1..Len(ids) : blocks[i] = BlockEvents(ids[i], dump[ids[i]], known, t)

\* All the blocks, in whatever order they are listed.
LEMMA BlocksShow ==
  ASSUME NEW gs \in GoroutineMap, NEW dump, IsDump(dump), NEW t \in Nat, NEW known,
         NEW ids, Orders(ids, dump),
         NEW blocks, AreBlocks(blocks, ids, dump, known, t)
  PROVE  /\ FlattenSeq(blocks) \in Seq(Event)
         /\ \A g \in Goroutine :
              LET r == TouchAll(gs, FlattenSeq(blocks))[g]
              IN  /\ g \in DOMAIN dump => r = Listed(gs[g], g, dump[g], known, t)
                  /\ g \notin DOMAIN dump => r = gs[g]
<1>. DEFINE n == Len(ids)
<1>1. n \in Nat /\ blocks \in Seq(Seq(Event)) /\ Len(blocks) = n
      /\ \A i \in 1..n : blocks[i] = BlockEvents(ids[i], dump[ids[i]], known, t)
  BY DEF Orders, AreBlocks
<1>2. \A i \in 1..n : ids[i] \in DOMAIN dump
  BY DEF Orders
<1>3. \A g \in DOMAIN dump : g \in Goroutine /\ IsBlock(dump[g])
  BY DEF IsDump, IsBlock
<1>4. /\ \A i, j \in 1..n : ids[i] = ids[j] => i = j
      /\ \A g \in DOMAIN dump : \E i \in 1..n : ids[i] = g
  BY DEF Orders
<1>. HIDE DEF n
<1>0. gs \in GoroutineMap /\ t \in Nat
  OBVIOUS
<1>5. CASE n = 0
  <2>1. blocks = <<>>
    BY <1>1, <1>5, EmptySeq
  <2>2. FlattenSeq(blocks) = <<>>
    BY <1>1, <1>5, <2>1 DEF FlattenSeq
  <2>3. TouchAll(gs, FlattenSeq(blocks)) = gs
    BY <2>2, TouchAllNone
  <2>4. ASSUME NEW g \in DOMAIN dump PROVE FALSE
    BY <1>4, <1>5
  <2>. QED
    BY <2>2, <2>3, <2>4
<1>6. CASE n # 0
  <2>1. PICK f : Flattens(f, blocks) /\ FlattenSeq(blocks) = f[n]
    BY <1>1, <1>6, FlattenSeqIs
  <2>2. \A i \in 1..n : f[i] = FlattenStep(f, blocks, i)
    BY <1>1, <2>1 DEF Flattens
  <2>. DEFINE Upto(g, i) == \E j \in 1..i : ids[j] = g
              Shown(i) ==
                /\ f[i] \in Seq(Event)
                /\ TouchAll(gs, f[i]) \in GoroutineMap
                /\ \A g \in Goroutine :
                     TouchAll(gs, f[i])[g] =
                       IF Upto(g, i) THEN Listed(gs[g], g, dump[g], known, t)
                       ELSE gs[g]
              X == {i \in Nat : i + 1 <= n => Shown(i + 1)}
  <2>3. ASSUME NEW i \in 1..n
        PROVE  /\ ids[i] \in Goroutine /\ IsBlock(dump[ids[i]])
               /\ blocks[i] \in Seq(Event)
    <3>1. blocks[i] = BlockEvents(ids[i], dump[ids[i]], known, t)
      BY <1>1
    <3>2. ids[i] \in Goroutine /\ IsBlock(dump[ids[i]])
      BY <1>2, <1>3, Zenon
    <3>3. BlockEvents(ids[i], dump[ids[i]], known, t) \in Seq(Event)
      BY ONLY <1>0, <3>2, BlockEventsShow, Zenon
    <3>. QED
      BY ONLY <3>1, <3>2, <3>3, Zenon
  <2>4. 0 \in X
    <3>1. 1 \in 1..n
      BY <1>1, <1>6
    <3>2. f[1] = BlockEvents(ids[1], dump[ids[1]], known, t)
      BY <1>1, <2>2, <3>1 DEF FlattenStep
    <3>3. /\ f[1] \in Seq(Event)
          /\ TouchAll(gs, f[1]) \in GoroutineMap
          /\ \A h \in Goroutine : TouchAll(gs, f[1])[h] =
               IF h = ids[1] THEN Listed(gs[ids[1]], ids[1], dump[ids[1]], known, t)
               ELSE gs[h]
      <4>1. ids[1] \in Goroutine /\ IsBlock(dump[ids[1]])
        BY ONLY <2>3, <3>1, Zenon
      <4>. DEFINE b == BlockEvents(ids[1], dump[ids[1]], known, t)
      <4>2. /\ b \in Seq(Event)
            /\ TouchAll(gs, b) \in GoroutineMap
            /\ \A h \in Goroutine : TouchAll(gs, b)[h] =
                 IF h = ids[1] THEN Listed(gs[ids[1]], ids[1], dump[ids[1]], known, t)
                 ELSE gs[h]
        BY ONLY <1>0, <4>1, BlockEventsShow DEF b
      <4>. QED
        BY ONLY <3>2, <4>2, Zenon
    <3>4. \A g : Upto(g, 1) <=> g = ids[1]
      OBVIOUS
    <3>. HIDE DEF Upto
    <3>5. Shown(1)
      BY <3>3, <3>4
    <3>. HIDE DEF Shown
    <3>. QED
      BY <3>5
  <2>5. ASSUME NEW i \in Nat, i \in X PROVE i + 1 \in X
    <3>. SUFFICES ASSUME (i + 1) + 1 <= n PROVE Shown((i + 1) + 1)
      OBVIOUS
    <3>. DEFINE p == i + 1
                q == (i + 1) + 1
    <3>1. /\ p \in 1..n /\ q \in 1..n /\ q # 1 /\ q - 1 = p
          /\ 1..q = (1..p) \cup {q} /\ q \notin 1..p /\ 1..p \subseteq 1..n
      <4>1. n \in Nat /\ i \in Nat /\ (i + 1) + 1 <= n
        BY <1>1
      <4>. QED
        BY ONLY <4>1, SMT
    <3>2. Shown(p)
      BY <1>1, <2>5
    <3>. HIDE DEF p, q
    <3>3. f[q] = f[p] \o blocks[q]
      BY <2>2, <3>1 DEF FlattenStep
    <3>4. f[p] \in Seq(Event) /\ blocks[q] \in Seq(Event)
      BY <2>3, <3>1, <3>2
    <3>. DEFINE was == TouchAll(gs, f[p])
                g0 == ids[q]
    <3>5. TouchAll(gs, f[q]) = TouchAll(was, blocks[q])
      BY <3>3, <3>4, TouchAllConcat
    <3>6. was \in GoroutineMap
          /\ \A g \in Goroutine :
               was[g] = IF Upto(g, p) THEN Listed(gs[g], g, dump[g], known, t)
                        ELSE gs[g]
      BY <3>2
    <3>. HIDE DEF was, Shown
    <3>7. blocks[q] = BlockEvents(g0, dump[g0], known, t)
      BY <1>1, <3>1
    <3>8. g0 \in Goroutine /\ IsBlock(dump[g0])
      BY <2>3, <3>1
    <3>9. /\ TouchAll(was, blocks[q]) \in GoroutineMap
          /\ \A h \in Goroutine : TouchAll(was, blocks[q])[h] =
               IF h = g0 THEN Listed(was[g0], g0, dump[g0], known, t) ELSE was[h]
      <4>. DEFINE b == BlockEvents(g0, dump[g0], known, t)
      <4>1. /\ TouchAll(was, b) \in GoroutineMap
            /\ \A h \in Goroutine : TouchAll(was, b)[h] =
                 IF h = g0 THEN Listed(was[g0], g0, dump[g0], known, t) ELSE was[h]
        BY ONLY <1>0, <3>6, <3>8, BlockEventsShow DEF b
      <4>. QED
        BY ONLY <3>7, <4>1, Zenon
    <3>10. \A g : Upto(g, q) <=> Upto(g, p) \/ g = g0
      BY <3>1
    <3>11. ~ Upto(g0, p)
      BY <1>4, <3>1
    <3>. HIDE DEF Upto
    <3>12. f[q] \in Seq(Event)
      BY <3>3, <3>4, ConcatProperties
    <3>13. was[g0] = gs[g0]
      BY <3>6, <3>8, <3>11
    <3>. HIDE DEF g0
    <3>14. ASSUME NEW g \in Goroutine
           PROVE  TouchAll(gs, f[q])[g] =
                    IF Upto(g, q) THEN Listed(gs[g], g, dump[g], known, t) ELSE gs[g]
      <4>1. CASE g = g0
        BY <3>5, <3>9, <3>10, <3>13, <4>1
      <4>2. CASE g # g0
        BY <3>5, <3>6, <3>9, <3>10, <4>2
      <4>. QED
        BY <4>1, <4>2
    <3>. QED
      BY <3>5, <3>9, <3>12, <3>14 DEF Shown, q
  <2>. HIDE DEF X
  <2>6. \A i \in Nat : i \in X
    BY <2>4, <2>5, NatSetInduction
  <2>7. Shown(n)
    <3>1. n - 1 \in Nat /\ (n - 1) + 1 = n
      BY <1>1, <1>6
    <3>2. n - 1 \in X
      BY <2>6, <3>1
    <3>. HIDE DEF Shown
    <3>. QED
      BY <1>1, <3>1, <3>2 DEF X
  <2>8. \A g : Upto(g, n) <=> g \in DOMAIN dump
    BY <1>2, <1>4
  <2>. HIDE DEF Upto
  <2>. QED
    BY <2>1, <2>7, <2>8
<1>. QED
  BY <1>5, <1>6

\* The ends of goroutines, in any order.
LEMMA EndsShow ==
  ASSUME NEW gs \in GoroutineMap, NEW t \in Nat, NEW es \in Seq(Event),
         \A i \in 1..Len(es) : /\ es[i].gid \in Goroutine
                               /\ es[i] = Ev("goroutine.end", es[i].gid, t),
         \A i, j \in 1..Len(es) : es[i] = es[j] => i = j
  PROVE  \A g \in Goroutine :
           LET r == TouchAll(gs, es)[g]
               ends == \E i \in 1..Len(es) : es[i].gid = g
           IN  /\ ends => r = After(gs[g], Ev("goroutine.end", g, t))
               /\ ~ ends => r = gs[g]
<1>. DEFINE n == Len(es)
            Upto(g, i) == \E j \in 1..i : es[j].gid = g
            End(g) == After(gs[g], Ev("goroutine.end", g, t))
<1>1. /\ n \in Nat /\ \A i \in 1..n : es[i] \in Event
      /\ \A i \in 1..n : es[i].gid \in Goroutine
                         /\ es[i] = Ev("goroutine.end", es[i].gid, t)
      /\ \A i, j \in 1..n : es[i] = es[j] => i = j
  OBVIOUS
<1>2. PICK f : Touches(f, gs, es)
  BY <1>1, TouchesExists
<1>3. \A i \in 0..n : f[i] = TouchStep(f, gs, es, i)
  BY <1>2 DEF Touches
<1>4. TouchAll(gs, es) = f[n]
  BY <1>1, <1>2, TouchAllIs
<1>5. gs \in GoroutineMap
  OBVIOUS
<1>6. \A i, j \in 1..n : es[i].gid = es[j].gid => i = j
  BY ONLY <1>1
<1>. HIDE DEF n, End
<1>. DEFINE Shown(i) == f[i] \in GoroutineMap
                        /\ \A g \in Goroutine :
                             f[i][g] = IF Upto(g, i) THEN End(g) ELSE gs[g]
            X == {i \in Nat : i <= n => Shown(i)}
<1>7. 0 \in X
  <2>1. f[0] = gs
    BY <1>1, <1>3 DEF TouchStep
  <2>2. \A g : ~ Upto(g, 0)
    OBVIOUS
  <2>. HIDE DEF Upto
  <2>. QED
    BY <1>5, <2>1, <2>2
<1>8. ASSUME NEW i \in Nat, i \in X PROVE i + 1 \in X
  <2>. SUFFICES ASSUME i + 1 <= n PROVE Shown(i + 1)
    OBVIOUS
  <2>. DEFINE q == i + 1
  <2>1. /\ q \in 1..n /\ q \in 0..n /\ q # 0 /\ q - 1 = i
        /\ 1..q = (1..i) \cup {q} /\ q \notin 1..i /\ 1..i \subseteq 1..n
    <3>1. n \in Nat /\ i \in Nat /\ i + 1 <= n
      BY <1>1
    <3>. QED
      BY ONLY <3>1, SMT
  <2>2. Shown(i)
    BY <1>1, <1>8
  <2>. HIDE DEF q
  <2>. DEFINE e == es[q]
  <2>3. f[q] = Touch(f[i], e)
    BY <1>3, <2>1 DEF TouchStep
  <2>4. e \in Event /\ e.gid \in Goroutine /\ e = Ev("goroutine.end", e.gid, t)
    BY <1>1, <2>1
  <2>5. f[i] \in GoroutineMap
        /\ \A g \in Goroutine : f[i][g] = IF Upto(g, i) THEN End(g) ELSE gs[g]
    BY <2>2
  <2>6. Touch(f[i], e) \in GoroutineMap
        /\ \A g \in Goroutine :
             Touch(f[i], e)[g] = IF e.gid = g THEN After(f[i][g], e) ELSE f[i][g]
    BY ONLY <2>4, <2>5, TouchIs
  <2>7. \A g : Upto(g, q) <=> Upto(g, i) \/ e.gid = g
    BY ONLY <2>1
  <2>8. ~ Upto(e.gid, i)
    BY ONLY <1>6, <2>1
  <2>9. After(gs[e.gid], e) = End(e.gid)
    BY ONLY <2>4 DEF End
  <2>. HIDE DEF e, Upto, Shown
  <2>10. ASSUME NEW g \in Goroutine
         PROVE  f[q][g] = IF Upto(g, q) THEN End(g) ELSE gs[g]
    <3>1. CASE e.gid = g
      <4>1. f[i][g] = gs[g]
        BY <2>5, <2>8, <3>1
      <4>. QED
        BY <2>3, <2>6, <2>7, <2>9, <3>1, <4>1
    <3>2. CASE e.gid # g
      BY <2>3, <2>5, <2>6, <2>7, <3>2
    <3>. QED
      BY <3>1, <3>2
  <2>11. f[q] \in GoroutineMap
    BY <2>3, <2>6
  <2>. QED
    BY <2>10, <2>11 DEF Shown, q
<1>. HIDE DEF X
<1>9. \A i \in Nat : i \in X
  BY <1>7, <1>8, NatSetInduction
<1>10. Shown(n)
  BY <1>1, <1>9 DEF X
<1>. HIDE DEF Upto
<1>11. \A g \in Goroutine : TouchAll(gs, es)[g] = IF Upto(g, n) THEN End(g) ELSE gs[g]
  BY ONLY <1>4, <1>10
<1>. QED
  BY <1>11 DEF n, End, Upto

\* The events that a poll adds.
Fresh(known, dump, t) ==
  FlattenSeq([i \in 1..Len(SetToSeq(DOMAIN dump)) |->
                BlockEvents(SetToSeq(DOMAIN dump)[i],
                            dump[SetToSeq(DOMAIN dump)[i]], known, t)])
  \o EndEvents(known, dump, t)

LEMMA PolledIs ==
  ASSUME NEW p, NEW dump, NEW t
  PROVE  Polled(p, dump, t) =
           [at     |-> "loading",
            dump   |-> dump,
            known  |-> DOMAIN dump,
            events |-> p.events \o Fresh(p.known, dump, t),
            stacks |-> p.stacks \o StacksOf(dump, t)]
BY DEF Polled, Fresh, Accumulate

LEMMA EndEventsShow ==
  ASSUME NEW gs \in GoroutineMap, NEW dump, NEW t \in Nat,
         NEW known, IsFiniteSet(known), known \subseteq Goroutine
  PROVE  /\ EndEvents(known, dump, t) \in Seq(Event)
         /\ \A g \in Goroutine :
              LET r == TouchAll(gs, EndEvents(known, dump, t))[g]
                  gone == g \in known /\ g \notin DOMAIN dump
              IN  /\ gone => r = After(gs[g], Ev("goroutine.end", g, t))
                  /\ ~ gone => r = gs[g]
<1>. DEFINE gone == known \ DOMAIN dump
            S == {Ev("goroutine.end", g, t) : g \in gone}
            es == SetToSeq(S)
<1>1. IsFiniteSet(S)
  <2>1. IsFiniteSet(gone)
    BY FS_Subset
  <2>. DEFINE f == [g \in gone |-> Ev("goroutine.end", g, t)]
  <2>2. f \in Surjection(gone, S)
    BY DEF Surjection
  <2>. HIDE DEF f, gone, S
  <2>. QED
    BY <2>1, <2>2, FS_Surjection
<1>2. /\ es \in Seq(S)
      /\ \A x \in S : \E i \in 1..Len(es) : es[i] = x
      /\ \A i, j \in 1..Len(es) : es[i] = es[j] => i = j
  <2>. HIDE DEF S
  <2>. QED
    BY <1>1, SetToSeqIs
<1>3. \A g \in gone : /\ g \in Goroutine
                      /\ Ev("goroutine.end", g, t) \in Event
                      /\ Ev("goroutine.end", g, t).gid = g
  BY EndEventType
<1>4. \A x \in S : \E g \in gone : x = Ev("goroutine.end", g, t)
  OBVIOUS
<1>5. \A g \in gone : Ev("goroutine.end", g, t) \in S
  OBVIOUS
<1>. HIDE DEF S, gone
<1>6. S \subseteq Event
  BY <1>3, <1>4
<1>7. \A i \in 1..Len(es) : es[i] \in S
  <2>. HIDE DEF es
  <2>. QED
    BY ONLY <1>2, ElementOfSeq
<1>8. es \in Seq(Event)
  <2>. HIDE DEF es
  <2>. QED
    BY ONLY <1>2, <1>6, SeqMonotonic
<1>9. \A i \in 1..Len(es) : /\ es[i].gid \in Goroutine
                            /\ es[i].gid \in gone
                            /\ es[i] = Ev("goroutine.end", es[i].gid, t)
  <2>. HIDE DEF es
  <2>. QED
    BY ONLY <1>3, <1>4, <1>7
<1>10. \A g \in Goroutine : (\E i \in 1..Len(es) : es[i].gid = g) <=> g \in gone
  <2>. HIDE DEF es
  <2>. QED
    BY ONLY <1>2, <1>3, <1>5, <1>9
<1>. HIDE DEF es
<1>11. \A g \in Goroutine :
         LET r == TouchAll(gs, es)[g]
             ends == \E i \in 1..Len(es) : es[i].gid = g
         IN  /\ ends => r = After(gs[g], Ev("goroutine.end", g, t))
             /\ ~ ends => r = gs[g]
  <2>1. gs \in GoroutineMap /\ t \in Nat
    OBVIOUS
  <2>2. \A i \in 1..Len(es) : /\ es[i].gid \in Goroutine
                              /\ es[i] = Ev("goroutine.end", es[i].gid, t)
    BY <1>9
  <2>3. \A i, j \in 1..Len(es) : es[i] = es[j] => i = j
    BY <1>2
  <2>. QED
    BY ONLY <1>8, <2>1, <2>2, <2>3, EndsShow
<1>. QED
  BY <1>8, <1>10, <1>11 DEF EndEvents, es, S, gone

\* A poll's events, from any history: a goroutine that the dump lists gets its
\* block, one that it does not list any more ends, and the rest are untouched.
LEMMA PollShows ==
  ASSUME NEW gs \in GoroutineMap, NEW dump, IsDump(dump), NEW t \in Nat,
         NEW known, IsFiniteSet(known), known \subseteq Goroutine
  PROVE  /\ Fresh(known, dump, t) \in Seq(Event)
         /\ \A g \in Goroutine :
              LET r == TouchAll(gs, Fresh(known, dump, t))[g]
              IN  /\ g \in DOMAIN dump => r = Listed(gs[g], g, dump[g], known, t)
                  /\ g \notin DOMAIN dump /\ g \in known
                       => r = After(gs[g], Ev("goroutine.end", g, t))
                  /\ g \notin DOMAIN dump /\ g \notin known => r = gs[g]
<1>. DEFINE ids == SetToSeq(DOMAIN dump)
            blocks == [i \in 1..Len(ids) |->
                         BlockEvents(ids[i], dump[ids[i]], known, t)]
            first == FlattenSeq(blocks)
            last == EndEvents(known, dump, t)
            mid == TouchAll(gs, first)
<1>1. IsFiniteSet(DOMAIN dump)
  BY DEF IsDump
<1>2. Orders(ids, dump)
  BY <1>1, SetToSeqIs DEF Orders
<1>3. gs \in GoroutineMap /\ t \in Nat /\ IsDump(dump)
  OBVIOUS
<1>. HIDE DEF ids
<1>4. /\ first \in Seq(Event)
      /\ \A g \in Goroutine :
           /\ g \in DOMAIN dump => mid[g] = Listed(gs[g], g, dump[g], known, t)
           /\ g \notin DOMAIN dump => mid[g] = gs[g]
  <2>1. AreBlocks(blocks, ids, dump, known, t)
    <3>. DEFINE n == Len(ids)
    <3>1. n \in Nat /\ \A i \in 1..n : ids[i] \in DOMAIN dump
      BY <1>2 DEF Orders
    <3>2. \A g \in DOMAIN dump : g \in Goroutine /\ IsBlock(dump[g])
      BY DEF IsDump, IsBlock
    <3>3. ASSUME NEW i \in 1..n
          PROVE  BlockEvents(ids[i], dump[ids[i]], known, t) \in Seq(Event)
      <4>1. ids[i] \in Goroutine /\ IsBlock(dump[ids[i]])
        BY <3>1, <3>2, Zenon
      <4>. QED
        BY ONLY <1>3, <4>1, BlockEventsShow
    <3>4. /\ blocks \in [1..n -> Seq(Event)]
          /\ \A i \in 1..n : blocks[i] = BlockEvents(ids[i], dump[ids[i]], known, t)
      BY <3>3
    <3>. HIDE DEF blocks, n
    <3>5. blocks \in Seq(Seq(Event)) /\ Len(blocks) = n
      BY ONLY <3>1, <3>4, IsASeq
    <3>. QED
      BY <3>4, <3>5 DEF AreBlocks, n
  <2>. HIDE DEF blocks
  <2>2. FlattenSeq(blocks) \in Seq(Event)
    BY ONLY <1>2, <1>3, <2>1, BlocksShow
  <2>3. \A g \in Goroutine :
          LET r == TouchAll(gs, FlattenSeq(blocks))[g]
          IN  /\ g \in DOMAIN dump => r = Listed(gs[g], g, dump[g], known, t)
              /\ g \notin DOMAIN dump => r = gs[g]
    BY ONLY <1>2, <1>3, <2>1, BlocksShow
  <2>. QED
    BY <2>2, <2>3
<1>5. mid \in GoroutineMap
  <2>. HIDE DEF first
  <2>. QED
    BY ONLY <1>3, <1>4, TouchAllType DEF mid
<1>. HIDE DEF first, mid
<1>6. /\ last \in Seq(Event)
      /\ \A g \in Goroutine :
           LET r == TouchAll(mid, last)[g]
               gone == g \in known /\ g \notin DOMAIN dump
           IN  /\ gone => r = After(mid[g], Ev("goroutine.end", g, t))
               /\ ~ gone => r = mid[g]
  BY <1>5, EndEventsShow DEF last
<1>. HIDE DEF last
<1>7. TouchAll(gs, first \o last) = TouchAll(mid, last)
  BY <1>4, <1>6, TouchAllConcat DEF mid
<1>8. first \o last \in Seq(Event)
  BY <1>4, <1>6, ConcatProperties
<1>9. Fresh(known, dump, t) = first \o last
  BY DEF Fresh, first, last, ids
<1>10. ASSUME NEW g \in Goroutine
       PROVE  LET r == TouchAll(mid, last)[g]
              IN  /\ g \in DOMAIN dump => r = Listed(gs[g], g, dump[g], known, t)
                  /\ g \notin DOMAIN dump /\ g \in known
                       => r = After(gs[g], Ev("goroutine.end", g, t))
                  /\ g \notin DOMAIN dump /\ g \notin known => r = gs[g]
  BY <1>4, <1>6
<1>. QED
  BY <1>7, <1>8, <1>9, <1>10

-----------------------------------------------------------------------------
(* What the stacks make of all goroutines *)

\* A stack of g that no later one replaces.
IsLast(j, stacks, g) ==
  /\ j \in 1..Len(stacks) /\ stacks[j].gid = g
  /\ \A i \in (j + 1)..Len(stacks) : stacks[i].gid # g

NoStack(stacks, g) == \A i \in 1..Len(stacks) : stacks[i].gid # g

\* The part of a goroutine that the stacks leave alone.
SameStay(r, q) ==
  /\ q.known = TRUE
  /\ q.state = r.state /\ q.reason = r.reason /\ q.resource = r.resource
  /\ q.waitNS = r.waitNS /\ q.isAlive = r.isAlive

LEMMA WithStackStay ==
  ASSUME NEW r \in GoroutineRecord, NEW s \in StackSnapshot, r.known
  PROVE  SameStay(r, WithStack(r, s))
BY DEF WithStack, StackSnapshot, GoroutineRecord, SameStay

LEMMA WithStackLast ==
  ASSUME NEW r \in GoroutineRecord, NEW s \in StackSnapshot
  PROVE  WithStack(r, s).lastStack = s.frames
BY DEF WithStack, StackSnapshot, GoroutineRecord

LEMMA SampleIs ==
  ASSUME NEW gs \in GoroutineMap, NEW s \in StackSnapshot, s.gid \in Goroutine
  PROVE  /\ Sample(gs, s) \in GoroutineMap
         /\ Sample(gs, s)[s.gid] = WithStack(gs[s.gid], s)
         /\ \A g \in Goroutine : s.gid # g => Sample(gs, s)[g] = gs[g]
<1>1. WithStack(gs[s.gid], s) \in GoroutineRecord
  BY WithStackType DEF GoroutineMap
<1>. QED
  BY <1>1 DEF Sample, GoroutineMap

LEMMA SamplesExists ==
  ASSUME NEW base, NEW stacks, Len(stacks) \in Nat
  PROVE  \E f : Samples(f, base, stacks)
<1>. DEFINE Upto(f, n) == f = [i \in 0..n |-> SampleStep(f, base, stacks, i)]
            X == {n \in Nat : \E f : Upto(f, n)}
<1>1. 0 \in X
  <2>1. Upto([i \in 0..0 |-> base], 0)
    BY DEF SampleStep
  <2>. HIDE DEF Upto
  <2>. QED
    BY <2>1
<1>2. ASSUME NEW n \in Nat, n \in X PROVE n + 1 \in X
  <2>1. PICK f : Upto(f, n)
    BY <1>2
  <2>. DEFINE h == [i \in 0..(n + 1) |-> SampleStep(f, base, stacks, i)]
  <2>2. ASSUME NEW i \in 0..n PROVE h[i] = f[i]
    <3>1. f[i] = SampleStep(f, base, stacks, i)
      BY <2>1
    <3>. QED
      BY <3>1
  <2>3. ASSUME NEW i \in 0..(n + 1)
        PROVE  SampleStep(h, base, stacks, i) = SampleStep(f, base, stacks, i)
    <3>1. i = 0 \/ i - 1 \in 0..n
      OBVIOUS
    <3>. HIDE DEF h
    <3>. QED
      BY <2>2, <3>1 DEF SampleStep
  <2>4. h = [i \in 0..(n + 1) |-> SampleStep(h, base, stacks, i)]
    <3>1. h = [i \in 0..(n + 1) |-> SampleStep(f, base, stacks, i)]
      OBVIOUS
    <3>. HIDE DEF h
    <3>. QED
      BY <2>3, <3>1
  <2>. HIDE DEF h
  <2>. QED
    BY <2>4
<1>. HIDE DEF X
<1>3. \A n \in Nat : n \in X
  BY <1>1, <1>2, NatSetInduction
<1>. QED
  BY <1>3 DEF X, Samples

\* The stacks, one after the other: what they leave alone, whom they do not name,
\* and that the last one of a goroutine is its stack.
LEMMA StacksShow ==
  ASSUME NEW gs \in GoroutineMap, NEW stacks \in Seq(StackSnapshot),
         \A i \in 1..Len(stacks) : stacks[i].gid \in Goroutine
  PROVE  LET rs == SampleAll(gs, stacks)
         IN  /\ rs \in GoroutineMap
             /\ \A g \in Goroutine : gs[g].known => SameStay(gs[g], rs[g])
             /\ \A g \in Goroutine : NoStack(stacks, g) => rs[g] = gs[g]
             /\ \A g \in Goroutine, j \in 1..Len(stacks) :
                  IsLast(j, stacks, g) => rs[g].lastStack = stacks[j].frames
<1>. DEFINE n == Len(stacks)
<1>1. n \in Nat /\ \A i \in 1..n : stacks[i] \in StackSnapshot
                                  /\ stacks[i].gid \in Goroutine
  OBVIOUS
<1>2. PICK f : Samples(f, gs, stacks)
  BY <1>1, SamplesExists
<1>. DEFINE h == CHOOSE h : Samples(h, gs, stacks)
<1>3. Samples(h, gs, stacks) /\ SampleAll(gs, stacks) = h[n]
  BY <1>2 DEF SampleAll
<1>. HIDE DEF h
<1>4. \A i \in 0..n : h[i] = SampleStep(h, gs, stacks, i)
  BY <1>3 DEF Samples
<1>5. gs \in GoroutineMap
  OBVIOUS
<1>. HIDE DEF n
<1>. DEFINE LastIn(j, i, g) == /\ j \in 1..i /\ stacks[j].gid = g
                               /\ \A m \in (j + 1)..i : stacks[m].gid # g
            NoneIn(i, g) == \A m \in 1..i : stacks[m].gid # g
            Shown(i) ==
              /\ h[i] \in GoroutineMap
              /\ \A g \in Goroutine : gs[g].known => SameStay(gs[g], h[i][g])
              /\ \A g \in Goroutine : NoneIn(i, g) => h[i][g] = gs[g]
              /\ \A g \in Goroutine, j \in 1..n :
                   LastIn(j, i, g) => h[i][g].lastStack = stacks[j].frames
            X == {i \in Nat : i <= n => Shown(i)}
<1>6. 0 \in X
  <2>1. h[0] = gs
    BY <1>1, <1>4 DEF SampleStep
  <2>2. \A g \in Goroutine : gs[g].known => SameStay(gs[g], gs[g])
    BY <1>5 DEF SameStay, GoroutineMap, GoroutineRecord
  <2>3. \A g, j : ~ LastIn(j, 0, g)
    OBVIOUS
  <2>. HIDE DEF LastIn, NoneIn
  <2>4. Shown(0)
    BY <1>5, <2>1, <2>2, <2>3
  <2>. HIDE DEF Shown
  <2>. QED
    BY <2>4
<1>7. ASSUME NEW i \in Nat, i \in X PROVE i + 1 \in X
  <2>. SUFFICES ASSUME i + 1 <= n PROVE Shown(i + 1)
    OBVIOUS
  <2>. DEFINE q == i + 1
  <2>1. /\ q \in 1..n /\ q \in 0..n /\ q # 0 /\ q - 1 = i /\ 1..q = (1..i) \cup {q}
        /\ \A j \in 1..n : j # q => (j + 1)..q = ((j + 1)..i) \cup (IF j < q THEN {q} ELSE {})
    <3>1. n \in Nat /\ i \in Nat /\ i + 1 <= n
      BY <1>1
    <3>. QED
      BY ONLY <3>1, SMT
  <2>2. Shown(i)
    BY <1>1, <1>7
  <2>. HIDE DEF q
  <2>. DEFINE s == stacks[q]
              b == s.gid
              old == h[i]
              new == h[q]
  <2>3. new = Sample(old, s)
    BY <1>4, <2>1 DEF SampleStep
  <2>4. s \in StackSnapshot /\ b \in Goroutine
    BY <1>1, <2>1
  <2>5. old \in GoroutineMap
    BY <2>2
  <2>6. /\ new \in GoroutineMap
        /\ new[b] = WithStack(old[b], s)
        /\ \A g \in Goroutine : b # g => new[g] = old[g]
    BY <2>3, <2>4, <2>5, SampleIs
  <2>7. \A g \in Goroutine : gs[g].known => SameStay(gs[g], old[g])
    BY <2>2
  <2>8. \A g \in Goroutine : NoneIn(i, g) => old[g] = gs[g]
    BY <2>2
  <2>9. \A g \in Goroutine, j \in 1..n :
          LastIn(j, i, g) => old[g].lastStack = stacks[j].frames
    BY <2>2
  <2>10. old[b] \in GoroutineRecord
    BY <2>4, <2>5 DEF GoroutineMap
  <2>11. new[b].lastStack = s.frames
    BY <2>4, <2>6, <2>10, WithStackLast
  <2>12. old[b].known => SameStay(old[b], new[b])
    BY <2>4, <2>6, <2>10, WithStackStay
  <2>13. \A g : NoneIn(q, g) <=> NoneIn(i, g) /\ b # g
    BY <2>1
  <2>14. \A g, j : LastIn(j, q, g) => \/ j = q /\ g = b
                                      \/ LastIn(j, i, g) /\ b # g
    <3>. SUFFICES ASSUME NEW g, NEW j, LastIn(j, q, g), j # q
                  PROVE  LastIn(j, i, g) /\ b # g
      BY <2>1
    <3>1. j \in 1..i
      BY <2>1
    <3>2. q \in (j + 1)..q /\ (j + 1)..i \subseteq (j + 1)..q
      <4>1. i \in Nat /\ q = i + 1
        BY DEF q
      <4>. QED
        BY ONLY <3>1, <4>1, SMT
    <3>. QED
      BY <3>1, <3>2
  <2>. HIDE DEF LastIn, NoneIn, Shown, s, b, old, new
  <2>15. \A g \in Goroutine : gs[g].known => SameStay(gs[g], new[g])
    <3>. SUFFICES ASSUME NEW g \in Goroutine, gs[g].known PROVE SameStay(gs[g], new[g])
      OBVIOUS
    <3>1. SameStay(gs[g], old[g])
      BY <2>7
    <3>2. CASE b = g
      <4>1. SameStay(old[g], new[g])
        BY <2>12, <3>1, <3>2 DEF SameStay
      <4>. QED
        BY <3>1, <4>1 DEF SameStay
    <3>3. CASE b # g
      BY <2>6, <3>1, <3>3
    <3>. QED
      BY <3>2, <3>3
  <2>16. \A g \in Goroutine : NoneIn(q, g) => new[g] = gs[g]
    BY <2>6, <2>8, <2>13
  <2>17. \A g \in Goroutine, j \in 1..n :
           LastIn(j, q, g) => new[g].lastStack = stacks[j].frames
    <3>. SUFFICES ASSUME NEW g \in Goroutine, NEW j \in 1..n, LastIn(j, q, g)
                  PROVE  new[g].lastStack = stacks[j].frames
      OBVIOUS
    <3>1. CASE j = q /\ g = b
      BY <2>11, <3>1 DEF s
    <3>2. CASE LastIn(j, i, g) /\ b # g
      BY <2>6, <2>9, <3>2
    <3>. QED
      BY <2>14, <3>1, <3>2
  <2>. QED
    BY <2>6, <2>15, <2>16, <2>17 DEF Shown, q, new
<1>. HIDE DEF X
<1>8. \A i \in Nat : i \in X
  BY <1>6, <1>7, NatSetInduction
<1>9. Shown(n)
  <2>. HIDE DEF Shown
  <2>. QED
    BY <1>1, <1>8 DEF X
<1>10. /\ \A g : NoStack(stacks, g) <=> NoneIn(n, g)
       /\ \A g, j : IsLast(j, stacks, g) <=> LastIn(j, n, g)
  BY DEF NoStack, IsLast, n
<1>. HIDE DEF LastIn, NoneIn
<1>. QED
  BY <1>3, <1>9, <1>10 DEF n

LEMMA StacksOfShow ==
  ASSUME NEW dump, IsDump(dump), NEW t \in Nat, NEW new, new = StacksOf(dump, t)
  PROVE  /\ new \in Seq(StackSnapshot)
         /\ \A i \in 1..Len(new) : /\ new[i].gid \in DOMAIN dump
                                   /\ new[i].frames = dump[new[i].gid].frames
         /\ \A g \in DOMAIN dump :
              dump[g].frames # NoFrames => \E j \in 1..Len(new) : IsLast(j, new, g)
<1>. DEFINE sampled == {g \in DOMAIN dump : dump[g].frames # NoFrames}
            Snap(g) == [gid |-> g, ts |-> t, frames |-> dump[g].frames]
            S == {Snap(g) : g \in sampled}
<1>1. IsFiniteSet(S)
  <2>1. IsFiniteSet(sampled)
    BY FS_Subset DEF IsDump
  <2>. DEFINE f == [g \in sampled |-> Snap(g)]
  <2>2. f \in Surjection(sampled, S)
    BY DEF Surjection
  <2>. HIDE DEF f, S, sampled
  <2>. QED
    BY <2>1, <2>2, FS_Surjection
<1>2. new = SetToSeq(S)
  BY DEF StacksOf
<1>3. \A g \in sampled : /\ Snap(g) \in StackSnapshot
                         /\ Snap(g).gid = g /\ Snap(g).frames = dump[g].frames
  BY DEF StackSnapshot, IsDump, Block
<1>4. \A x \in S : \E g \in sampled : x = Snap(g)
  OBVIOUS
<1>5. \A g \in sampled : Snap(g) \in S
  OBVIOUS
<1>6. \A g \in sampled : g \in DOMAIN dump
  OBVIOUS
<1>7. \A g \in DOMAIN dump : dump[g].frames # NoFrames => g \in sampled
  OBVIOUS
<1>. HIDE DEF S, sampled, Snap
<1>8. /\ new \in Seq(S)
      /\ \A x \in S : \E i \in 1..Len(new) : new[i] = x
      /\ \A i, j \in 1..Len(new) : new[i] = new[j] => i = j
  BY <1>1, <1>2, SetToSeqIs
<1>9. S \subseteq StackSnapshot
  BY <1>3, <1>4
<1>10. new \in Seq(StackSnapshot) /\ Len(new) \in Nat
  BY ONLY <1>8, <1>9, SeqMonotonic
<1>11. \A i \in 1..Len(new) : new[i] \in S
  BY ONLY <1>8, ElementOfSeq
<1>12. \A i \in 1..Len(new) : /\ new[i].gid \in DOMAIN dump
                              /\ new[i].frames = dump[new[i].gid].frames
                              /\ new[i] = Snap(new[i].gid)
  BY ONLY <1>3, <1>4, <1>6, <1>11
<1>13. ASSUME NEW g \in DOMAIN dump, dump[g].frames # NoFrames
       PROVE  \E j \in 1..Len(new) : IsLast(j, new, g)
  <2>1. PICK j \in 1..Len(new) : new[j] = Snap(g)
    BY <1>5, <1>7, <1>8, <1>13
  <2>2. new[j].gid = g
    BY <1>3, <1>7, <1>13, <2>1
  <2>3. \A i \in 1..Len(new) : new[i].gid = g => i = j
    BY ONLY <1>8, <1>12, <2>1
  <2>4. \A i \in (j + 1)..Len(new) : i \in 1..Len(new) /\ i # j
    BY <1>10
  <2>. QED
    BY ONLY <2>2, <2>3, <2>4 DEF IsLast
<1>. QED
  BY <1>10, <1>12, <1>13

\* The last stack of a goroutine in a longer history.
LEMMA LastAfter ==
  ASSUME NEW a \in Seq(StackSnapshot), NEW b \in Seq(StackSnapshot), NEW g,
         NEW j \in 1..Len(b), IsLast(j, b, g)
  PROVE  /\ Len(a) + j \in 1..Len(a \o b)
         /\ IsLast(Len(a) + j, a \o b, g)
         /\ (a \o b)[Len(a) + j] = b[j]
<1>. DEFINE n == Len(a)
            m == Len(b)
            c == a \o b
<1>1. n \in Nat /\ m \in Nat /\ Len(c) = n + m
  OBVIOUS
<1>2. \A i \in 1..m : c[n + i] = b[i]
  OBVIOUS
<1>3. /\ b[j].gid = g /\ \A i \in (j + 1)..m : b[i].gid # g
  BY DEF IsLast
<1>4. j \in 1..m
  OBVIOUS
<1>. HIDE DEF n, m, c
<1>5. \A i \in (n + j + 1)..(n + m) : /\ i - n \in (j + 1)..m /\ i - n \in 1..m
                                      /\ n + (i - n) = i
  BY ONLY <1>1, <1>4, SMT
<1>6. \A i \in (n + j + 1)..(n + m) : c[i].gid # g
  BY ONLY <1>2, <1>3, <1>5
<1>7. n + j \in 1..(n + m) /\ (n + j) + 1 = n + j + 1
  BY <1>1, <1>4
<1>8. c[n + j] = b[j]
  BY <1>2, <1>4
<1>. QED
  BY <1>1, <1>3, <1>6, <1>7, <1>8 DEF IsLast, n, m, c

-----------------------------------------------------------------------------
(* What a poller's history says, whatever dumps it was made of *)

ShowsBlock(r, block) ==
  /\ r.known
  /\ r.state = block.state /\ r.reason = block.reason
  /\ isWaitState(block.state) => Given(block.resource, r.resource)
  /\ ~ isWaitState(block.state) => r.resource = ""
  /\ r.isAlive = (block.state # "DONE")

Gone(r) == r.known => r.state = "DONE" /\ ~ r.isAlive

\* The goroutines after all the events so far.
Told(events) == TouchAll(NewEngine.goroutines, events)

History(p) ==
  /\ p.events \in Seq(Event) /\ p.stacks \in Seq(StackSnapshot)
  /\ IsDump(p.dump) /\ p.known = DOMAIN p.dump
  /\ \A g \in Goroutine :
       /\ g \in DOMAIN p.dump => ShowsBlock(Told(p.events)[g], p.dump[g])
       /\ g \notin DOMAIN p.dump => Gone(Told(p.events)[g])
  /\ \A i \in 1..Len(p.stacks) : /\ p.stacks[i].gid \in Goroutine
                                 /\ Told(p.events)[p.stacks[i].gid].known
  /\ \A g \in DOMAIN p.dump :
       p.dump[g].frames # NoFrames =>
         \E j \in 1..Len(p.stacks) :
           IsLast(j, p.stacks, g) /\ p.stacks[j].frames = p.dump[g].frames

LEMMA NewEngineType ==
  /\ NewEngine.goroutines \in GoroutineMap
  /\ \A g \in Goroutine : NewEngine.goroutines[g] = ZeroGoroutine
  /\ NewEngine.session = NoSession /\ NewEngine.version = 0
BY ZeroGoroutineType DEF NewEngine, GoroutineMap

LEMMA ToldType ==
  ASSUME NEW events \in Seq(Event)
  PROVE  Told(events) \in GoroutineMap
BY NewEngineType, TouchAllType DEF Told

LEMMA HistoryNone == History(NoPoller)
<1>1. Told(<<>>) = NewEngine.goroutines
  BY TouchAllNone DEF Told
<1>2. IsDump(<<>>) /\ DOMAIN <<>> = {}
  BY FS_EmptySet DEF IsDump
<1>3. \A g \in Goroutine : Gone(Told(<<>>)[g])
  <2>1. ZeroGoroutine.known = FALSE
    BY DEF ZeroGoroutine
  <2>2. \A g \in Goroutine : Told(<<>>)[g] = ZeroGoroutine
    BY <1>1, NewEngineType
  <2>. QED
    BY ONLY <2>1, <2>2 DEF Gone
<1>4. /\ NoPoller.events = <<>> /\ NoPoller.stacks = <<>> /\ NoPoller.dump = <<>>
      /\ NoPoller.known = {}
  BY DEF NoPoller
<1>5. Len(<<>>) = 0 /\ <<>> \in Seq(Event) /\ <<>> \in Seq(StackSnapshot)
  OBVIOUS
<1>. QED
  BY <1>2, <1>3, <1>4, <1>5 DEF History

\* What a listed goroutine has become: the block of the dump.
LEMMA ListedShows ==
  ASSUME NEW r \in GoroutineRecord, NEW g \in Goroutine, NEW block, IsBlock(block),
         NEW t \in Nat \ {0}, NEW known
  PROVE  /\ Listed(r, g, block, known, t) \in GoroutineRecord
         /\ ShowsBlock(Listed(r, g, block, known, t), block)
<1>. DEFINE b == IF g \in known THEN r ELSE After(r, CreateEvent(g, block, t))
            q == After(b, StateEvent(g, block, t))
<1>1. CreateEvent(g, block, t) \in Event /\ StateEvent(g, block, t) \in Event
  BY EventTypes
<1>2. b \in GoroutineRecord
  BY <1>1, AfterType
<1>. HIDE DEF b
<1>3. q \in GoroutineRecord /\ q.known = TRUE
  BY <1>1, <1>2, AfterType, AfterKnown
<1>4. Becomes(q, b, block, t)
  BY <1>2, StateIs
<1>5. Listed(r, g, block, known, t) = q
  BY DEF Listed, b
<1>. HIDE DEF q
<1>6. Repeats(b, block) => isWaitState(block.state) /\ Given(block.resource, b.resource)
  BY DEF Repeats
<1>7. ShowsBlock(q, block)
  BY ONLY <1>3, <1>4, <1>6 DEF ShowsBlock, Given, Becomes
<1>. QED
  BY <1>3, <1>5, <1>7

LEMMA ElementOfConcat ==
  ASSUME NEW S, NEW a \in Seq(S), NEW b \in Seq(S), NEW i \in 1..Len(a \o b)
  PROVE  \/ \E j \in 1..Len(a) : (a \o b)[i] = a[j]
         \/ \E j \in 1..Len(b) : (a \o b)[i] = b[j]
<1>. DEFINE n == Len(a)
            m == Len(b)
<1>1. n \in Nat /\ m \in Nat /\ i \in 1..(n + m)
  OBVIOUS
<1>2. i <= n \/ i > n
  BY <1>1
<1>3. CASE i <= n
  <2>1. i \in 1..n /\ (a \o b)[i] = a[i]
    BY <1>1, <1>3
  <2>. QED
    BY <2>1
<1>4. CASE i > n
  <2>. DEFINE k == i - n
  <2>1. k \in 1..m /\ (a \o b)[i] = b[k]
    BY <1>1, <1>4
  <2>. HIDE DEF k
  <2>. QED
    BY <2>1
<1>. QED
  BY <1>2, <1>3, <1>4

\* What one goroutine has become by a poll.
LEMMA PolledGoroutine ==
  ASSUME NEW p, History(p), NEW dump, IsDump(dump), NEW t \in Nat \ {0},
         NEW g \in Goroutine
  PROVE  LET r == Told(p.events)[g]
             q == Told(p.events \o Fresh(p.known, dump, t))[g]
         IN  /\ g \in DOMAIN dump => q = Listed(r, g, dump[g], p.known, t)
             /\ g \in DOMAIN dump => ShowsBlock(q, dump[g])
             /\ g \notin DOMAIN dump => Gone(q)
             /\ r.known => q.known
             /\ r \in GoroutineRecord
<1>. DEFINE gs == Told(p.events)
            fresh == Fresh(p.known, dump, t)
            rs == Told(p.events \o fresh)
<1>1. /\ p.events \in Seq(Event) /\ IsDump(p.dump) /\ p.known = DOMAIN p.dump
      /\ g \in DOMAIN p.dump => ShowsBlock(gs[g], p.dump[g])
      /\ g \notin DOMAIN p.dump => Gone(gs[g])
  BY DEF History
<1>2. IsFiniteSet(p.known) /\ p.known \subseteq Goroutine
  BY <1>1 DEF IsDump
<1>3. gs \in GoroutineMap /\ gs[g] \in GoroutineRecord
  <2>1. gs \in GoroutineMap
    BY <1>1, ToldType
  <2>. HIDE DEF gs
  <2>. QED
    BY <2>1 DEF GoroutineMap
<1>. HIDE DEF gs
<1>4. /\ fresh \in Seq(Event)
      /\ LET r == TouchAll(gs, fresh)[g]
         IN  /\ g \in DOMAIN dump => r = Listed(gs[g], g, dump[g], p.known, t)
             /\ g \notin DOMAIN dump /\ g \in p.known
                  => r = After(gs[g], Ev("goroutine.end", g, t))
             /\ g \notin DOMAIN dump /\ g \notin p.known => r = gs[g]
  BY <1>2, <1>3, PollShows
<1>. HIDE DEF fresh
<1>5. rs = TouchAll(gs, fresh)
  BY <1>1, <1>4, TouchAllConcat DEF Told, gs
<1>. HIDE DEF rs
<1>6. t \in Nat
  OBVIOUS
<1>7. CASE g \in DOMAIN dump
  <2>1. IsBlock(dump[g])
    BY <1>7 DEF IsDump, IsBlock
  <2>2. rs[g] = Listed(gs[g], g, dump[g], p.known, t)
    BY <1>4, <1>5, <1>7
  <2>3. ShowsBlock(rs[g], dump[g])
    BY <1>3, <2>1, <2>2, ListedShows
  <2>4. rs[g].known
    BY <2>3 DEF ShowsBlock
  <2>. QED
    BY <1>3, <1>7, <2>2, <2>3, <2>4 DEF gs, rs, fresh
<1>8. CASE g \notin DOMAIN dump /\ g \in p.known
  <2>. DEFINE r == gs[g]
              q == After(r, Ev("goroutine.end", g, t))
  <2>1. rs[g] = q
    BY <1>4, <1>5, <1>8
  <2>5. r \in GoroutineRecord /\ Ev("goroutine.end", g, t) \in Event
    BY <1>3, <1>6, EndEventType
  <2>. HIDE DEF r
  <2>6. q.known = TRUE
    BY <2>5, AfterKnown
  <2>7. q.state = "DONE" /\ q.isAlive = FALSE
    BY <1>6, <2>5, EndIs
  <2>. HIDE DEF q
  <2>2. rs[g].known = TRUE
    BY ONLY <2>1, <2>6
  <2>3. rs[g].state = "DONE" /\ rs[g].isAlive = FALSE
    BY ONLY <2>1, <2>7
  <2>4. Gone(rs[g])
    BY <2>3 DEF Gone
  <2>. QED
    BY <1>3, <1>8, <2>2, <2>4 DEF gs, rs, fresh
<1>9. CASE g \notin DOMAIN dump /\ g \notin p.known
  <2>1. rs[g] = gs[g] /\ Gone(rs[g])
    BY <1>1, <1>4, <1>5, <1>9
  <2>. QED
    BY <1>3, <1>9, <2>1 DEF gs, rs, fresh
<1>. QED
  BY <1>7, <1>8, <1>9

LEMMA HistoryPolled ==
  ASSUME NEW p, History(p), NEW dump, IsDump(dump), NEW t \in Nat \ {0}
  PROVE  History(Polled(p, dump, t))
<1>. DEFINE new == StacksOf(dump, t)
            fresh == Fresh(p.known, dump, t)
            events == p.events \o fresh
            stacks == p.stacks \o new
            q == Polled(p, dump, t)
            gs == Told(p.events)
            rs == Told(events)
<1>1. /\ q.events = events /\ q.stacks = stacks
      /\ q.dump = dump /\ q.known = DOMAIN dump
  BY PolledIs
<1>2. /\ p.events \in Seq(Event) /\ p.stacks \in Seq(StackSnapshot)
      /\ IsDump(p.dump) /\ p.known = DOMAIN p.dump
      /\ \A i \in 1..Len(p.stacks) : /\ p.stacks[i].gid \in Goroutine
                                     /\ gs[p.stacks[i].gid].known
  BY DEF History
<1>3. t \in Nat /\ \A g \in DOMAIN dump : g \in Goroutine
  BY DEF IsDump
<1>4. /\ new \in Seq(StackSnapshot)
      /\ \A i \in 1..Len(new) : /\ new[i].gid \in DOMAIN dump
                                /\ new[i].frames = dump[new[i].gid].frames
      /\ \A g \in DOMAIN dump :
           dump[g].frames # NoFrames => \E j \in 1..Len(new) : IsLast(j, new, g)
  BY <1>3, StacksOfShow
<1>5. fresh \in Seq(Event)
  <2>1. IsFiniteSet(p.known) /\ p.known \subseteq Goroutine
    BY <1>2 DEF IsDump
  <2>2. gs \in GoroutineMap
    BY <1>2, ToldType
  <2>. QED
    BY <1>3, <2>1, <2>2, PollShows
<1>6. events \in Seq(Event) /\ stacks \in Seq(StackSnapshot)
  BY <1>2, <1>4, <1>5
<1>7. \A g \in Goroutine :
        /\ g \in DOMAIN dump => ShowsBlock(rs[g], dump[g])
        /\ g \notin DOMAIN dump => Gone(rs[g])
        /\ gs[g].known => rs[g].known
  BY PolledGoroutine
<1>. HIDE DEF q, rs, gs, new, events, fresh
<1>8. ASSUME NEW i \in 1..Len(stacks)
      PROVE  stacks[i].gid \in Goroutine /\ rs[stacks[i].gid].known
  <2>1. CASE \E j \in 1..Len(p.stacks) : stacks[i] = p.stacks[j]
    BY <1>2, <1>7, <2>1
  <2>2. CASE \E j \in 1..Len(new) : stacks[i] = new[j]
    <3>1. stacks[i].gid \in DOMAIN dump
      BY <1>4, <2>2
    <3>2. stacks[i].gid \in Goroutine /\ ShowsBlock(rs[stacks[i].gid], dump[stacks[i].gid])
      BY <1>3, <1>7, <3>1
    <3>. QED
      BY <3>2 DEF ShowsBlock
  <2>. QED
    BY <1>2, <1>4, <2>1, <2>2, ElementOfConcat
<1>9. ASSUME NEW g \in DOMAIN dump, dump[g].frames # NoFrames
      PROVE  \E j \in 1..Len(stacks) :
               IsLast(j, stacks, g) /\ stacks[j].frames = dump[g].frames
  <2>1. PICK j \in 1..Len(new) : IsLast(j, new, g)
    BY <1>4, <1>9
  <2>2. new[j].gid = g /\ new[j].frames = dump[g].frames
    BY <1>4, <2>1 DEF IsLast
  <2>3. /\ Len(p.stacks) + j \in 1..Len(stacks)
        /\ IsLast(Len(p.stacks) + j, stacks, g)
        /\ stacks[Len(p.stacks) + j] = new[j]
    BY ONLY <1>2, <1>4, <2>1, LastAfter DEF stacks
  <2>. HIDE DEF stacks
  <2>. QED
    BY ONLY <2>2, <2>3
<1>. HIDE DEF stacks
<1>10. IsDump(q.dump) /\ q.known = DOMAIN q.dump
  BY <1>1
<1>11. Told(q.events) = rs
  BY <1>1 DEF rs
<1>12. \A i \in 1..Len(q.stacks) : /\ q.stacks[i].gid \in Goroutine
                                   /\ rs[q.stacks[i].gid].known
  BY <1>1, <1>8
<1>13. \A g \in DOMAIN q.dump :
         q.dump[g].frames # NoFrames =>
           \E j \in 1..Len(q.stacks) :
             IsLast(j, q.stacks, g) /\ q.stacks[j].frames = q.dump[g].frames
  BY <1>1, <1>9
<1>14. \A g \in Goroutine :
         /\ g \in DOMAIN q.dump => ShowsBlock(rs[g], q.dump[g])
         /\ g \notin DOMAIN q.dump => Gone(rs[g])
  BY <1>1, <1>7
<1>15. q.events \in Seq(Event) /\ q.stacks \in Seq(StackSnapshot)
  BY <1>1, <1>6
<1>16. History(q)
  BY ONLY <1>10, <1>11, <1>12, <1>13, <1>14, <1>15 DEF History
<1>. QED
  BY <1>16 DEF q

\* What an engine shows that is loaded with a poller's history.
ShowsDump(dump, rs) ==
  \A g \in Goroutine :
    LET shown == rs[g]
    IN  IF g \in DOMAIN dump
        THEN /\ shown.state = dump[g].state
             /\ shown.reason = dump[g].reason
             /\ IF isWaitState(shown.state)
                THEN Given(dump[g].resource, shown.resource)
                ELSE shown.resource = ""
             /\ dump[g].frames \in {NoFrames, shown.lastStack}
             /\ shown.isAlive = (shown.state # "DONE")
        ELSE shown.known => shown.state = "DONE" /\ ~ shown.isAlive

LEMMA HistoryShown ==
  ASSUME NEW p, History(p)
  PROVE  /\ SampleAll(Told(p.events), p.stacks) \in GoroutineMap
         /\ ShowsDump(p.dump, SampleAll(Told(p.events), p.stacks))
         /\ \A g \in DOMAIN p.dump :
              SameStay(Told(p.events)[g], SampleAll(Told(p.events), p.stacks)[g])
<1>. DEFINE gs == Told(p.events)
            rs == SampleAll(gs, p.stacks)
            dump == p.dump
<1>1. /\ p.events \in Seq(Event) /\ p.stacks \in Seq(StackSnapshot)
      /\ \A g \in Goroutine : /\ g \in DOMAIN dump => ShowsBlock(gs[g], dump[g])
                              /\ g \notin DOMAIN dump => Gone(gs[g])
      /\ \A i \in 1..Len(p.stacks) : /\ p.stacks[i].gid \in Goroutine
                                     /\ gs[p.stacks[i].gid].known
      /\ \A g \in DOMAIN dump :
           dump[g].frames # NoFrames =>
             \E j \in 1..Len(p.stacks) :
               IsLast(j, p.stacks, g) /\ p.stacks[j].frames = dump[g].frames
      /\ \A g \in DOMAIN dump : g \in Goroutine
  BY DEF History, IsDump
<1>2. gs \in GoroutineMap
  BY <1>1, ToldType
<1>. HIDE DEF gs
<1>3. /\ rs \in GoroutineMap
      /\ \A g \in Goroutine : gs[g].known => SameStay(gs[g], rs[g])
      /\ \A g \in Goroutine : NoStack(p.stacks, g) => rs[g] = gs[g]
      /\ \A g \in Goroutine, j \in 1..Len(p.stacks) :
           IsLast(j, p.stacks, g) => rs[g].lastStack = p.stacks[j].frames
  BY <1>1, <1>2, StacksShow
<1>. HIDE DEF rs, dump
<1>4. ASSUME NEW g \in DOMAIN dump
      PROVE  /\ g \in Goroutine /\ ShowsBlock(gs[g], dump[g])
             /\ SameStay(gs[g], rs[g])
             /\ dump[g].frames \in {NoFrames, rs[g].lastStack}
  <2>1. g \in Goroutine /\ ShowsBlock(gs[g], dump[g])
    BY <1>1
  <2>2. SameStay(gs[g], rs[g])
    BY <1>3, <2>1 DEF ShowsBlock
  <2>3. dump[g].frames # NoFrames => rs[g].lastStack = dump[g].frames
    BY <1>1, <1>3, <2>1
  <2>. QED
    BY <2>1, <2>2, <2>3
<1>5. ASSUME NEW g \in Goroutine, g \notin DOMAIN dump
      PROVE  rs[g].known => rs[g].state = "DONE" /\ ~ rs[g].isAlive
  <2>1. Gone(gs[g])
    BY <1>1, <1>5
  <2>2. CASE gs[g].known
    BY <1>3, <2>1, <2>2 DEF Gone, SameStay
  <2>3. CASE ~ gs[g].known
    <3>1. NoStack(p.stacks, g)
      BY <1>1, <2>3 DEF NoStack
    <3>. QED
      BY <1>3, <2>3, <3>1
  <2>. QED
    BY <2>2, <2>3
<1>6. ShowsDump(dump, rs)
  BY <1>4, <1>5 DEF ShowsDump, ShowsBlock, SameStay
<1>. QED
  BY <1>3, <1>4, <1>6 DEF rs, gs, dump

-----------------------------------------------------------------------------
(* The wait that a poller's history tells of *)

\* SameWait, Whole and the choice of WaitingSince.
Continues(a, b, g) ==
  /\ g \in DOMAIN a \cap DOMAIN b
  /\ b[g].state = a[g].state /\ b[g].reason = a[g].reason
  /\ Given(b[g].resource, a[g].resource)

Whole(seen, g, i, last) == \A j \in i..last : Continues(seen[i].dump, seen[j].dump, g)

IsSince(s, seen, g, last) ==
  /\ s \in 1..last /\ Whole(seen, g, s, last)
  /\ \A h \in 1..(s - 1) : ~ Whole(seen, g, h, last)

LEMMA WaitingSinceIs ==
  ASSUME NEW seen, NEW g, NEW s, Len(seen) \in Nat, IsSince(s, seen, g, Len(seen))
  PROVE  WaitingSince(seen, g) = seen[s].ts
<1>. DEFINE last == Len(seen)
            P(i) == Whole(seen, g, i, last)
            c == CHOOSE i \in 1..last : P(i) /\ \A h \in 1..(i - 1) : ~ P(h)
<1>1. WaitingSince(seen, g) = seen[c].ts
  BY DEF WaitingSince, Whole, Continues
<1>2. s \in 1..last /\ P(s) /\ \A h \in 1..(s - 1) : ~ P(h)
  BY DEF IsSince
<1>. HIDE DEF P
<1>3. c \in 1..last /\ P(c) /\ \A h \in 1..(c - 1) : ~ P(h)
  BY <1>2
<1>. HIDE DEF c
<1>4. c = s
  <2>1. ~ (c < s) /\ ~ (s < c)
    BY <1>2, <1>3
  <2>. QED
    BY <1>2, <1>3, <2>1
<1>. QED
  BY <1>1, <1>4

\* The dumps that made a history.
Seen(p, seen) ==
  /\ Len(seen) \in Nat /\ \A i \in 1..Len(seen) : seen[i].ts \in Nat \ {0}
  /\ p.dump = IF Len(seen) = 0 THEN <<>> ELSE seen[Len(seen)].dump

Waited(r, seen, g) ==
  LET n == Len(seen)
      block == seen[n].dump[g]
  IN  /\ r.lastSeenAt = seen[n].ts
      /\ ~ isWaitState(block.state) => r.waitNS = 0
      /\ isWaitState(block.state) =>
           \E s \in 1..n : /\ IsSince(s, seen, g, n)
                           /\ r.resource = seen[s].dump[g].resource
                           /\ r.waitNS = seen[n].ts - seen[s].ts

\* The wait goes on, or starts anew, with one more dump.
LEMMA WaitGoesOn ==
  ASSUME NEW S, NEW seen \in Seq(S), NEW d \in S, NEW g,
         NEW n \in Nat, n = Len(seen), NEW new, new = Append(seen, d)
  PROVE  /\ g \in DOMAIN d.dump => Whole(new, g, n + 1, n + 1)
         /\ \A i \in 1..n : Whole(new, g, i, n + 1)
                              <=> /\ Whole(seen, g, i, n)
                                  /\ Continues(seen[i].dump, d.dump, g)
<1>1. /\ \A i \in 1..n : new[i] = seen[i]
      /\ new[n + 1] = d
  OBVIOUS
<1>2. g \in DOMAIN d.dump => Whole(new, g, n + 1, n + 1)
  <2>1. \A j \in (n + 1)..(n + 1) : j = n + 1
    OBVIOUS
  <2>2. g \in DOMAIN d.dump => Continues(d.dump, d.dump, g)
    BY DEF Continues, Given
  <2>. QED
    BY ONLY <1>1, <2>1, <2>2 DEF Whole
<1>3. ASSUME NEW i \in 1..n
      PROVE  Whole(new, g, i, n + 1)
               <=> Whole(seen, g, i, n) /\ Continues(seen[i].dump, d.dump, g)
  <2>1. \A j \in i..(n + 1) : j \in 1..n \/ j = n + 1
    OBVIOUS
  <2>2. /\ n + 1 \in i..(n + 1)
        /\ \A j \in i..n : j \in i..(n + 1) /\ j \in 1..n
        /\ \A j \in i..(n + 1) : j # n + 1 => j \in i..n
    OBVIOUS
  <2>3. new[i] = seen[i] /\ new[n + 1] = d
    BY <1>1
  <2>. QED
    BY <1>1, <2>1, <2>2, <2>3 DEF Whole
<1>. QED
  BY <1>2, <1>3

LEMMA WaitedNext ==
  ASSUME NEW S, NEW seen \in Seq(S), NEW d \in S, NEW g,
         NEW n \in Nat, n = Len(seen), NEW new, new = Append(seen, d),
         \A i \in 1..n : seen[i].ts \in Nat \ {0},
         d.ts \in Nat, \A i \in 1..n : seen[i].ts < d.ts,
         g \in DOMAIN d.dump, IsBlock(d.dump[g]),
         NEW r, NEW q, Becomes(q, r, d.dump[g], d.ts),
         \/ ~ isWaitState(r.state) /\ (n = 0 \/ g \notin DOMAIN seen[n].dump)
         \/ /\ n # 0 /\ g \in DOMAIN seen[n].dump
            /\ ShowsBlock(r, seen[n].dump[g]) /\ Waited(r, seen, g)
  PROVE  Waited(q, new, g)
<1>. DEFINE block == d.dump[g]
            t == d.ts
<1>1. /\ Len(new) = n + 1 /\ new[n + 1] = d
      /\ \A i \in 1..n : new[i] = seen[i]
  OBVIOUS
<1>2. /\ Whole(new, g, n + 1, n + 1)
      /\ \A i \in 1..n : Whole(new, g, i, n + 1)
                           <=> /\ Whole(seen, g, i, n)
                               /\ Continues(seen[i].dump, d.dump, g)
  BY WaitGoesOn
<1>. HIDE DEF block, t
<1>3. Becomes(q, r, block, t)
  BY DEF block, t
<1>4. ASSUME \A i \in 1..n : ~ (/\ Whole(seen, g, i, n)
                                /\ Continues(seen[i].dump, d.dump, g)),
             ~ Repeats(r, block)
      PROVE  Waited(q, new, g)
  <2>1. IsSince(n + 1, new, g, n + 1)
    BY <1>2, <1>4 DEF IsSince
  <2>2. q.lastSeenAt = t /\ q.waitNS = 0 /\ t - t = 0
    <3>1. q.lastSeenAt = t /\ q.waitNS = 0
      BY ONLY <1>3, <1>4 DEF Becomes
    <3>2. t - t = 0
      BY DEF t
    <3>. QED
      BY <3>1, <3>2
  <2>3. isWaitState(block.state) => q.resource = block.resource
    BY <1>3, <1>4 DEF Becomes
  <2>4. n + 1 \in 1..(n + 1)
    OBVIOUS
  <2>. QED
    BY ONLY <1>1, <2>1, <2>2, <2>3, <2>4 DEF Waited, block, t
<1>5. CASE ~ isWaitState(r.state) /\ (n = 0 \/ g \notin DOMAIN seen[n].dump)
  <2>1. ~ Repeats(r, block)
    BY <1>5 DEF Repeats
  <2>2. \A i \in 1..n : ~ Whole(seen, g, i, n)
    BY <1>5 DEF Whole, Continues
  <2>. QED
    BY <1>4, <2>1, <2>2
<1>6. CASE /\ n # 0 /\ g \in DOMAIN seen[n].dump
           /\ ShowsBlock(r, seen[n].dump[g]) /\ Waited(r, seen, g)
  <2>. DEFINE last == seen[n].dump[g]
  <2>1. r.state = last.state /\ r.reason = last.reason
    BY <1>6 DEF ShowsBlock
  <2>2. CASE Repeats(r, block)
    <3>1. isWaitState(last.state) /\ block.state = last.state
      BY <2>1, <2>2 DEF Repeats
    <3>2. PICK s \in 1..n : /\ IsSince(s, seen, g, n)
                            /\ r.resource = seen[s].dump[g].resource
                            /\ r.waitNS = seen[n].ts - seen[s].ts
      BY <1>6, <3>1 DEF Waited
    <3>3. /\ Whole(seen, g, s, n) /\ \A h \in 1..(s - 1) : ~ Whole(seen, g, h, n)
          /\ Continues(seen[s].dump, seen[n].dump, g)
      BY <3>2 DEF IsSince, Whole
    <3>4. Continues(seen[s].dump, d.dump, g)
      BY <2>1, <2>2, <3>2, <3>3 DEF Continues, Repeats, block
    <3>5. IsSince(s, new, g, n + 1)
      BY <1>2, <3>3, <3>4 DEF IsSince
    <3>6. r.lastSeenAt = seen[n].ts
      BY <1>6 DEF Waited
    <3>7. q.waitNS = t - seen[s].ts
      <4>1. q.waitNS = (seen[n].ts - seen[s].ts) + elapsedNS(seen[n].ts, t)
        BY <1>3, <2>2, <3>2, <3>6 DEF Becomes
      <4>. DEFINE a == seen[n].ts
                  b == seen[s].ts
      <4>2. a \in Nat /\ a # 0 /\ b \in Nat /\ t \in Nat /\ a < t
        BY <1>6 DEF t
      <4>. HIDE DEF a, b
      <4>3. (a - b) + elapsedNS(a, t) = t - b
        BY ONLY <4>2 DEF elapsedNS
      <4>. QED
        BY <4>1, <4>3 DEF a, b
    <3>8. q.lastSeenAt = t /\ q.resource = r.resource
      BY <1>3, <2>2 DEF Becomes
    <3>9. new[s] = seen[s] /\ s \in 1..(n + 1)
      BY <1>1
    <3>10. isWaitState(block.state)
      BY <2>2 DEF Repeats
    <3>. QED
      BY ONLY <1>1, <3>2, <3>5, <3>7, <3>8, <3>9, <3>10 DEF Waited, block, t
  <2>3. CASE ~ Repeats(r, block) /\ ~ isWaitState(block.state)
    <3>1. q.lastSeenAt = t /\ q.waitNS = 0
      BY <1>3, <2>3 DEF Becomes
    <3>. QED
      BY ONLY <1>1, <2>3, <3>1 DEF Waited, block, t
  <2>4. CASE ~ Repeats(r, block) /\ isWaitState(block.state)
    <3>1. ASSUME NEW i \in 1..n, Whole(seen, g, i, n),
                 Continues(seen[i].dump, d.dump, g)
          PROVE  FALSE
      <4>1. Continues(seen[i].dump, seen[n].dump, g)
        BY <3>1 DEF Whole
      <4>2. /\ last.state = block.state /\ last.reason = block.reason
            /\ Given(block.resource, seen[i].dump[g].resource)
        BY <3>1, <4>1 DEF Continues, block
      <4>3. PICK s \in 1..n : /\ IsSince(s, seen, g, n)
                              /\ r.resource = seen[s].dump[g].resource
        BY <1>6, <2>4, <4>2 DEF Waited
      <4>4. s <= i
        BY <3>1, <4>3 DEF IsSince
      <4>5. Continues(seen[s].dump, seen[i].dump, g)
        BY <4>3, <4>4 DEF IsSince, Whole
      <4>6. Given(seen[i].dump[g].resource, r.resource)
        BY <4>3, <4>5 DEF Continues
      <4>7. Given(block.resource, r.resource)
        BY <4>2, <4>6 DEF Given
      <4>. QED
        BY <2>1, <2>4, <4>2, <4>7 DEF Repeats
    <3>. QED
      BY <1>4, <2>4, <3>1
  <2>. QED
    BY <2>2, <2>3, <2>4
<1>. QED
  BY <1>5, <1>6

LEMMA WaitedPolled ==
  ASSUME NEW p, History(p), NEW S, NEW seen \in Seq(S), Seen(p, seen),
         NEW d \in S, IsDump(d.dump), d.ts \in Nat \ {0},
         \A i \in 1..Len(seen) : seen[i].ts < d.ts,
         NEW q, q = Polled(p, d.dump, d.ts)
  PROVE  /\ Seen(q, Append(seen, d))
         /\ (\A g \in DOMAIN p.dump : Waited(Told(p.events)[g], seen, g))
              => \A g \in DOMAIN q.dump :
                   Waited(Told(q.events)[g], Append(seen, d), g)
<1>. DEFINE n == Len(seen)
            new == Append(seen, d)
            t == d.ts
<1>1. /\ n \in Nat /\ Len(new) = n + 1 /\ new[n + 1] = d
      /\ \A i \in 1..n : new[i] = seen[i]
      /\ \A i \in 1..(n + 1) : i \in 1..n \/ i = n + 1
  OBVIOUS
<1>2. /\ \A i \in 1..n : seen[i].ts \in Nat \ {0}
      /\ p.dump = IF n = 0 THEN <<>> ELSE seen[n].dump
  BY DEF Seen
<1>3. /\ q.events = p.events \o Fresh(p.known, d.dump, t)
      /\ q.dump = d.dump
  BY PolledIs
<1>4. Seen(q, new)
  <2>1. Len(new) \in Nat /\ Len(new) # 0 /\ new[Len(new)] = d
    BY <1>1
  <2>2. \A i \in 1..Len(new) : new[i].ts \in Nat \ {0}
    BY <1>1, <1>2
  <2>. HIDE DEF new
  <2>. QED
    BY <1>3, <2>1, <2>2 DEF Seen
<1>5. ASSUME \A g \in DOMAIN p.dump : Waited(Told(p.events)[g], seen, g),
             NEW g \in DOMAIN d.dump
      PROVE  Waited(Told(q.events)[g], new, g)
  <2>. DEFINE r == Told(p.events)[g]
              block == d.dump[g]
              b == IF g \in p.known THEN r ELSE After(r, CreateEvent(g, block, t))
              now2 == After(b, StateEvent(g, block, t))
  <2>1. g \in Goroutine /\ IsBlock(block)
    BY DEF IsDump, IsBlock
  <2>2. Told(q.events)[g] = now2 /\ r \in GoroutineRecord
    BY <1>3, <2>1, PolledGoroutine DEF Listed
  <2>3. /\ p.known = DOMAIN p.dump
        /\ g \in DOMAIN p.dump => ShowsBlock(r, p.dump[g])
    BY <2>1 DEF History
  <2>4. g \in DOMAIN p.dump => n # 0 /\ p.dump = seen[n].dump
    BY <1>2
  <2>. HIDE DEF r, block
  <2>5. g \notin p.known =>
          b.state = "RUNNABLE" /\ b \in GoroutineRecord
    <3>1. t \in Nat
      OBVIOUS
    <3>2. CreateEvent(g, block, t) \in Event
      BY <2>1, <3>1, EventTypes
    <3>3. After(r, CreateEvent(g, block, t)) \in GoroutineRecord
      BY <2>2, <3>2, AfterType
    <3>4. After(r, CreateEvent(g, block, t)).state = "RUNNABLE"
      BY <2>1, <2>2, <3>1, CreateIs
    <3>. QED
      BY <3>3, <3>4
  <2>6. g \in p.known => b = r
    OBVIOUS
  <2>. HIDE DEF b
  <2>7. b \in GoroutineRecord
    BY <2>2, <2>5, <2>6
  <2>8. Becomes(now2, b, block, t)
    BY <2>1, <2>7, StateIs
  <2>. HIDE DEF now2
  <2>9. \/ ~ isWaitState(b.state) /\ (n = 0 \/ g \notin DOMAIN seen[n].dump)
        \/ /\ n # 0 /\ g \in DOMAIN seen[n].dump
           /\ ShowsBlock(b, seen[n].dump[g]) /\ Waited(b, seen, g)
    <3>1. CASE g \in p.known
      BY <1>5, <2>3, <2>4, <2>6, <3>1 DEF r
    <3>2. CASE g \notin p.known
      BY <1>2, <2>3, <2>5, <3>2 DEF isWaitState
    <3>. QED
      BY <3>1, <3>2
  <2>10. Waited(now2, new, g)
    BY <1>1, <1>2, <2>1, <2>8, <2>9, WaitedNext DEF block, t
  <2>. QED
    BY <2>2, <2>10
<1>. QED
  BY <1>3, <1>4, <1>5

-----------------------------------------------------------------------------
(* The state *)

PollerRecord ==
  [at: {"none", "verifying", "idle", "loading", "stopped"},
   dump: Dumps \cup {<<>>}, known: SUBSET Goroutine,
   events: Seq(Event), stacks: Seq(StackSnapshot)]

Session == [of: Keys, id: Nat]

EngineRecord == [session: Session, goroutines: GoroutineMap, version: Nat]

SessionRecord == [id: Nat, status: {"none", "running", "completed"}]

ManagerRecord == [nextID: Nat, current: SessionRecord, history: Seq(SessionRecord)]

UploadRecord ==
  [at: {"idle", "load"}, asks: Asked \cup {NoTarget}, events: Seq(Event),
   session: Session]

ClientRecord ==
  [asks: Asked, reading: BOOLEAN, newTag: Nat, newRerouted: BOOLEAN,
   tag: Nat \cup {-1}, body: GoroutineMap, rerouted: BOOLEAN]

PollsType ==
  /\ now \in Nat
  /\ poller \in [Keys -> PollerRecord]
  /\ engine \in [Keys -> EngineRecord]
  /\ sessions \in [Keys -> ManagerRecord]
  /\ observed \in [Keys -> Seq([dump: Dumps, ts: Nat])]
  /\ upload \in UploadRecord
  /\ client \in ClientRecord
  /\ added \subseteq Target /\ targets \subseteq added /\ adding \subseteq added
  /\ defaultID \in added \cup {NoTarget}

\* The sessions that an engine may carry: of a manager that has started one.
Numbered ==
  /\ upload.session.of \in added \cup {NoTarget}
  /\ \A k \in Keys : engine[k].session.of \in added \cup {NoTarget}
  /\ \A k \in Keys :
       poller[k].at # "none" =>
         /\ k \in added \cup {NoTarget} /\ sessions[k].nextID # 0
         /\ upload.session # PollerSession(k)

Histories == \A k \in Keys : History(poller[k])

ShowsHistory(e, p) == e.goroutines = SampleAll(Told(p.events), p.stacks)

EngineShows == \A k \in Keys : ShowsPoll(k) => ShowsHistory(engine[k], poller[k])

PollInv == PollsType /\ Numbered /\ Histories /\ EngineShows

LEMMA StartedIs ==
  ASSUME NEW m \in ManagerRecord
  PROVE  /\ Started(m) \in ManagerRecord
         /\ Started(m).nextID = m.nextID + 1
         /\ Started(m).current.id = m.nextID + 1
<1>. DEFINE new == [id |-> m.nextID + 1, status |-> "running"]
<1>1. new \in SessionRecord /\ new.id = m.nextID + 1
  BY DEF ManagerRecord, SessionRecord
<1>2. Started(m) = [m EXCEPT !.nextID = m.nextID + 1, !.current = new]
  BY DEF Started
<1>. DEFINE n == m.nextID + 1
<1>4. n \in Nat /\ m \in [nextID: Nat, current: SessionRecord, history: Seq(SessionRecord)]
  BY DEF ManagerRecord
<1>. HIDE DEF new, n
<1>3. /\ Started(m) \in ManagerRecord
      /\ Started(m).nextID = n /\ Started(m).current = new
  BY ONLY <1>1, <1>2, <1>4 DEF ManagerRecord, n
<1>5. Started(m).nextID = m.nextID + 1
  BY <1>3 DEF n
<1>. QED
  BY <1>1, <1>3, <1>5

LEMMA FinishedIs ==
  ASSUME NEW m \in ManagerRecord
  PROVE  /\ Finished(m, "completed") \in ManagerRecord
         /\ Finished(m, "completed").nextID = m.nextID
<1>. DEFINE done == [m.current EXCEPT !.status = "completed"]
<1>1. done \in SessionRecord
  BY DEF ManagerRecord, SessionRecord
<1>2. Finished(m, "completed") =
        IF m.current = NilSession THEN m
        ELSE [m EXCEPT !.current = done, !.history = Append(@, done)]
  BY DEF Finished
<1>. HIDE DEF done
<1>3. Append(m.history, done) \in Seq(SessionRecord)
  BY <1>1 DEF ManagerRecord
<1>. QED
  BY <1>1, <1>2, <1>3 DEF ManagerRecord

LEMMA PollInit == Init => PollInv
<1>. SUFFICES ASSUME Init PROVE PollInv
  OBVIOUS
<1>1. PollsType
  <2>1. now \in Nat /\ observed \in [Keys -> Seq([dump: Dumps, ts: Nat])]
    BY DEF Init
  <2>2. poller \in [Keys -> PollerRecord]
    <3>1. <<>> \in Seq(Event) /\ <<>> \in Seq(StackSnapshot)
      OBVIOUS
    <3>2. NoPoller \in PollerRecord
      BY <3>1 DEF PollerRecord, NoPoller
    <3>3. [NoPoller EXCEPT !.at = "verifying"] \in PollerRecord
      BY <3>2 DEF PollerRecord
    <3>. QED
      BY <3>2, <3>3 DEF Init
  <2>3. NewEngine \in EngineRecord
    BY NewEngineType DEF EngineRecord, Session, NewEngine, NoSession, Keys
  <2>4. engine \in [Keys -> EngineRecord]
    BY <2>3 DEF Init
  <2>5. sessions \in [Keys -> ManagerRecord]
    <3>1. NewManager \in ManagerRecord
      <4>1. NilSession \in SessionRecord /\ <<>> \in Seq(SessionRecord)
        BY DEF NilSession, SessionRecord
      <4>. QED
        BY <4>1 DEF ManagerRecord, NewManager
    <3>2. Started(NewManager) \in ManagerRecord
      BY <3>1, StartedIs
    <3>. QED
      BY <3>1, <3>2 DEF Init
  <2>6. upload \in UploadRecord
    <3>1. NoSession \in Session
      BY DEF NoSession, Session, Keys
    <3>2. <<>> \in Seq(Event)
      OBVIOUS
    <3>. QED
      BY <3>1, <3>2 DEF Init, UploadRecord
  <2>7. client \in ClientRecord
    <3>. DEFINE body == NewEngine.goroutines
    <3>1. body \in GoroutineMap
      BY NewEngineType
    <3>2. client \in [asks: Asked, reading: {FALSE}, newTag: {0},
                      newRerouted: {FALSE}, tag: {-1}, body: {body},
                      rerouted: {FALSE}]
      BY DEF Init
    <3>. HIDE DEF body
    <3>3. -1 \in Nat \cup {-1} /\ 0 \in Nat /\ FALSE \in BOOLEAN
      OBVIOUS
    <3>4. [asks: Asked, reading: {FALSE}, newTag: {0}, newRerouted: {FALSE},
           tag: {-1}, body: {body}, rerouted: {FALSE}] \subseteq ClientRecord
      BY ONLY <3>1, <3>3 DEF ClientRecord
    <3>. QED
      BY ONLY <3>2, <3>4
  <2>8. /\ added \subseteq Target /\ targets \subseteq added
        /\ adding \subseteq added /\ defaultID \in added \cup {NoTarget}
    BY DEF Init
  <2>. QED
    BY <2>1, <2>2, <2>4, <2>5, <2>6, <2>7, <2>8 DEF PollsType
<1>2. Numbered
  BY DEF Init, Numbered, NoSession, NewEngine, NewManager, NoPoller, PollerSession,
     Started, Keys
<1>3. Histories
  <2>1. ASSUME NEW k \in Keys PROVE History(poller[k])
    <3>1. /\ poller[k].dump = NoPoller.dump /\ poller[k].known = NoPoller.known
          /\ poller[k].events = NoPoller.events /\ poller[k].stacks = NoPoller.stacks
      BY DEF Init, NoPoller
    <3>. QED
      BY <3>1, HistoryNone DEF History
  <2>. QED
    BY <2>1 DEF Histories
<1>4. EngineShows
  BY DEF Init, EngineShows, ShowsPoll, NewEngine, NoSession, PollerSession
<1>. QED
  BY <1>1, <1>2, <1>3, <1>4 DEF PollInv

LEMMA LoadedType ==
  ASSUME NEW e \in EngineRecord, NEW session \in Session,
         NEW events \in Seq(Event), NEW stacks \in Seq(StackSnapshot),
         \A i \in 1..Len(stacks) : stacks[i].gid \in Goroutine,
         NEW new, new = Loaded(e, session, events, stacks)
  PROVE  /\ new \in EngineRecord /\ new.session = session
         /\ new.goroutines = SampleAll(Told(events), stacks)
         /\ new.version > e.version
<1>. DEFINE gs == SampleAll(Told(events), stacks)
            v == LoadedVersion(e.version, events, stacks)
<1>1. new = [session |-> session, goroutines |-> gs, version |-> v]
  BY LoadedIs DEF Told
<1>2. gs \in GoroutineMap
  BY ToldType, StacksShow
<1>3. e.version \in Nat /\ Len(events) \in Nat /\ Len(stacks) \in Nat
  BY DEF EngineRecord
<1>4. v \in Nat /\ v > e.version
  BY <1>3 DEF LoadedVersion
<1>. HIDE DEF gs, v
<1>5. /\ new \in EngineRecord /\ new.session = session
      /\ new.goroutines = gs /\ new.version = v
  BY <1>1, <1>2, <1>4 DEF EngineRecord
<1>. QED
  BY <1>4, <1>5 DEF gs

LEMMA NoPollerType == NoPoller \in PollerRecord
<1>1. <<>> \in Seq(Event) /\ <<>> \in Seq(StackSnapshot)
  OBVIOUS
<1>. QED
  BY <1>1 DEF PollerRecord, NoPoller

LEMMA PolledType ==
  ASSUME NEW p, History(p), NEW dump \in Dumps, NEW t \in Nat \ {0}
  PROVE  Polled(p, dump, t) \in PollerRecord /\ History(Polled(p, dump, t))
<1>. DEFINE q == Polled(p, dump, t)
<1>1. IsDump(dump)
  BY InputAssumption
<1>2. History(q)
  BY <1>1, HistoryPolled
<1>3. /\ q = [at |-> q.at, dump |-> q.dump, known |-> q.known, events |-> q.events,
              stacks |-> q.stacks]
      /\ q.at = "loading" /\ q.dump = dump /\ q.known = DOMAIN dump
  BY PolledIs
<1>. HIDE DEF q
<1>4. /\ q.events \in Seq(Event) /\ q.stacks \in Seq(StackSnapshot)
      /\ q.known \in SUBSET Goroutine
  BY <1>1, <1>2, <1>3 DEF History, IsDump
<1>5. q \in PollerRecord
  BY <1>3, <1>4 DEF PollerRecord
<1>. QED
  BY <1>2, <1>5 DEF q

\* A history is what a poller says beside its place.
LEMMA HistoryAt ==
  ASSUME NEW p, History(p), NEW q, q.events = p.events, q.stacks = p.stacks,
         q.dump = p.dump, q.known = p.known
  PROVE  History(q)
BY DEF History

LEMMA RouteKey ==
  ASSUME PollsType, NEW id
  PROVE  Route(id) \in added \cup {NoTarget} /\ Route(id) \in Keys
BY DEF PollsType, Route, RouteIn, Keys

\* Steps of a poller.
LEMMA FetchPolls ==
  ASSUME PollInv, NEW k \in Keys, NEW dump \in Dumps, FetchDump(k, dump)
  PROVE  PollInv'
<1>. DEFINE p == IF mode = "recorder" THEN NoPoller ELSE poller[k]
            t == now + 1
            d == [dump |-> dump, ts |-> t]
<1>1. PollsType /\ Numbered /\ Histories /\ EngineShows
  BY DEF PollInv
<1>2. /\ now' = t /\ poller[k].at \in {"idle", "verifying"}
      /\ poller' = [poller EXCEPT ![k] = Polled(p, dump, t)]
      /\ observed' = [observed EXCEPT ![k] = Append(@, d)]
      /\ UNCHANGED <<targets, defaultID, added, adding, engine, sessions, upload,
                     client>>
  BY DEF FetchDump, registryVars, serverVars, requestVars
<1>3. t \in Nat \ {0}
  BY <1>1 DEF PollsType
<1>4. History(p)
  BY <1>1, HistoryNone DEF Histories
<1>. HIDE DEF p, t
<1>5. Polled(p, dump, t) \in PollerRecord /\ History(Polled(p, dump, t))
  BY <1>3, <1>4, PolledType
<1>6. Polled(p, dump, t).at = "loading"
  BY PolledIs
<1>. DEFINE q == Polled(p, dump, t)
<1>. HIDE DEF q
<1>7. /\ poller' \in [Keys -> PollerRecord] /\ poller'[k] = q
      /\ \A j \in Keys : j # k => poller'[j] = poller[j]
  BY <1>1, <1>2, <1>5 DEF PollsType, q
<1>8. PollsType'
  <2>1. observed' \in [Keys -> Seq([dump: Dumps, ts: Nat])]
    <3>1. d \in [dump: Dumps, ts: Nat]
      BY <1>3
    <3>. DEFINE D == [dump: Dumps, ts: Nat]
    <3>. HIDE DEF d, D
    <3>2. observed \in [Keys -> Seq(D)] /\ d \in D
      BY <1>1, <3>1 DEF PollsType, D
    <3>3. Append(observed[k], d) \in Seq(D)
      BY <3>2
    <3>4. observed' \in [Keys -> Seq(D)]
      BY <1>2, <3>2, <3>3
    <3>. QED
      BY <3>4 DEF D
  <2>. QED
    BY <1>1, <1>2, <1>3, <1>7, <2>1 DEF PollsType
<1>9. Numbered'
  BY <1>1, <1>2, <1>7 DEF Numbered
<1>10. Histories'
  BY <1>1, <1>5, <1>7 DEF Histories, q
<1>11. EngineShows'
  <2>1. q.at = "loading"
    BY <1>6 DEF q
  <2>. QED
    BY <1>1, <1>2, <1>7, <2>1 DEF EngineShows, ShowsPoll
<1>. QED
  BY <1>8, <1>9, <1>10, <1>11 DEF PollInv

LEMMA LoadPolls ==
  ASSUME PollInv, NEW k \in Keys, LoadDump(k)
  PROVE  PollInv' /\ engine'[k].version > engine[k].version
<1>1. PollsType /\ Numbered /\ Histories /\ EngineShows
  BY DEF PollInv
<1>. DEFINE p == poller[k]
            e == Loaded(engine[k], PollerSession(k), p.events, p.stacks)
<1>2. /\ p.at = "loading"
      /\ poller' = [poller EXCEPT ![k].at = "idle"]
      /\ engine' = [engine EXCEPT ![k] = e]
      /\ UNCHANGED <<targets, defaultID, added, adding, sessions, upload, client,
                     now, observed>>
  BY DEF LoadDump, registryVars, requestVars, clockVars
<1>3. PollerSession(k) \in Session /\ PollerSession(k).of = k
  BY DEF PollerSession, Session
<1>4. History(p)
  BY <1>1 DEF Histories
<1>5. /\ p.events \in Seq(Event) /\ p.stacks \in Seq(StackSnapshot)
      /\ \A i \in 1..Len(p.stacks) : p.stacks[i].gid \in Goroutine
  BY <1>4 DEF History
<1>6. engine[k] \in EngineRecord /\ p \in PollerRecord
  BY <1>1 DEF PollsType
<1>7. /\ e \in EngineRecord /\ e.session = PollerSession(k)
      /\ e.goroutines = SampleAll(Told(p.events), p.stacks)
      /\ e.version > engine[k].version
  <2>. HIDE DEF p
  <2>. QED
    BY <1>3, <1>5, <1>6, LoadedType
<1>. HIDE DEF e
<1>8. /\ engine' \in [Keys -> EngineRecord] /\ engine'[k] = e
      /\ \A j \in Keys : j # k => engine'[j] = engine[j]
  BY <1>1, <1>2, <1>7 DEF PollsType
<1>9. /\ poller' \in [Keys -> PollerRecord]
      /\ poller'[k] = [p EXCEPT !.at = "idle"]
      /\ \A j \in Keys : j # k => poller'[j] = poller[j]
  BY <1>1, <1>2 DEF PollsType, PollerRecord
<1>10. /\ poller'[k].events = p.events /\ poller'[k].stacks = p.stacks
       /\ poller'[k].dump = p.dump /\ poller'[k].known = p.known
       /\ poller'[k].at = "idle"
  BY <1>6, <1>9 DEF PollerRecord
<1>. HIDE DEF p
<1>11. PollsType'
  BY <1>1, <1>2, <1>8, <1>9 DEF PollsType
<1>12. Numbered'
  <2>1. /\ upload.session.of \in added \cup {NoTarget}
        /\ \A j \in Keys : engine[j].session.of \in added \cup {NoTarget}
        /\ \A j \in Keys :
             poller[j].at # "none" =>
               /\ j \in added \cup {NoTarget} /\ sessions[j].nextID # 0
               /\ upload.session # PollerSession(j)
    BY <1>1 DEF Numbered
  <2>2. p.at # "none"
    BY <1>2
  <2>3. k \in added \cup {NoTarget}
    BY <2>1, <2>2 DEF p
  <2>. QED
    BY <1>2, <1>3, <1>7, <1>8, <1>9, <2>1, <2>2, <2>3 DEF Numbered, p
<1>13. Histories'
  <2>1. History(poller'[k])
    BY <1>4, <1>10, HistoryAt
  <2>. QED
    BY <1>1, <1>9, <2>1 DEF Histories
<1>14. EngineShows'
  <2>1. ShowsHistory(engine'[k], poller'[k])
    BY <1>7, <1>8, <1>10 DEF ShowsHistory
  <2>2. ASSUME NEW j \in Keys, j # k, ShowsPoll(j)'
        PROVE  ShowsHistory(engine'[j], poller'[j])
    BY <1>1, <1>8, <1>9, <2>2 DEF EngineShows, ShowsPoll
  <2>. QED
    BY <2>1, <2>2 DEF EngineShows
<1>. QED
  BY <1>7, <1>8, <1>11, <1>12, <1>13, <1>14 DEF PollInv

LEMMA StopPolls ==
  ASSUME PollInv, NEW k \in Keys, StopPoller(k)
  PROVE  PollInv'
<1>1. PollsType /\ Numbered /\ Histories /\ EngineShows
  BY DEF PollInv
<1>. DEFINE p == poller[k]
<1>2. /\ p.at = "idle"
      /\ poller' = [poller EXCEPT ![k].at = "stopped"]
      /\ sessions' = sessions
           \/ sessions' = [sessions EXCEPT ![k] = Finished(@, "completed")]
      /\ UNCHANGED <<targets, defaultID, added, adding, engine, upload, client,
                     now, observed>>
  BY DEF StopPoller, registryVars, serverVars, requestVars, clockVars
<1>3. p \in PollerRecord /\ sessions[k] \in ManagerRecord
  BY <1>1 DEF PollsType
<1>4. /\ poller' \in [Keys -> PollerRecord]
      /\ poller'[k] = [p EXCEPT !.at = "stopped"]
      /\ \A j \in Keys : j # k => poller'[j] = poller[j]
  BY <1>1, <1>2 DEF PollsType, PollerRecord
<1>5. /\ poller'[k].events = p.events /\ poller'[k].stacks = p.stacks
      /\ poller'[k].dump = p.dump /\ poller'[k].known = p.known
      /\ poller'[k].at = "stopped"
  BY <1>3, <1>4 DEF PollerRecord
<1>6. /\ sessions' \in [Keys -> ManagerRecord]
      /\ \A j \in Keys : sessions'[j].nextID = sessions[j].nextID
  <2>. DEFINE m == Finished(sessions[k], "completed")
  <2>1. m \in ManagerRecord /\ m.nextID = sessions[k].nextID
    BY <1>3, FinishedIs
  <2>. HIDE DEF m
  <2>2. sessions' = sessions \/ sessions' = [sessions EXCEPT ![k] = m]
    BY <1>2 DEF m
  <2>. QED
    BY <1>1, <2>1, <2>2 DEF PollsType
<1>. HIDE DEF p
<1>7. PollsType'
  BY <1>1, <1>2, <1>4, <1>6 DEF PollsType
<1>8. Numbered'
  BY <1>1, <1>2, <1>4, <1>5, <1>6 DEF Numbered, p
<1>9. Histories'
  <2>1. History(poller'[k])
    BY <1>1, <1>5, HistoryAt DEF Histories, p
  <2>. QED
    BY <1>1, <1>4, <2>1 DEF Histories
<1>10. EngineShows'
  <2>1. ASSUME NEW j \in Keys, ShowsPoll(j)'
        PROVE  ShowsHistory(engine'[j], poller'[j])
    <3>1. ShowsPoll(j)
      BY <1>2, <1>4, <2>1 DEF ShowsPoll, p
    <3>2. ShowsHistory(engine[j], poller[j])
      BY <1>1, <3>1 DEF EngineShows
    <3>3. /\ poller'[j].events = poller[j].events
          /\ poller'[j].stacks = poller[j].stacks
      BY <1>4, <1>5 DEF p
    <3>. QED
      BY <1>2, <3>2, <3>3 DEF ShowsHistory
  <2>. QED
    BY <2>1 DEF EngineShows
<1>. QED
  BY <1>7, <1>8, <1>9, <1>10 DEF PollInv

\* Steps of the registry.
LEMMA AddPolls ==
  ASSUME PollInv, NEW k \in Target, AddStart(k)
  PROVE  PollInv'
<1>1. PollsType /\ Numbered /\ Histories /\ EngineShows
  BY DEF PollInv
<1>. DEFINE p == poller[k]
<1>2. /\ k \notin added /\ added' = added \cup {k} /\ adding' = adding \cup {k}
      /\ sessions' = [sessions EXCEPT ![k] = Started(@)]
      /\ poller' = [poller EXCEPT ![k].at = "idle"]
      /\ UNCHANGED <<upload, client, targets, defaultID, engine, now, observed>>
  BY DEF AddStart, serverVars, requestVars, clockVars
<1>3. p \in PollerRecord /\ sessions[k] \in ManagerRecord /\ k \in Keys
  BY <1>1 DEF PollsType, Keys
<1>4. /\ poller' \in [Keys -> PollerRecord]
      /\ poller'[k] = [p EXCEPT !.at = "idle"]
      /\ \A j \in Keys : j # k => poller'[j] = poller[j]
  BY <1>1, <1>2, <1>3 DEF PollsType, PollerRecord
<1>5. /\ poller'[k].events = p.events /\ poller'[k].stacks = p.stacks
      /\ poller'[k].dump = p.dump /\ poller'[k].known = p.known
      /\ poller'[k].at = "idle"
  BY <1>3, <1>4 DEF PollerRecord
<1>6. /\ sessions' \in [Keys -> ManagerRecord] /\ sessions'[k].nextID # 0
      /\ \A j \in Keys : j # k => sessions'[j] = sessions[j]
  <2>. DEFINE m == Started(sessions[k])
  <2>1. m \in ManagerRecord /\ m.nextID # 0
    <3>1. m \in ManagerRecord /\ m.nextID = sessions[k].nextID + 1
      BY <1>3, StartedIs
    <3>2. sessions[k].nextID \in Nat
      BY <1>3 DEF ManagerRecord
    <3>. QED
      BY ONLY <3>1, <3>2
  <2>. HIDE DEF m
  <2>2. sessions' = [sessions EXCEPT ![k] = m]
    BY <1>2 DEF m
  <2>. QED
    BY <1>1, <1>3, <2>1, <2>2 DEF PollsType
<1>7. /\ upload.session # PollerSession(k) /\ engine[k].session # PollerSession(k)
  <2>1. PollerSession(k).of = k /\ k # NoTarget
    BY TargetAssumption DEF PollerSession
  <2>. QED
    BY <1>1, <1>2, <1>3, <2>1 DEF Numbered
<1>. HIDE DEF p
<1>8. PollsType'
  BY <1>1, <1>2, <1>4, <1>6 DEF PollsType
<1>9. Numbered'
  BY <1>1, <1>2, <1>4, <1>6, <1>7 DEF Numbered
<1>10. Histories'
  <2>1. History(poller'[k])
    BY <1>1, <1>3, <1>5, HistoryAt DEF Histories, p
  <2>. QED
    BY <1>1, <1>4, <2>1 DEF Histories
<1>11. EngineShows'
  <2>1. ASSUME NEW j \in Keys, ShowsPoll(j)'
        PROVE  ShowsHistory(engine'[j], poller'[j])
    <3>1. j # k
      BY <1>2, <1>7, <2>1 DEF ShowsPoll
    <3>2. ShowsPoll(j)
      BY <1>2, <1>4, <2>1, <3>1 DEF ShowsPoll
    <3>. QED
      BY <1>1, <1>2, <1>4, <3>1, <3>2 DEF EngineShows
  <2>. QED
    BY <2>1 DEF EngineShows
<1>. QED
  BY <1>8, <1>9, <1>10, <1>11 DEF PollInv

\* Steps that leave the pollers, the engines and the sessions' numbers alone.
LEMMA OtherPolls ==
  ASSUME PollInv, UNCHANGED <<poller, engine, upload, now, observed, added>>,
         sessions' \in [Keys -> ManagerRecord],
         \A k \in Keys : sessions'[k].nextID = sessions[k].nextID,
         client' \in ClientRecord,
         targets' \subseteq added, adding' \subseteq added,
         defaultID' \in added \cup {NoTarget}
  PROVE  PollInv'
<1>1. PollsType /\ Numbered /\ Histories /\ EngineShows
  BY DEF PollInv
<1>2. PollsType'
  BY <1>1 DEF PollsType
<1>3. Numbered'
  BY <1>1 DEF Numbered
<1>4. Histories'
  BY <1>1 DEF Histories
<1>5. EngineShows'
  BY <1>1 DEF EngineShows, ShowsPoll
<1>. QED
  BY <1>2, <1>3, <1>4, <1>5 DEF PollInv

\* A step of the registry only marks the client's answers.
LEMMA RerouteIs ==
  ASSUME client \in ClientRecord, Reroute
  PROVE  /\ client' \in ClientRecord
         /\ client'.asks = client.asks /\ client'.reading = client.reading
         /\ client'.newTag = client.newTag /\ client'.tag = client.tag
         /\ client'.body = client.body
         /\ ~ client'.rerouted => ~ client.rerouted
         /\ ~ client'.newRerouted => ~ client.newRerouted
         /\ ~ client'.rerouted \/ ~ client'.newRerouted =>
              RouteIn(targets', defaultID', client.asks) = Route(client.asks)
<1>. DEFINE other == RouteIn(targets', defaultID', client.asks) # Route(client.asks)
<1>1. client' = [client EXCEPT !.rerouted = client.rerouted \/ other,
                               !.newRerouted = client.newRerouted \/ other]
  BY DEF Reroute
<1>2. other \in BOOLEAN
  OBVIOUS
<1>. HIDE DEF other
<1>3. /\ client' \in ClientRecord
      /\ client'.asks = client.asks /\ client'.reading = client.reading
      /\ client'.newTag = client.newTag /\ client'.tag = client.tag
      /\ client'.body = client.body
      /\ client'.rerouted = (client.rerouted \/ other)
      /\ client'.newRerouted = (client.newRerouted \/ other)
  BY <1>1, <1>2 DEF ClientRecord
<1>. QED
  BY <1>3 DEF other

\* Requests.
LEMMA AnswerType ==
  ASSUME PollsType
  PROVE  Route(client.asks) \in Keys /\ Answering \in EngineRecord
<1>1. Route(client.asks) \in Keys
  BY RouteKey
<1>. QED
  BY <1>1 DEF Answering, PollsType

LEMMA ReadBodyPolls ==
  ASSUME PollInv, ReadBody
  PROVE  PollInv'
<1>1. PollsType
  BY DEF PollInv
<1>2. /\ client' = [client EXCEPT
                      !.reading = FALSE, !.newTag = 0, !.newRerouted = FALSE,
                      !.tag = client.newTag, !.body = Answering.goroutines,
                      !.rerouted = client.newRerouted]
      /\ UNCHANGED <<poller, engine, upload, now, observed, added, targets, adding,
                     defaultID, sessions>>
  BY DEF ReadBody, registryVars, serverVars, clockVars
<1>4. Answering.goroutines \in GoroutineMap
  BY <1>1, AnswerType DEF EngineRecord
<1>5. client' \in ClientRecord
  BY <1>1, <1>2, <1>4 DEF PollsType, ClientRecord
<1>. QED
  BY <1>1, <1>2, <1>5, OtherPolls DEF PollsType

LEMMA ReadVersionPolls ==
  ASSUME PollInv, ReadVersion
  PROVE  PollInv'
<1>1. PollsType
  BY DEF PollInv
<1>2. /\ client' = [client EXCEPT !.reading = TRUE, !.newTag = Answering.version,
                                  !.newRerouted = FALSE]
      /\ UNCHANGED <<poller, engine, upload, now, observed, added, targets, adding,
                     defaultID, sessions>>
  BY DEF ReadVersion, registryVars, serverVars, clockVars
<1>3. Answering.version \in Nat
  BY <1>1, AnswerType DEF EngineRecord
<1>4. client' \in ClientRecord
  BY <1>1, <1>2, <1>3 DEF PollsType, ClientRecord
<1>. QED
  BY <1>1, <1>2, <1>4, OtherPolls DEF PollsType

LEMMA UploadStartPolls ==
  ASSUME PollInv, NEW id \in Asked, NEW events \in Uploads, UploadStart(id, events)
  PROVE  PollInv'
<1>1. PollsType /\ Numbered /\ Histories /\ EngineShows
  BY DEF PollInv
<1>. DEFINE k == Route(id)
            n == sessions'[k].current.id
<1>2. /\ sessions' = [sessions EXCEPT ![k] = Started(@)]
      /\ upload' = [at |-> "load", asks |-> id, events |-> events,
                    session |-> [of |-> k, id |-> n]]
      /\ UNCHANGED <<poller, engine, now, observed, added, targets, adding,
                     defaultID, client>>
  BY DEF UploadStart, registryVars, serverVars, clockVars
<1>3. k \in Keys /\ k \in added \cup {NoTarget}
  BY <1>1, RouteKey
<1>. HIDE DEF k
<1>4. /\ sessions' \in [Keys -> ManagerRecord] /\ sessions'[k].nextID # 0
      /\ n = sessions[k].nextID + 1 /\ n \in Nat
      /\ \A j \in Keys : j # k => sessions'[j] = sessions[j]
  <2>. DEFINE m == Started(sessions[k])
  <2>1. sessions[k] \in ManagerRecord /\ sessions[k].nextID \in Nat
    BY <1>1, <1>3 DEF PollsType, ManagerRecord
  <2>2. /\ m \in ManagerRecord /\ m.nextID = sessions[k].nextID + 1
        /\ m.current.id = sessions[k].nextID + 1
    BY <2>1, StartedIs
  <2>3. sessions' = [sessions EXCEPT ![k] = m]
    BY <1>2
  <2>. HIDE DEF m
  <2>4. /\ sessions' \in [Keys -> ManagerRecord] /\ sessions'[k] = m
        /\ \A j \in Keys : j # k => sessions'[j] = sessions[j]
    BY <1>1, <1>3, <2>2, <2>3 DEF PollsType
  <2>. QED
    BY <2>1, <2>2, <2>4
<1>. HIDE DEF n
<1>5. events \in Seq(Event)
  BY InputAssumption
<1>6. upload' \in UploadRecord /\ upload'.session = [of |-> k, id |-> n]
  BY <1>2, <1>3, <1>4, <1>5 DEF UploadRecord, Session
<1>7. PollsType'
  BY <1>1, <1>2, <1>4, <1>6 DEF PollsType
<1>8. Numbered'
  <2>1. ASSUME NEW j \in Keys, poller[j].at # "none"
        PROVE  /\ j \in added \cup {NoTarget} /\ sessions'[j].nextID # 0
               /\ upload'.session # PollerSession(j)
    <3>1. j \in added \cup {NoTarget} /\ sessions[j].nextID # 0
      BY <1>1, <2>1 DEF Numbered
    <3>2. sessions[j].nextID \in Nat
      BY <1>1 DEF PollsType, ManagerRecord
    <3>3. CASE j = k
      <4>1. n # 1
        BY <1>4, <3>1, <3>2, <3>3
      <4>. QED
        BY <1>4, <1>6, <3>1, <3>3, <4>1 DEF PollerSession
    <3>4. CASE j # k
      BY <1>4, <1>6, <3>1, <3>4 DEF PollerSession
    <3>. QED
      BY <3>3, <3>4
  <2>. QED
    BY <1>1, <1>2, <1>3, <1>6, <2>1 DEF Numbered
<1>9. Histories'
  BY <1>1, <1>2 DEF Histories
<1>10. EngineShows'
  BY <1>1, <1>2 DEF EngineShows, ShowsPoll
<1>. QED
  BY <1>7, <1>8, <1>9, <1>10 DEF PollInv

LEMMA UploadLoadPolls ==
  ASSUME PollInv, UploadLoad
  PROVE  PollInv' /\ \A k \in Keys : \/ engine'[k] = engine[k]
                                     \/ engine'[k].version > engine[k].version
<1>1. PollsType /\ Numbered /\ Histories /\ EngineShows
  BY DEF PollInv
<1>. DEFINE k == Route(upload.asks)
            none == <<>>
            e == Loaded(engine[k], upload.session, upload.events, none)
<1>2. /\ engine' = [engine EXCEPT ![k] = e]
      /\ upload' = [upload EXCEPT !.at = "idle", !.asks = NoTarget, !.events = <<>>,
                                  !.session = NoSession]
      /\ UNCHANGED <<poller, sessions, now, observed, added, targets, adding,
                     defaultID, client>>
  BY DEF UploadLoad, registryVars, serverVars, clockVars
<1>3. k \in Keys
  BY <1>1, RouteKey
<1>. HIDE DEF k
<1>4. /\ upload.session \in Session /\ upload.events \in Seq(Event)
      /\ engine[k] \in EngineRecord
  BY <1>1, <1>3 DEF PollsType, UploadRecord
<1>5. none \in Seq(StackSnapshot) /\ \A i \in 1..Len(none) : none[i].gid \in Goroutine
  OBVIOUS
<1>. HIDE DEF none
<1>6. /\ e \in EngineRecord /\ e.session = upload.session
      /\ e.version > engine[k].version
  BY <1>4, <1>5, LoadedType
<1>. HIDE DEF e
<1>7. /\ engine' \in [Keys -> EngineRecord] /\ engine'[k] = e
      /\ \A j \in Keys : j # k => engine'[j] = engine[j]
  BY <1>1, <1>2, <1>3, <1>6 DEF PollsType
<1>8. upload' \in UploadRecord /\ upload'.session = NoSession
  <2>1. NoSession \in Session /\ <<>> \in Seq(Event)
    BY DEF NoSession, Session, Keys
  <2>. QED
    BY <1>1, <1>2, <2>1 DEF PollsType, UploadRecord
<1>9. PollsType'
  BY <1>1, <1>2, <1>7, <1>8 DEF PollsType
<1>10. Numbered'
  <2>1. NoSession.of = NoTarget /\ \A j \in Keys : NoSession # PollerSession(j)
    BY DEF NoSession, PollerSession
  <2>. QED
    BY <1>1, <1>2, <1>6, <1>7, <1>8, <2>1 DEF Numbered
<1>11. Histories'
  BY <1>1, <1>2 DEF Histories
<1>12. EngineShows'
  <2>1. ASSUME NEW j \in Keys, ShowsPoll(j)'
        PROVE  ShowsHistory(engine'[j], poller'[j])
    <3>1. poller[j].at # "none"
      BY <1>2, <2>1 DEF ShowsPoll
    <3>2. upload.session # PollerSession(j)
      BY <1>1, <3>1 DEF Numbered
    <3>3. j # k
      BY <1>6, <1>7, <2>1, <3>2 DEF ShowsPoll
    <3>4. ShowsPoll(j) /\ engine'[j] = engine[j]
      BY <1>2, <1>7, <2>1, <3>3 DEF ShowsPoll
    <3>. QED
      BY <1>1, <1>2, <3>4 DEF EngineShows
  <2>. QED
    BY <2>1 DEF EngineShows
<1>. QED
  BY <1>6, <1>7, <1>9, <1>10, <1>11, <1>12 DEF PollInv

LEMMA PollStep == PollInv /\ [Next]_vars => PollInv'
<1>. SUFFICES ASSUME PollInv, [Next]_vars PROVE PollInv'
  OBVIOUS
<1>1. PollsType
  BY DEF PollInv
<1>2. ASSUME NEW k \in Keys, Poll(k) PROVE PollInv'
  BY <1>2, FetchPolls, LoadPolls, StopPolls DEF Poll
<1>3. ASSUME NEW t \in Target, AddStart(t) PROVE PollInv'
  BY <1>3, AddPolls
<1>4. ASSUME NEW t \in Target, AddRegister(t) PROVE PollInv'
  <2>1. /\ t \in adding /\ targets' = targets \cup {t} /\ adding' = adding \ {t}
        /\ defaultID' \in {defaultID, t}
        /\ Reroute
        /\ UNCHANGED <<poller, engine, upload, now, observed, added, sessions>>
    BY <1>4 DEF AddRegister, serverVars, clockVars
  <2>2. /\ targets' \subseteq added /\ adding' \subseteq added
        /\ defaultID' \in added \cup {NoTarget}
        /\ client' \in ClientRecord
    BY <1>1, <2>1, RerouteIs DEF PollsType
  <2>. QED
    BY <1>1, <2>1, <2>2, OtherPolls DEF PollsType
<1>5. ASSUME NEW t \in Target, RemoveTarget(t) PROVE PollInv'
  <2>1. /\ targets' = targets \ {t} /\ defaultID' \in DefaultsWithout(t)
        /\ Reroute
        /\ UNCHANGED <<poller, engine, upload, now, observed, added, adding, sessions>>
    BY <1>5 DEF RemoveTarget, serverVars, clockVars
  <2>2. defaultID' \in targets \cup {defaultID, NoTarget}
    BY <2>1 DEF DefaultsWithout
  <2>3. /\ targets' \subseteq added /\ adding' \subseteq added
        /\ defaultID' \in added \cup {NoTarget}
        /\ client' \in ClientRecord
    BY <1>1, <2>1, <2>2, RerouteIs DEF PollsType
  <2>. QED
    BY <1>1, <2>1, <2>3, OtherPolls DEF PollsType
<1>6. CASE ReadVersion
  BY <1>6, ReadVersionPolls
<1>7. CASE ReadBody
  BY <1>7, ReadBodyPolls
<1>8. ASSUME NEW id \in Asked, NEW events \in Uploads, UploadStart(id, events)
      PROVE  PollInv'
  BY <1>8, UploadStartPolls
<1>9. CASE UploadLoad
  BY <1>9, UploadLoadPolls
<1>10. CASE VerifyFails \/ Interrupt \/ UNCHANGED vars
  <2>1. UNCHANGED <<poller, engine, upload, now, observed, added, adding, targets,
                    defaultID, sessions, client>>
    BY <1>10 DEF VerifyFails, Interrupt, vars, registryVars, requestVars, clockVars
  <2>. QED
    BY <1>1, <2>1, OtherPolls DEF PollsType
<1>11. CASE Exit
  <2>. DEFINE m == Finished(sessions[NoTarget], "completed")
  <2>1. /\ sessions' = [sessions EXCEPT ![NoTarget] = m]
        /\ UNCHANGED <<poller, engine, upload, now, observed, added, adding, targets,
                       defaultID, client>>
    BY <1>11 DEF Exit, registryVars, requestVars, clockVars
  <2>2. NoTarget \in Keys /\ sessions[NoTarget] \in ManagerRecord
    BY <1>1 DEF PollsType, Keys
  <2>3. m \in ManagerRecord /\ m.nextID = sessions[NoTarget].nextID
    BY <2>2, FinishedIs
  <2>. HIDE DEF m
  <2>4. /\ sessions' \in [Keys -> ManagerRecord]
        /\ \A k \in Keys : sessions'[k].nextID = sessions[k].nextID
    BY <1>1, <2>1, <2>2, <2>3 DEF PollsType
  <2>. QED
    BY <1>1, <2>1, <2>4, OtherPolls DEF PollsType
<1>. QED
  BY <1>2, <1>3, <1>4, <1>5, <1>6, <1>7, <1>8, <1>9, <1>10, <1>11 DEF Next

LEMMA PollsInv == Spec => []PollInv
BY PollInit, PollStep, PTL DEF Spec

\* The engine of a target shows its poller's latest dump, whatever was polled,
\* uploaded, added and removed before and however long the history it is rebuilt
\* from has become.
THEOREM EngineShowsLatestDump == Spec => []ShownIsDump
<1>1. PollInv => ShownIsDump
  <2>. SUFFICES ASSUME PollInv, NEW k \in Keys, ShowsPoll(k)
                PROVE  ShowsDump(poller[k].dump, engine[k].goroutines)
    BY DEF ShownIsDump, ShowsDump
  <2>1. History(poller[k]) /\ ShowsHistory(engine[k], poller[k])
    BY DEF PollInv, Histories, EngineShows
  <2>2. ShowsDump(poller[k].dump, SampleAll(Told(poller[k].events), poller[k].stacks))
    BY <2>1, HistoryShown
  <2>. QED
    BY <2>1, <2>2 DEF ShowsHistory
<1>. QED
  BY <1>1, PollsInv, PTL

-----------------------------------------------------------------------------
(* Waits *)

WaitOf(p, seen) ==
  mode # "recorder" =>
    \A g \in DOMAIN p.dump : Waited(Told(p.events)[g], seen, g)

Watched(k) ==
  /\ Seen(poller[k], observed[k])
  /\ \A i \in 1..Len(observed[k]) : observed[k][i].ts <= now
  /\ WaitOf(poller[k], observed[k])

WaitInv == \A k \in Keys : Watched(k)

LEMMA WaitInit == Init => WaitInv
<1>. SUFFICES ASSUME Init, NEW k \in Keys PROVE Watched(k)
  BY DEF WaitInv
<1>1. poller[k].dump = <<>> /\ observed[k] = <<>>
  BY DEF Init, NoPoller
<1>2. Len(<<>>) = 0 /\ DOMAIN <<>> = {}
  OBVIOUS
<1>. QED
  BY ONLY <1>1, <1>2 DEF Watched, Seen, WaitOf

\* A poller and its dumps that a step leaves alone, but for the poller's place.
LEMMA WatchedStays ==
  ASSUME NEW k \in Keys, Watched(k), now' = now, mode' = mode,
         observed'[k] = observed[k], poller'[k].dump = poller[k].dump,
         poller'[k].events = poller[k].events
  PROVE  Watched(k)'
BY DEF Watched, Seen, WaitOf

LEMMA FetchWaits ==
  ASSUME PollInv, WaitInv, NEW k \in Keys, NEW dump \in Dumps, FetchDump(k, dump)
  PROVE  WaitInv'
<1>. DEFINE p == IF mode = "recorder" THEN NoPoller ELSE poller[k]
            t == now + 1
            d == [dump |-> dump, ts |-> t]
            D == [dump: Dumps, ts: Nat]
            seen == observed[k]
            q == Polled(p, dump, t)
<1>1. /\ now' = t /\ mode' = mode
      /\ poller' = [poller EXCEPT ![k] = q]
      /\ observed' = [observed EXCEPT ![k] = Append(seen, d)]
  BY DEF FetchDump, serverVars
<1>2. PollsType /\ now \in Nat /\ t \in Nat \ {0} /\ now < t
  <2>1. PollsType /\ now \in Nat
    BY DEF PollInv, PollsType
  <2>. QED
    BY ONLY <2>1 DEF t
<1>. HIDE DEF t
<1>3. /\ d \in D /\ d.dump = dump /\ d.ts = t
      /\ IsDump(dump) /\ seen \in Seq(D)
  BY <1>2, InputAssumption DEF PollsType
<1>4. Watched(k)
  BY DEF WaitInv
<1>5. q.dump = dump
  BY PolledIs
<1>. HIDE DEF d, D, q
<1>6. /\ poller'[k] = q /\ observed'[k] = Append(seen, d)
      /\ \A j \in Keys : j # k => poller'[j] = poller[j] /\ observed'[j] = observed[j]
  BY <1>1, <1>2 DEF PollsType
<1>7. /\ \A i \in 1..Len(seen) : seen[i].ts \in Nat \ {0}
      /\ \A i \in 1..Len(seen) : seen[i].ts <= now
  BY <1>4 DEF Watched, Seen
<1>8. \A i \in 1..Len(seen) : seen[i].ts < t
  BY <1>2, <1>7
<1>. DEFINE new == Append(seen, d)
<1>9. /\ Len(new) \in Nat /\ Len(new) # 0 /\ new[Len(new)] = d
      /\ \A i \in 1..Len(new) : new[i].ts \in Nat \ {0} /\ new[i].ts <= t
  <2>1. /\ Len(new) = Len(seen) + 1 /\ new[Len(seen) + 1] = d /\ Len(seen) \in Nat
        /\ \A i \in 1..Len(seen) : new[i] = seen[i]
        /\ \A i \in 1..(Len(seen) + 1) : i \in 1..Len(seen) \/ i = Len(seen) + 1
    BY <1>3
  <2>2. d.ts \in Nat \ {0} /\ d.ts <= t
    BY <1>2, <1>3
  <2>3. ASSUME NEW i \in 1..Len(new)
        PROVE  new[i].ts \in Nat \ {0} /\ new[i].ts <= t
    <3>. HIDE DEF new
    <3>1. CASE i \in 1..Len(seen)
      BY <1>2, <1>7, <1>8, <2>1, <3>1
    <3>2. CASE i = Len(seen) + 1
      BY <2>1, <2>2, <3>2
    <3>. QED
      BY <2>1, <3>1, <3>2
  <2>. HIDE DEF new
  <2>. QED
    BY <2>1, <2>3
<1>. HIDE DEF new
<1>10. Seen(q, new)
  BY <1>3, <1>5, <1>9 DEF Seen
<1>11. ASSUME mode # "recorder"
       PROVE  \A g \in DOMAIN q.dump : Waited(Told(q.events)[g], new, g)
  <2>1. p = poller[k]
    BY <1>11
  <2>2. History(poller[k])
    BY DEF PollInv, Histories
  <2>3. /\ Seen(poller[k], seen)
        /\ \A g \in DOMAIN poller[k].dump :
             Waited(Told(poller[k].events)[g], seen, g)
    BY <1>4, <1>11 DEF Watched, WaitOf
  <2>4. q = Polled(poller[k], d.dump, d.ts)
    BY <1>3, <2>1 DEF q
  <2>5. IsDump(d.dump) /\ d.ts \in Nat \ {0} /\ \A i \in 1..Len(seen) : seen[i].ts < d.ts
    BY <1>2, <1>3, <1>8
  <2>. HIDE DEF seen
  <2>. QED
    BY ONLY <1>3, <2>2, <2>3, <2>4, <2>5, WaitedPolled DEF new
<1>12. ASSUME NEW j \in Keys PROVE Watched(j)'
  <2>1. CASE j = k
    <3>1. poller'[j] = q /\ observed'[j] = new
      BY <1>6, <2>1 DEF new
    <3>. QED
      BY <1>1, <1>9, <1>10, <1>11, <3>1 DEF Watched, WaitOf
  <2>2. CASE j # k
    <3>1. /\ Watched(j) /\ poller'[j] = poller[j] /\ observed'[j] = observed[j]
          /\ now' = t
      BY <1>1, <1>6, <2>2 DEF WaitInv
    <3>2. \A i \in 1..Len(observed[j]) : observed[j][i].ts <= t
      BY <1>2, <3>1 DEF Watched, Seen
    <3>. QED
      BY <1>1, <3>1, <3>2 DEF Watched, WaitOf
  <2>. QED
    BY <2>1, <2>2
<1>. QED
  BY <1>12 DEF WaitInv

LEMMA WaitStep == PollInv /\ WaitInv /\ [Next]_vars => WaitInv'
<1>. SUFFICES ASSUME PollInv, WaitInv, [Next]_vars PROVE WaitInv'
  OBVIOUS
<1>1. PollsType /\ \A k \in Keys : Watched(k) /\ poller[k] \in PollerRecord
  BY DEF PollInv, PollsType, WaitInv
<1>2. ASSUME NEW k \in Keys, NEW dump \in Dumps, FetchDump(k, dump) PROVE WaitInv'
  BY <1>2, FetchWaits
<1>3. ASSUME UNCHANGED <<now, mode, observed>>,
             \/ UNCHANGED poller
             \/ \E k \in Keys, at \in {"idle", "stopped"} :
                  poller' = [poller EXCEPT ![k].at = at]
      PROVE  WaitInv'
  <2>1. ASSUME NEW j \in Keys
        PROVE  /\ poller'[j].dump = poller[j].dump
               /\ poller'[j].events = poller[j].events
    <3>1. poller \in [Keys -> PollerRecord] /\ poller[j] \in PollerRecord
      BY <1>1 DEF PollsType
    <3>2. CASE UNCHANGED poller
      BY <3>2
    <3>3. ASSUME NEW k \in Keys, NEW at \in {"idle", "stopped"},
                 poller' = [poller EXCEPT ![k].at = at]
          PROVE  /\ poller'[j].dump = poller[j].dump
                 /\ poller'[j].events = poller[j].events
      <4>1. poller'[j] = IF j = k THEN [poller[j] EXCEPT !.at = at] ELSE poller[j]
        BY <3>1, <3>3
      <4>. QED
        BY <3>1, <4>1 DEF PollerRecord
    <3>. QED
      BY <1>3, <3>2, <3>3
  <2>. QED
    BY <1>1, <1>3, <2>1, WatchedStays DEF WaitInv
<1>4. ASSUME NEW k \in Keys, LoadDump(k) \/ StopPoller(k) PROVE WaitInv'
  BY <1>3, <1>4 DEF LoadDump, StopPoller, serverVars, clockVars
<1>5. ASSUME NEW t \in Target, AddStart(t) PROVE WaitInv'
  BY <1>3, <1>5 DEF AddStart, Keys, serverVars, clockVars
<1>6. ASSUME NEW t \in Target, AddRegister(t) \/ RemoveTarget(t) PROVE WaitInv'
  BY <1>3, <1>6 DEF AddRegister, RemoveTarget, serverVars, clockVars
<1>7. ASSUME NEW id \in Asked, NEW events \in Uploads, UploadStart(id, events)
      PROVE  WaitInv'
  BY <1>3, <1>7 DEF UploadStart, serverVars, clockVars
<1>8. CASE ReadVersion \/ ReadBody \/ UploadLoad
  BY <1>3, <1>8 DEF ReadVersion, ReadBody, UploadLoad, serverVars, clockVars
<1>9. CASE VerifyFails \/ Interrupt \/ Exit \/ UNCHANGED vars
  BY <1>3, <1>9 DEF VerifyFails, Interrupt, Exit, vars, serverVars, clockVars
<1>. QED
  BY <1>2, <1>4, <1>5, <1>6, <1>7, <1>8, <1>9 DEF Next, Poll

\* A pprof target's wait times go back to the first dump of the wait, although
\* each poll resets the engine and rebuilds it from the poller's history.
THEOREM WaitTimesSurvive == Spec => []WaitsSurviveReloads
<1>1. PollInv /\ WaitInv => WaitsSurviveReloads
  <2>. SUFFICES ASSUME PollInv, WaitInv, NEW k \in Keys, ShowsPoll(k),
                       mode # "recorder", NEW g \in DOMAIN poller[k].dump
                PROVE  engine[k].goroutines[g].waitNS =
                         IF isWaitState(poller[k].dump[g].state)
                         THEN LastPoll(k) - WaitingSince(observed[k], g) ELSE 0
    BY DEF WaitsSurviveReloads
  <2>. DEFINE p == poller[k]
              seen == observed[k]
              n == Len(seen)
              r == Told(p.events)[g]
  <2>1. History(p) /\ ShowsHistory(engine[k], p)
    BY DEF PollInv, Histories, EngineShows
  <2>2. engine[k].goroutines[g].waitNS = r.waitNS
    <3>1. SameStay(r, SampleAll(Told(p.events), p.stacks)[g])
      BY <2>1, HistoryShown
    <3>2. engine[k].goroutines = SampleAll(Told(p.events), p.stacks)
      BY <2>1 DEF ShowsHistory
    <3>. HIDE DEF r, p
    <3>. QED
      BY ONLY <3>1, <3>2 DEF SameStay
  <2>3. /\ Waited(r, seen, g) /\ Len(seen) \in Nat
        /\ p.dump = IF n = 0 THEN <<>> ELSE seen[n].dump
    BY DEF WaitInv, Watched, WaitOf, Seen
  <2>4. p.dump = seen[n].dump
    BY <2>3
  <2>. HIDE DEF r
  <2>5. CASE ~ isWaitState(p.dump[g].state)
    BY <2>2, <2>3, <2>4, <2>5 DEF Waited
  <2>6. CASE isWaitState(p.dump[g].state)
    <3>1. PICK s \in 1..n : /\ IsSince(s, seen, g, n)
                            /\ r.waitNS = seen[n].ts - seen[s].ts
      BY <2>3, <2>4, <2>6 DEF Waited
    <3>2. WaitingSince(seen, g) = seen[s].ts
      BY <2>3, <3>1, WaitingSinceIs
    <3>. QED
      BY <2>2, <2>6, <3>1, <3>2 DEF LastPoll
  <2>. QED
    BY <2>5, <2>6
<1>2. PollInv /\ WaitInv /\ [Next]_vars => (PollInv /\ WaitInv)'
  BY PollStep, WaitStep
<1>. QED
  BY <1>1, <1>2, PollInit, WaitInit, PTL DEF Spec

-----------------------------------------------------------------------------
(* Versions *)

\* No load lowers an engine's version, and one that changes it raises it.
Grows ==
  \A k \in Keys : \/ engine'[k] = engine[k]
                  \/ engine'[k].version > engine[k].version

LEMMA EngineGrows == PollInv /\ [Next]_vars => Grows
<1>. SUFFICES ASSUME PollInv, [Next]_vars PROVE Grows
  OBVIOUS
<1>1. CASE UNCHANGED engine
  BY <1>1 DEF Grows
<1>2. ASSUME NEW k \in Keys, LoadDump(k) PROVE Grows
  <2>1. engine'[k].version > engine[k].version
    BY <1>2, LoadPolls
  <2>2. /\ engine \in [Keys -> EngineRecord]
        /\ \E e : engine' = [engine EXCEPT ![k] = e]
    BY <1>2 DEF LoadDump, PollInv, PollsType
  <2>3. \A j \in Keys : j # k => engine'[j] = engine[j]
    BY <2>2
  <2>. QED
    BY <2>1, <2>3 DEF Grows
<1>3. CASE UploadLoad
  BY <1>3, UploadLoadPolls DEF Grows
<1>4. ASSUME NEW k \in Keys, Poll(k) PROVE Grows
  BY <1>1, <1>2, <1>4 DEF Poll, FetchDump, StopPoller
<1>. QED
  BY <1>1, <1>3, <1>4 DEF Next, VerifyFails, AddStart, AddRegister, RemoveTarget,
     ReadVersion, ReadBody, UploadStart, Interrupt, Exit, vars

\* While the client's target is not changed, the versions it has read of its engine
\* are no newer than the engine, and a tag that is its version stands for its list.
TagInv ==
  /\ ~ client.rerouted =>
       /\ client.tag <= Answering.version
       /\ NotModified => client.body = Answering.goroutines
  /\ client.reading /\ ~ client.newRerouted => client.newTag <= Answering.version

\* Whatever the engines do, if it only raises versions, copies stay honest ...
LEMMA TagsStay ==
  ASSUME PollInv, TagInv, Grows, PollsType', UNCHANGED <<client, targets, defaultID>>
  PROVE  TagInv'
<1>. DEFINE a == Answering
            b == Answering'
<1>1. PollsType
  BY DEF PollInv
<1>2. /\ Route(client.asks) \in Keys /\ Route(client.asks)' = Route(client.asks)
      /\ a \in EngineRecord
  BY <1>1, AnswerType DEF Route, RouteIn
<1>3. b = engine'[Route(client.asks)] /\ a = engine[Route(client.asks)]
  BY <1>2 DEF Answering
<1>4. b = a \/ b.version > a.version
  BY <1>2, <1>3 DEF Grows
<1>5. a.version \in Nat /\ b.version \in Nat
  BY <1>2, <1>3 DEF PollsType, EngineRecord
<1>6. client.tag \in Nat \cup {-1} /\ client.newTag \in Nat
  BY <1>1 DEF PollsType, ClientRecord
<1>7. /\ ~ client.rerouted =>
           /\ client.tag <= a.version
           /\ client.tag = a.version => client.body = a.goroutines
      /\ client.reading /\ ~ client.newRerouted => client.newTag <= a.version
  BY DEF TagInv, NotModified
<1>. HIDE DEF a, b
<1>8. /\ ~ client.rerouted =>
           /\ client.tag <= b.version
           /\ client.tag = b.version => client.body = b.goroutines
      /\ client.reading /\ ~ client.newRerouted => client.newTag <= b.version
  BY ONLY <1>4, <1>5, <1>6, <1>7
<1>. QED
  BY <1>8 DEF TagInv, NotModified, b

\* ... and a step of the registry either leaves the client its engine or is noted.
LEMMA RerouteTags ==
  ASSUME PollInv, TagInv, Reroute, UNCHANGED engine
  PROVE  TagInv'
<1>1. client \in ClientRecord
  BY DEF PollInv, PollsType
<1>2. /\ client'.asks = client.asks /\ client'.reading = client.reading
      /\ client'.newTag = client.newTag /\ client'.tag = client.tag
      /\ client'.body = client.body
      /\ ~ client'.rerouted => ~ client.rerouted
      /\ ~ client'.newRerouted => ~ client.newRerouted
      /\ ~ client'.rerouted \/ ~ client'.newRerouted =>
           RouteIn(targets', defaultID', client.asks) = Route(client.asks)
  BY <1>1, RerouteIs
<1>3. ~ client'.rerouted \/ ~ client'.newRerouted => Answering' = Answering
  BY <1>2 DEF Answering, Route
<1>. QED
  BY <1>2, <1>3 DEF TagInv, NotModified

LEMMA TagInit == Init => TagInv
<1>. SUFFICES ASSUME Init PROVE TagInv
  OBVIOUS
<1>1. client.tag = -1 /\ client.reading = FALSE
  BY DEF Init
<1>2. PollsType
  BY PollInit DEF PollInv
<1>3. Answering.version \in Nat
  BY <1>2, AnswerType DEF EngineRecord
<1>4. -1 <= Answering.version /\ -1 # Answering.version
  BY ONLY <1>3
<1>. QED
  BY <1>1, <1>4 DEF TagInv, NotModified

LEMMA TagStep == PollInv /\ TagInv /\ [Next]_vars => TagInv'
<1>. SUFFICES ASSUME PollInv, TagInv, [Next]_vars PROVE TagInv'
  OBVIOUS
<1>1. PollsType /\ PollsType' /\ Grows
  BY PollStep, EngineGrows DEF PollInv
<1>2. CASE UNCHANGED <<client, targets, defaultID>>
  BY <1>1, <1>2, TagsStay
<1>3. ASSUME NEW t \in Target, AddRegister(t) \/ RemoveTarget(t) PROVE TagInv'
  BY <1>3, RerouteTags DEF AddRegister, RemoveTarget
<1>4. CASE ReadVersion
  <2>1. /\ UNCHANGED <<engine, targets, defaultID>>
        /\ client' = [client EXCEPT !.reading = TRUE, !.newTag = Answering.version,
                                    !.newRerouted = FALSE]
    BY <1>4 DEF ReadVersion, registryVars
  <2>2. client \in ClientRecord
    BY <1>1 DEF PollsType
  <2>3. /\ client'.asks = client.asks /\ client'.tag = client.tag
        /\ client'.body = client.body /\ client'.rerouted = client.rerouted
        /\ client'.newTag = Answering.version
    BY <2>1, <2>2 DEF ClientRecord
  <2>4. Answering' = Answering
    BY <2>1, <2>3 DEF Answering, Route, RouteIn
  <2>5. Answering.version \in Nat
    BY <1>1, AnswerType DEF EngineRecord
  <2>. QED
    BY <2>3, <2>4, <2>5 DEF TagInv, NotModified
<1>5. CASE ReadBody
  <2>1. /\ UNCHANGED <<engine, targets, defaultID>> /\ client.reading
        /\ client' = [client EXCEPT
                        !.reading = FALSE, !.newTag = 0, !.newRerouted = FALSE,
                        !.tag = client.newTag, !.body = Answering.goroutines,
                        !.rerouted = client.newRerouted]
    BY <1>5 DEF ReadBody, registryVars
  <2>2. client \in ClientRecord
    BY <1>1 DEF PollsType
  <2>3. /\ client'.asks = client.asks /\ client'.tag = client.newTag
        /\ client'.body = Answering.goroutines
        /\ client'.rerouted = client.newRerouted /\ client'.reading = FALSE
    BY <2>1, <2>2 DEF ClientRecord
  <2>4. Answering' = Answering
    BY <2>1, <2>3 DEF Answering, Route, RouteIn
  <2>. QED
    BY <2>1, <2>3, <2>4 DEF TagInv, NotModified
<1>6. ASSUME NEW k \in Keys, Poll(k) PROVE TagInv'
  BY <1>2, <1>6 DEF Poll, FetchDump, LoadDump, StopPoller, registryVars, requestVars
<1>. QED
  BY <1>2, <1>3, <1>4, <1>5, <1>6 DEF Next, VerifyFails, AddStart, UploadStart,
     UploadLoad, Interrupt, Exit, vars, registryVars, requestVars

\* "Not modified" is the truth until the registry gives the client another engine:
\* no poll, no upload and no change of other targets, whether between the version
\* and the body or after both, makes a client keep what its engine no longer holds.
THEOREM OnlyReroutingMisleads == Spec => []MisledOnlyIfRerouted
<1>1. TagInv => MisledOnlyIfRerouted
  BY DEF TagInv, MisledOnlyIfRerouted
<1>2. PollInv /\ TagInv /\ [Next]_vars => (PollInv /\ TagInv)'
  BY PollStep, TagStep
<1>. QED
  BY <1>1, <1>2, PollInit, TagInit, PTL DEF Spec
=============================================================================
