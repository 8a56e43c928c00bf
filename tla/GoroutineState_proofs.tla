------------------------ MODULE GoroutineState_proofs -----------------------
(***************************************************************************)
(* The state machine of one goroutine, for every event and snapshot: its   *)
(* operators stay within their types, and what each leaves alone.  Shared  *)
(* by the proofs about the engine and about the pollers' histories.        *)
(***************************************************************************)
EXTENDS GoroutineState, TLAPS

LEMMA NormalizeType ==
  ASSUME NEW e \in Event
  PROVE  /\ normalizeEvent(e) \in Event
         /\ normalizeEvent(e).kind = e.kind
         /\ normalizeEvent(e).gid = e.gid
         /\ normalizeEvent(e).ts = e.ts
<1>. DEFINE stated == IF e.kind = "goroutine.state"
                      THEN [e EXCEPT !.state = FirstOf(@, "WAITING")]
                      ELSE e
<1>1. /\ stated \in Event
      /\ stated.kind = e.kind /\ stated.gid = e.gid /\ stated.ts = e.ts
  BY DEF FirstOf, GoroutineStates, Event
<1>2. normalizeEvent(e) = IF isWaitState(stated.state)
                          THEN [stated EXCEPT !.reason = FirstOf(@, "unknown")]
                          ELSE stated
  BY DEF normalizeEvent
<1>. HIDE DEF stated
<1>. QED
  BY <1>1, <1>2, UnknownAssumption DEF FirstOf, Event

LEMMA ResolveType ==
  ASSUME NEW r \in GoroutineRecord, NEW e \in Event
  PROVE  resolveNextState(r, e) \in GoroutineStates \cup {""}
BY DEF resolveNextState, FirstOf, GoroutineStates, EventKinds, Event, GoroutineRecord

LEMMA ElapsedType ==
  ASSUME NEW a \in Nat, NEW b \in Nat
  PROVE  elapsedNS(a, b) \in Nat
BY DEF elapsedNS

LEMMA StayType ==
  ASSUME NEW r \in GoroutineRecord, NEW s \in GoroutineStates \cup {""},
         NEW why \in Reason \cup {""}, NEW on \in Resource \cup {""},
         NEW n \in Nat
  PROVE  [r EXCEPT !.state = s, !.waitNS = n, !.reason = why, !.resource = on]
           \in GoroutineRecord
BY DEF GoroutineRecord

LEMMA LifeType ==
  ASSUME NEW r \in GoroutineRecord, NEW p \in Goroutine \cup {NoID},
         NEW n \in Nat, NEW b \in BOOLEAN
  PROVE  [r EXCEPT !.parent = p, !.diedNS = n, !.isAlive = b] \in GoroutineRecord
BY DEF GoroutineRecord

LEMMA ApplyType ==
  ASSUME NEW r \in GoroutineRecord, NEW e \in Event
  PROVE  Apply(r, e) \in GoroutineRecord
<1>. DEFINE seen == [r EXCEPT
                 !.known      = TRUE,
                 !.createdAt  = IF @ = 0 THEN e.ts ELSE @,
                 !.lastSeenAt = IF e.ts # 0 THEN e.ts ELSE @,
                 !.label      = OverrideLabel(e.label, @)]
            state == resolveNextState(r, e)
<1>1. seen \in GoroutineRecord
  <2>1. /\ e.ts \in Nat
        /\ OverrideLabel(e.label, r.label) \in Label \cup {NoLabel}
        /\ r.createdAt \in Nat /\ r.lastSeenAt \in Nat
    BY DEF Event, GoroutineRecord, OverrideLabel
  <2>2. \A n, m \in Nat : \A l \in Label \cup {NoLabel} :
          [r EXCEPT !.known = TRUE, !.createdAt = n, !.lastSeenAt = m, !.label = l]
            \in GoroutineRecord
    BY DEF GoroutineRecord
  <2>3. seen = [r EXCEPT
                  !.known      = TRUE,
                  !.createdAt  = IF r.createdAt = 0 THEN e.ts ELSE r.createdAt,
                  !.lastSeenAt = IF e.ts # 0 THEN e.ts ELSE r.lastSeenAt,
                  !.label      = OverrideLabel(e.label, r.label)]
    BY DEF GoroutineRecord
  <2>. QED
    BY <2>1, <2>2, <2>3
<1>2. state \in GoroutineStates \cup {""}
  BY ResolveType
<1>3. elapsedNS(r.lastSeenAt, e.ts) \in Nat
  <2>1. r.lastSeenAt \in Nat /\ e.ts \in Nat
    BY DEF Event, GoroutineRecord
  <2>. QED
    BY <2>1, ElapsedType
<1>4. Apply(r, e) = IF continuingWait(r, e)
         THEN [seen EXCEPT !.waitNS = @ + elapsedNS(r.lastSeenAt, e.ts)]
         ELSE [seen EXCEPT
                 !.state    = state,
                 !.waitNS   = 0,
                 !.reason   = IF isWaitState(state)
                              THEN FirstOf(e.reason, "unknown") ELSE "",
                 !.resource = IF isWaitState(state) THEN e.resource ELSE ""]
  BY DEF Apply
<1>5. FirstOf(e.reason, "unknown") \in Reason \cup {""}
  BY UnknownAssumption DEF FirstOf, Event
<1>6. e.resource \in Resource \cup {""}
  BY DEF Event
<1>7. CASE continuingWait(r, e)
  <2>1. seen.waitNS + elapsedNS(r.lastSeenAt, e.ts) \in Nat
    <3>1. seen.waitNS \in Nat
      BY <1>1 DEF GoroutineRecord
    <3>. HIDE DEF seen
    <3>. QED
      BY <1>3, <3>1
  <2>2. \A n \in Nat : [seen EXCEPT !.waitNS = n] \in GoroutineRecord
    <3>. HIDE DEF seen
    <3>. QED
      BY <1>1 DEF GoroutineRecord
  <2>3. Apply(r, e) =
          [seen EXCEPT !.waitNS = seen.waitNS + elapsedNS(r.lastSeenAt, e.ts)]
    BY <1>4, <1>7
  <2>. HIDE DEF seen
  <2>. QED
    BY <2>1, <2>2, <2>3
<1>8. CASE ~ continuingWait(r, e)
  <2>. DEFINE why == IF isWaitState(state) THEN FirstOf(e.reason, "unknown") ELSE ""
              on  == IF isWaitState(state) THEN e.resource ELSE ""
  <2>1. why \in Reason \cup {""} /\ on \in Resource \cup {""}
    BY <1>5, <1>6
  <2>2. Apply(r, e) = [seen EXCEPT !.state = state, !.waitNS = 0,
                                   !.reason = why, !.resource = on]
    BY <1>4, <1>8
  <2>3. 0 \in Nat
    OBVIOUS
  <2>. HIDE DEF seen, state, why, on
  <2>4. [seen EXCEPT !.state = state, !.waitNS = 0, !.reason = why,
                     !.resource = on] \in GoroutineRecord
    BY ONLY <1>1, <1>2, <2>1, <2>3, StayType, Zenon
  <2>. QED
    BY ONLY <2>2, <2>4, Zenon
<1>. QED
  BY <1>7, <1>8

LEMMA NextGoroutineType ==
  ASSUME NEW r \in GoroutineRecord, NEW e \in Event
  PROVE  NextGoroutine(r, e) \in GoroutineRecord
<1>1. Apply(r, e) \in GoroutineRecord
  BY ApplyType
<1>. QED
  <2>. DEFINE next == Apply(r, e)
              p == IF e.kind = "goroutine.create" /\ next.parent = NoID
                   THEN e.parent ELSE next.parent
              n == IF next.state = "DONE" /\ next.diedNS = 0
                   THEN e.ts ELSE next.diedNS
  <2>1. e.parent \in Goroutine \cup {NoID} /\ e.ts \in Nat
    BY DEF Event
  <2>2. next.parent \in Goroutine \cup {NoID} /\ next.diedNS \in Nat
    BY <1>1 DEF GoroutineRecord
  <2>3. p \in Goroutine \cup {NoID} /\ n \in Nat
    BY <2>1, <2>2
  <2>4. NextGoroutine(r, e) = [next EXCEPT !.parent = p, !.diedNS = n,
                                           !.isAlive = next.state # "DONE"]
    BY DEF NextGoroutine
  <2>5. next \in GoroutineRecord /\ (next.state # "DONE") \in BOOLEAN
    BY <1>1
  <2>. HIDE DEF next, p, n
  <2>6. [next EXCEPT !.parent = p, !.diedNS = n, !.isAlive = next.state # "DONE"]
          \in GoroutineRecord
    BY ONLY <2>3, <2>5, LifeType, Zenon
  <2>. QED
    BY ONLY <2>4, <2>6, Zenon

\* Any event makes a goroutine known, at its own time.
LEMMA NextGoroutineSeen ==
  ASSUME NEW r \in GoroutineRecord, NEW e \in Event
  PROVE  /\ NextGoroutine(r, e).known = TRUE
         /\ e.ts # 0 => NextGoroutine(r, e).lastSeenAt = e.ts
         /\ e.ts = 0 => NextGoroutine(r, e).lastSeenAt = r.lastSeenAt
<1>. DEFINE q == Apply(r, e)
<1>1. CASE continuingWait(r, e)
  BY <1>1 DEF NextGoroutine, Apply, GoroutineRecord
<1>2. CASE ~ continuingWait(r, e)
  BY <1>2 DEF NextGoroutine, Apply, GoroutineRecord
<1>. QED
  BY <1>1, <1>2

\* A stack moves the time its goroutine was seen at to no other than its own.
LEMMA WithStackSeenAt ==
  ASSUME NEW r \in GoroutineRecord, NEW s \in StackSnapshot
  PROVE  WithStack(r, s).lastSeenAt \in {r.lastSeenAt, s.ts}
BY DEF WithStack, StackSnapshot, GoroutineRecord

LEMMA WithStackType ==
  ASSUME NEW r \in GoroutineRecord, NEW s \in StackSnapshot
  PROVE  /\ WithStack(r, s) \in GoroutineRecord
         /\ WithStack(r, s).known = TRUE
         /\ WithStack(r, s).state = r.state
         /\ WithStack(r, s).reason = r.reason
         /\ WithStack(r, s).resource = r.resource
BY DEF WithStack, StackSnapshot, GoroutineRecord

LEMMA WithStackSeen ==
  ASSUME NEW r \in GoroutineRecord, NEW s \in StackSnapshot, r.known,
         ~ (s.ts > r.lastSeenAt)
  PROVE  WithStack(r, s).lastSeenAt = r.lastSeenAt
BY DEF WithStack, StackSnapshot, GoroutineRecord

LEMMA ZeroGoroutineType == ZeroGoroutine \in GoroutineRecord
BY DEF ZeroGoroutine, GoroutineRecord
=============================================================================
