------------------------------- MODULE Watch -------------------------------
(***************************************************************************)
(* `goroscope watch` (internal/cli/watch.go): what one poll alerts on.     *)
(* snaps is a sequence of goroutines in the order of the dump.             *)
(***************************************************************************)
EXTENDS WaitGraph

\* isBlockedOrWaiting: other than IsBlockedState, without SYSCALL.
IsBlockedOrWaiting(s) == s \in {"BLOCKED", "WAITING"}

TopBlocked(snaps, n) ==
  LET rows == Where(snaps, LAMBDA s : IsBlockedOrWaiting(s.state))
  IN  SubSeq(rows, 1, IF Len(rows) < n THEN Len(rows) ELSE n)

\* The last goroutine that runs, or could, with a resource is its holder; every
\* goroutine that waits for it waits for the holder.  A set, with one successor
\* relation: the search below only asks whether there is a cycle.
BuildEdgesFromSnaps(snaps) ==
  LET ids == DOMAIN snaps
      Users(r) == {k \in ids : snaps[k].resource = r}
      runs == {k \in ids : /\ snaps[k].state \in {"RUNNING", "RUNNABLE"}
                              /\ snaps[k].resource # NoResource}
      Holder(r) == Max(Users(r) \cap runs)
      held == {snaps[k].resource : k \in runs}
  IN  UNION {{Edge(snaps[k].id, snaps[Holder(r)].id, r) :
                k \in {j \in Users(r) : IsBlockedOrWaiting(snaps[j].state)}} : r \in held}

\* The coloured depth-first search finds a cycle iff a node reaches itself.
HasDeadlockCycle(edges, ids) ==
  LET Extend(p) == {<<p[1], e.to>> : e \in {f \in edges : f.from = p[2]}}
      Reach[n \in Nat] ==
        IF n = 0 THEN {<<e.from, e.to>> : e \in edges}
        ELSE Reach[n - 1] \cup UNION {Extend(p) : p \in Reach[n - 1]}
  IN  \E i \in ids : <<i, i>> \in Reach[Cardinality(ids)]

\* The alerts of one poll.  opts.goroutines = 0 and opts.blockMS = 0 disable a
\* condition; how long a goroutine has been blocked is not looked at.
EvaluateAlerts(snaps, opts) ==
  LET Alert(type) == <<[type |-> type, count |-> Len(snaps),
                        top |-> TopBlocked(snaps, 5)]>>
      If(cond, type) == IF cond THEN Alert(type) ELSE <<>>
      ids == {snaps[k].id : k \in DOMAIN snaps}
  IN  If(opts.goroutines > 0 /\ Len(snaps) >= opts.goroutines, "goroutine_count")
      \o If(opts.blockMS > 0 /\ \E k \in DOMAIN snaps : IsBlockedOrWaiting(snaps[k].state),
            "blocked")
      \o If(opts.deadlock /\ HasDeadlockCycle(BuildEdgesFromSnaps(snaps), ids),
            "deadlock")

\* emitAlert: what is written where.  Only the JSON format posts; a post that
\* fails is logged and forgotten.
EmitAlert(alert, opts) ==
  {<<"stdout", alert.type>>}
  \cup (IF opts.format = "text" THEN {} ELSE {<<post, alert.type>> : post \in opts.posts})

\* One poll that was answered: what it emits, and whether the watch goes on.
\* With -once the first alert is the last.
RunWatchOnce(snaps, opts) ==
  LET alerts == EvaluateAlerts(snaps, opts)
      first == IF alerts = <<>> THEN <<>> ELSE <<Head(alerts)>>
      emitted == IF opts.once THEN first ELSE alerts
  IN  [alerts |-> {emitted[k].type : k \in DOMAIN emitted},
       sent |-> UNION {EmitAlert(emitted[k], opts) : k \in DOMAIN emitted},
       goesOn |-> ~(opts.once /\ alerts # <<>>)]

---------------------------------------------------------------------------
(* `goroscope top` shows the same snapshots, the blocked ones first.       *)

BuildTopRows(snaps, n) ==
  LET Before(j, k) ==
        LET a == IsBlockedOrWaiting(snaps[j].state)
            b == IsBlockedOrWaiting(snaps[k].state)
        IN  IF a # b THEN a ELSE snaps[j].id < snaps[k].id
      rows == InOrder(DOMAIN snaps, Before)
  IN  SubSeq(rows, 1, IF n > 0 /\ Len(rows) > n THEN n ELSE Len(rows))
=============================================================================
