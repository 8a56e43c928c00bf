------------------------------ MODULE MCLiveRun -----------------------------
(***************************************************************************)
(* Small targets for LiveRun: what a traced program may write.             *)
(***************************************************************************)
EXTENDS LiveRun, TLC

CONSTANTS g1, g2, user, lib

Tr(g, from, to, ts, running, reason, stack) ==
  [gid |-> g, from |-> from, to |-> to, ts |-> ts, onP |-> TRUE,
   running |-> running, reason |-> reason, stack |-> stack]

\* g2 is created and runs unseen; its first user stack comes as it blocks, so this
\* run is held and the next one is emitted as it ends.
LateKept ==
  << Tr(g2, "NotExist", "Runnable", 1, g1, "", lib),
     Tr(g2, "Runnable", "Running", 2, NoID, "", NoFrames),
     Tr(g2, "Running", "Waiting", 3, g2, "chan receive", user),
     Tr(g2, "Waiting", "Running", 4, NoID, "", NoFrames),
     Tr(g2, "Running", "NotExist", 5, g2, "", NoFrames) >>

\* Both goroutines existed before the trace.  g2's latest stack is not user code:
\* it is shown, and not saved.
ShownNotSaved ==
  << Tr(g1, "Undetermined", "Waiting", 1, NoID, "sync", user),
     Tr(g2, "Undetermined", "Running", 2, g2, "", user),
     Tr(g2, "Running", "Syscall", 3, g2, "", lib) >>

MCTraces == {LateKept, ShownNotSaved}

MCSidecar == [g \in Goroutine |-> IF g = g2 THEN "r7" ELSE NoLabel]

NoParents == [g \in Goroutine |-> NoID]

\* A capture of another run, in which g2 is known at a later time.
MCUploaded ==
  [events |-> <<[kind |-> "goroutine.create", gid |-> g2, ts |-> 9, state |-> "",
                 reason |-> "", resource |-> "", parent |-> NoID,
                 label |-> NoLabel]>>,
   stacks |-> <<>>,
   edges |-> NoEdges, procs |-> 0, parents |-> NoParents,
   labels |-> [g \in Goroutine |-> NoLabel]]
MCCaptures == {MCUploaded}
NoInputs == {}
=============================================================================
