------------------------------ MODULE MCTargets ------------------------------
(***************************************************************************)
(* Two targets of two goroutines: dumps in which a goroutine is blocked    *)
(* with and without a readable address, runs, and is missing.              *)
(***************************************************************************)
EXTENDS Targets

CONSTANTS g1, g2, f1

\* It runs, with the mutex it is about to lock on its stack.
Running == [state |-> "RUNNING", reason |-> "", resource |-> "r1", parent |-> NoID,
            frames |-> f1]
Locked(r) == [state |-> "BLOCKED", reason |-> "mutex_lock", resource |-> r,
              parent |-> g1, frames |-> NoFrames]

MCDumps ==
  { [g \in {g1} |-> Running],
    [g \in {g1, g2} |-> IF g = g1 THEN Running ELSE Locked("r1")],
    [g \in {g2} |-> Locked("")] }

MCUploads ==
  { <<Ev("goroutine.create", g1, 1)>> }
=============================================================================
