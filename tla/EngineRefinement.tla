-------------------------- MODULE EngineRefinement --------------------------
(***************************************************************************)
(* The engine implements Revisions: a subscriber needs to know no more of  *)
(* it than that module says.                                               *)
(***************************************************************************)
EXTENDS Engine

\* What stacks, parents and labels leave alone in a tracked goroutine.
EventPart(goroutine) ==
  <<goroutine.state, goroutine.reason, goroutine.resource, goroutine.waitNS,
    goroutine.createdAt, goroutine.diedNS, goroutine.isAlive>>

R == INSTANCE Revisions WITH
       Content   <- GoroutineRecord \ {ZeroGoroutine},
       NoContent <- ZeroGoroutine,
       Stay      <- EventPart,
       content   <- goroutines,
       version   <- dataVersion,
       bornAt    <- goroutineBornAt,
       changedAt <- goroutineChangedAt,
       busy      <- ~ MuFree,
       signal    <- subscribers

\* Every step of the engine is a step of Revisions or leaves what it speaks of
\* alone: events move the marks, other writes only the version, only Reset and
\* LoadCapture drop goroutines, and a signal is sent only by Flush and LoadCapture.
ImplementsRevisions == R!RevisionsSpec
=============================================================================
