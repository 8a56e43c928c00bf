--------------------------- MODULE SessionManager ---------------------------
(***************************************************************************)
(* The session manager (internal/session/manager.go): the active session   *)
(* and the finished ones.  Each method holds m.mu for its whole body.      *)
(***************************************************************************)
EXTENDS SessionState

VARIABLES
  nextID,   \* m.nextID
  current,  \* m.current
  history   \* m.history, oldest first

sessionVars == <<nextID, current, history>>

Manager == [nextID |-> nextID, current |-> current, history |-> history]

Becomes(m) ==
  nextID' = m.nextID /\ current' = m.current /\ history' = m.history

SessionInit ==
  /\ nextID = NewManager.nextID
  /\ current = NewManager.current
  /\ history = NewManager.history

StartSession == Becomes(Started(Manager))

CompleteCurrent == Becomes(Finished(Manager, "completed"))
FailCurrent == Becomes(Finished(Manager, "failed"))
=============================================================================
