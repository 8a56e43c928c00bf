---------------------------- MODULE SessionState ----------------------------
(***************************************************************************)
(* What the methods of a session manager (internal/session/manager.go) do  *)
(* to it.  A session that another one replaces is not archived, and a      *)
(* finished one stays the active session.  Pure operators: SessionManager  *)
(* holds the state of one manager, Targets that of several.                *)
(***************************************************************************)
EXTENDS Naturals, Sequences

NilSession == [id |-> 0, status |-> "none"]

NewManager == [nextID |-> 0, current |-> NilSession, history |-> <<>>]

Started(m) ==
  [m EXCEPT !.nextID  = @ + 1,
            !.current = [id |-> m.nextID + 1, status |-> "running"]]

Finished(m, status) ==
  IF m.current = NilSession THEN m
  ELSE LET done == [m.current EXCEPT !.status = status]
       IN  [m EXCEPT !.current = done, !.history = Append(@, done)]
=============================================================================
