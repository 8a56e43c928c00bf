---------------------------- MODULE GoroutineDump ----------------------------
(***************************************************************************)
(* The text dump of /debug/pprof/goroutine?debug=2 and its parser          *)
(* (internal/pprofpoll/parse.go).  A line is a record whose kind says what *)
(* its first characters say:                                               *)
(*   [kind |-> "header", id, says]  goroutine 18 [chan receive, 2 minutes]:*)
(*   [kind |-> "malformed"]         a header without a readable ID         *)
(*   [kind |-> "func", func, addr]  a call and its first pointer argument  *)
(*   [kind |-> "place", file]       a tab and file:line                    *)
(*   [kind |-> "created", parent]   created by f in goroutine 1            *)
(*   [kind |-> "blank"]                                                    *)
(***************************************************************************)
EXTENDS Integers, SequencesExt

CONSTANT ResourceFunctions   \* blocking function -> type prefix of its resource

\* What a header says, without the duration, is the runtime's wait reason.
ClassifyState(says) ==
  CASE says = "running" -> "RUNNING"
    [] says = "runnable" -> "RUNNABLE"
    [] says \in {"sync.mutex.lock", "semacquire", "sync.rwmutex.lock"} -> "BLOCKED"
    [] says = "syscall" -> "SYSCALL"
    [] says \in {"dead", ""} -> "DONE"
    [] OTHER -> "WAITING"

\* The first blocking call with a pointer that is not nil: the resource is its
\* type prefix and address, <<>> for the empty ID.
ExtractResourceID(frames) ==
  LET k == SelectInSeq(frames,
                       LAMBDA f : f.func \in DOMAIN ResourceFunctions /\ f.addr # 0)
  IN  IF k = 0 THEN <<>> ELSE <<ResourceFunctions[frames[k].func], frames[k].addr>>

NoCall == [func |-> "", addr |-> 0]

\* current is a sequence of at most one open block.
Start == [current |-> <<>>, pending |-> NoCall, results |-> <<>>]

Flush(st) ==
  [current |-> <<>>, pending |-> NoCall,
   results |-> st.results \o [k \in DOMAIN st.current |->
                 [st.current[k] EXCEPT !.resource = ExtractResourceID(st.current[k].frames)]]]

\* A line of the block that is open.
ReadInBlock(st, line) ==
  CASE line.kind = "created" ->
         [st EXCEPT !.pending = NoCall,
                    !.current[1].parent = IF line.parent > 0 THEN line.parent ELSE @]
    [] line.kind = "place" ->
         IF st.pending.func = "" THEN st
         ELSE [st EXCEPT !.pending = NoCall,
                         !.current[1].frames = Append(@,
                                                      [func |-> st.pending.func,
                                                       addr |-> st.pending.addr,
                                                       file |-> line.file])]
    [] line.kind = "func" -> [st EXCEPT !.pending = [func |-> line.func,
                                                     addr |-> line.addr]]

ReadLine(st, line) ==
  CASE line.kind \in {"blank", "malformed"} -> Flush(st)
    [] line.kind = "header" ->
         [Flush(st) EXCEPT !.current = <<[id |-> line.id, parent |-> 0,
                                          state |-> ClassifyState(line.says),
                                          resource |-> <<>>, frames |-> <<>>]>>]
    [] OTHER -> IF st.current = <<>> THEN st ELSE ReadInBlock(st, line)

\* A parser that forgets the block it is in at the end of the dump.
ParseWithoutLast(lines) == FoldLeft(ReadLine, Start, lines).results

ParseGoroutineDump(lines) == Flush(FoldLeft(ReadLine, Start, lines)).results

---------------------------------------------------------------------------
(* The printer, which is the Go runtime's: a header, two lines for each    *)
(* frame, who created the goroutine and where, a blank line between blocks. *)

\* A call has a name, and what says where it is.
PrintedCall == [func : STRING \ {""}, addr : Nat, file : STRING]

PrintedBlock == [id : Nat, says : STRING, frames : Seq(PrintedCall), parent : Nat,
                 readable : BOOLEAN]

PrintBlock(g) ==
  <<[kind |-> "header", id |-> g.id, says |-> g.says]>>
  \o FlattenSeq([k \in DOMAIN g.frames |->
       <<[kind |-> "func", func |-> g.frames[k].func, addr |-> g.frames[k].addr],
         [kind |-> "place", file |-> g.frames[k].file]>>])
  \o IF g.parent = 0 THEN <<>>
     ELSE <<[kind |-> "created", parent |-> g.parent],
            [kind |-> "place", file |-> "creator"]>>
=============================================================================
