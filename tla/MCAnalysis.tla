----------------------------- MODULE MCAnalysis -----------------------------
(***************************************************************************)
(* Inputs for Analysis: small enough to enumerate, with the cases that      *)
(* matter: waits on both sides of each threshold, more leak groups and      *)
(* waiters than an answer names, dumps with unreadable blocks.              *)
(***************************************************************************)
EXTENDS Analysis

mcRuntime == {"runtime.gopark"}
mcLibrary == {"syscall.read"}
User == {"f1", "f2", "f3", "f4", "f5", "f6"}
mcShort == [f \in User |-> CASE f = "f1" -> 1 [] f = "f2" -> 2 [] f = "f3" -> 3
                             [] f = "f4" -> 4 [] f = "f5" -> 5 [] OTHER -> 6]
mcPackage == [f \in User |-> IF f \in {"f1", "f2"} THEN 1 ELSE 2]
mcFunctions == "chanrecv" :> "chan" @@ "semacquire" :> "mutex"

Frame(f) == [func |-> f, file |-> f]
G(state, resource, wait, f) ==
  [state |-> state, resource |-> resource, wait |-> wait, parent |-> 0, label |-> 0,
   frames |-> <<Frame("runtime.gopark"), Frame(f)>>]

\* Three goroutines, each running or blocked on one of two resources or none.
Postures == {G("RUNNING", 0, 0, "f1"), G("RUNNABLE", 2, 0, "f1"),
             G("BLOCKED", 1, 5, "f2"),
             G("WAITING", 2, 5, "f2"), G("WAITING", 0, 5, "runtime.gopark")}
mcSnapshots == [1..3 -> Postures]

Arcs == {Edge(1, 2, 1), Edge(2, 1, 2), Edge(2, 3, 1), Edge(3, 1, 2), Edge(3, 0, 2),
         Edge(1, 3, 0)}
mcGraphs == {<<>>} \cup
            UNION {SetToSeqs(S) : S \in {T \in SUBSET Arcs : Cardinality(T) \in {2, 3}}}

\* Two goroutines of every state and wait beside one that is just blocked, and
\* six that leak at six places.
Waits == {1, 20, 300, 301}
Pairs == [1..2 -> {G(s, 1, w, "f1") :
                     s \in {"WAITING", "BLOCKED", "SYSCALL", "RUNNABLE"}, w \in Waits}]
Leaking == [i \in 1..6 |-> G(IF i = 6 THEN "BLOCKED" ELSE "WAITING", 1 + (i % 2),
                             300 + i,
                             CASE i = 1 -> "f1" [] i = 2 -> "f2" [] i = 3 -> "f3" [] i = 4 -> "f4"
                               [] i = 5 -> "f5" [] OTHER -> "f6")]
Wide(n) == [i \in 1..n |-> [G("WAITING", 2, 20, IF i % 2 = 0 THEN "f1"
                                                ELSE "syscall.read")
                              EXCEPT !.parent = i - 1, !.label = i % 2]]
Populations == {[i \in 1..3 |-> IF i = 3 THEN G("BLOCKED", 2, 11, "f3")
                                ELSE p[i]] : p \in Pairs}
               \cup {Leaking, Wide(2), Wide(5), Wide(6)}

Segment(i, state, r, a, b) == [goroutine |-> i, state |-> state, resource |-> r,
                               start |-> a, end |-> b]
Segments == {Segment(1, "BLOCKED", 1, 2, 6), Segment(2, "BLOCKED", 1, 4, 4),
             Segment(2, "BLOCKED", 1, 6, 9),
             Segment(3, "WAITING", 2, 3, 5), Segment(3, "WAITING", 2, 8, 9),
             Segment(3, "WAITING", 1, 5, 7),
             Segment(1, "RUNNING", 0, 0, 2), Segment(4, "BLOCKED", 1, 2, 7)}
mcTimelines == {S \in SUBSET Segments : Cardinality(S) <= 4}
mcReadings == [gs : Populations, segs : {{}, Segments},
               graph : {<<>>, <<Edge(1, 2, 1), Edge(2, 1, 2)>>}]

mcListParams == [state : {"", "BLOCKED"}, minWait : {0, 20}, limit : {-1},
                 offset : {0, 1}]
                \cup [state : {""}, minWait : {0}, limit : {0, 2}, offset : {0, 1, 9}]

Blocked(i, w, b) == {Segment(i, "BLOCKED", 1, 0, b), Segment(i, "WAITING", 1, 5, 5 + w)}
mcCaptures == {[gs |-> [i \in ids |-> G("WAITING", 1, w, "f1")],
                segs |-> UNION {Blocked(i, w, b) : i \in ids}] :
                 ids \in {{1}, {1, 2}, {2, 3}}, w \in {1, 2}, b \in {1, 2}}

Signature == {<<>>, <<1>>, <<1, 2>>}
mcStackLists == UNION {[1..n -> Signature] : n \in 0..2}
mcFlameInputs == UNION {[1..n -> [state : {"WAITING", "RUNNING"},
                                  stack : {<<>>, <<1>>, <<2, 1>>, <<0, 2, 1>>,
                                           <<1, 1>>}]] :
                          n \in 0..2}

Call(f, a) == [func |-> f, addr |-> a, file |-> "file"]
Block(id, says, frames, parent, ok) ==
  [id |-> id, says |-> says, frames |-> frames, parent |-> parent, readable |-> ok]
Blocks == {Block(1, "running", <<Call("main", 0)>>, 0, TRUE),
           Block(2, "chan receive", <<Call("chanrecv", 7), Call("work", 9)>>, 1, TRUE),
           Block(3, "semacquire", <<Call("semacquire", 0), Call("chanrecv", 8)>>, 2,
                 TRUE),
           Block(4, "select", <<Call("work", 0)>>, 1, FALSE),
           Block(5, "", <<>>, 0, TRUE)}
mcDumps == UNION {{d \in [1..n -> Blocks] : IsInjective(d)} : n \in 0..3}

mcWatchOptions == [goroutines : {0, 3}, blockMS : {0, 1}, deadlock : BOOLEAN,
                   once : BOOLEAN,
                   format : {"json", "text"}, posts : {{}, {"webhook", "slack"}}]
=============================================================================
