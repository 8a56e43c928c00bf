-------------------------------- MODULE Store --------------------------------
(***************************************************************************)
(* The capture store and the annotate command: commands of separate        *)
(* processes over the same files (internal/store/store.go, autoSaveCapture *)
(* in internal/cli/app.go, internal/cli/annotate.go).                      *)
(*                                                                         *)
(* No file is locked.  A command reads a file, computes what it should     *)
(* hold and writes it in place: os.WriteFile opens and truncates the file, *)
(* then writes it.  A save writes the capture to a file of its own, then   *)
(* updates the index; an annotate command updates a capture's file.        *)
(***************************************************************************)
EXTENDS Naturals

CONSTANTS
  Command,    \* the processes, each of which runs one command
  Capture,    \* capture IDs: a save's time to the nanosecond, never two alike
  Index,      \* index.json
  NoCapture,
  Time,       \* times that are annotated
  Suffix,     \* remainders of the clock that an annotation's ID may end with
  NoSuffix,
  MaxDeaths   \* bound: commands killed, or stopped by a failing write

ASSUME StoreAssumption ==
  /\ Index \notin Capture
  /\ NoCapture \notin Capture \cup {Index}
  /\ NoSuffix \notin Suffix

VARIABLES
  disk,    \* each file: Absent, Unreadable or the set of items it lists
  proc,    \* each command: its step, the file it updates, what it will write
  deaths,
  intact   \* auxiliary: files whose updates never overlapped nor were cut off

vars == <<disk, proc, deaths, intact>>

File == Capture \cup {Index}

\* A command adds one annotation at most, and is its note.
AnnotationID == [at : Time, suffix : Suffix \cup {NoSuffix}]
Annotation == [id : AnnotationID, note : Command]

Absent == [exists |-> FALSE, whole |-> FALSE, items |-> {}]
Unreadable == [exists |-> TRUE, whole |-> FALSE, items |-> {}]
Whole(items) == [exists |-> TRUE, whole |-> TRUE, items |-> items]

\* What a file holds once items are written to it at its start.  Content that
\* another command wrote since the file was truncated may reach further.
Overwritten(items, old) ==
  {Whole(items)} \cup (IF old.whole THEN {Unreadable} ELSE {})

Idle == [step |-> "idle", saving |-> NoCapture, file |-> Index,
         items |-> {}, adds |-> {}, drops |-> {}]

Holds(p, f) == proc[p].file = f /\ proc[p].step \in {"read", "opened"}

\* p has read f, whose items it will replace.
Update(p, f, items, adds, drops) ==
  /\ proc' = [proc EXCEPT ![p] = [step |-> "read", saving |-> @.saving, file |-> f,
                                  items |-> items, adds |-> adds, drops |-> drops]]
  /\ intact' = [intact EXCEPT ![f] = @ /\ \A q \in Command : ~Holds(q, f)]

Fails(p) ==
  /\ proc' = [proc EXCEPT ![p].step = "failed"]
  /\ UNCHANGED intact

-----------------------------------------------------------------------------
(* Saving a capture *)

\* A run or test command ends: its capture goes to a file of its own.
Save(p, c) ==
  /\ proc[p].step = "idle"
  /\ \A q \in Command : proc[q].saving # c
  /\ proc' = [proc EXCEPT ![p].step = "read", ![p].saving = c, ![p].file = c]
  /\ UNCHANGED <<disk, deaths, intact>>

\* Mutant: the index is not read before an entry is appended.
AppendEntryUnread(p) ==
  /\ proc[p].step = "captured"
  /\ Update(p, Index, {proc[p].saving}, {proc[p].saving}, {})
  /\ UNCHANGED <<disk, deaths>>

\* A missing index lists nothing; one that does not decode ends the save, whose
\* file stays.
AppendEntry(p) ==
  /\ proc[p].step = "captured"
  /\ LET c == proc[p].saving
         idx == disk[Index]
     IN  IF idx.exists /\ ~idx.whole
         THEN Fails(p)
         ELSE Update(p, Index, idx.items \cup {c}, {c}, {})
  /\ UNCHANGED <<disk, deaths>>

-----------------------------------------------------------------------------
(* Annotating a capture *)

\* Mutant: the ID is not compared with those that are there.
AddAnnotationUnchecked(p, c, t, s) ==
  LET ann == [id |-> [at |-> t, suffix |-> NoSuffix], note |-> p]
  IN  Update(p, c, disk[c].items \cup {ann}, {ann}, {})

\* The plain ID of the time, or one with a suffix that is not compared again.
AddAnnotation(p, c, t, s) ==
  LET anns == disk[c].items
      taken == \E a \in anns : a.id = [at |-> t, suffix |-> NoSuffix]
      ann == [id |-> [at |-> t, suffix |-> IF taken THEN s ELSE NoSuffix],
              note |-> p]
  IN  Update(p, c, anns \cup {ann}, {ann}, {})

DeleteAnnotation(p, c, id) ==
  LET deleted == {a \in disk[c].items : a.id = id}
  IN  IF deleted = {}
      THEN Fails(p)
      ELSE Update(p, c, disk[c].items \ deleted, {}, deleted)

Annotate(p, c) ==
  /\ proc[p].step = "idle"
  /\ disk[c].exists
  /\ IF disk[c].whole
     THEN \/ \E t \in Time, s \in Suffix : AddAnnotation(p, c, t, s)
          \/ \E id \in AnnotationID : DeleteAnnotation(p, c, id)
     ELSE Fails(p)
  /\ UNCHANGED <<disk, deaths>>

-----------------------------------------------------------------------------
(* os.WriteFile, and a command that ends before it is done *)

OpenFile(p) ==
  /\ proc[p].step = "read"
  /\ disk' = [disk EXCEPT ![proc[p].file] = Unreadable]
  /\ proc' = [proc EXCEPT ![p].step = "opened"]
  /\ UNCHANGED <<deaths, intact>>

\* Once its capture is written a save goes on to the index.
WriteFile(p) ==
  /\ proc[p].step = "opened"
  /\ \E new \in Overwritten(proc[p].items, disk[proc[p].file]) :
       disk' = [disk EXCEPT ![proc[p].file] = new]
  /\ proc' = [proc EXCEPT ![p].step = IF proc[p].file = proc[p].saving
                                      THEN "captured" ELSE "done"]
  /\ UNCHANGED <<deaths, intact>>

\* Mutant: a save does not look at the error of writing its capture.
DieUnchecked(p) ==
  /\ deaths < MaxDeaths
  /\ proc[p].step \in {"read", "opened", "captured"}
  /\ deaths' = deaths + 1
  /\ proc' = [proc EXCEPT ![p].step = IF @ = "opened" /\ proc[p].file = proc[p].saving
                                      THEN "captured" ELSE "dead"]
  /\ intact' = [intact EXCEPT ![proc[p].file] = @ /\ proc[p].step # "opened"]
  /\ UNCHANGED disk

Die(p) ==
  /\ deaths < MaxDeaths
  /\ proc[p].step \in {"read", "opened", "captured"}
  /\ deaths' = deaths + 1
  /\ proc' = [proc EXCEPT ![p].step = "dead"]
  /\ intact' = [intact EXCEPT ![proc[p].file] = @ /\ proc[p].step # "opened"]
  /\ UNCHANGED disk

-----------------------------------------------------------------------------
Init ==
  /\ disk = [f \in File |-> Absent]
  /\ proc = [p \in Command |-> Idle]
  /\ deaths = 0
  /\ intact = [f \in File |-> TRUE]

Next ==
  \E p \in Command :
    \/ \E c \in Capture : Save(p, c) \/ Annotate(p, c)
    \/ AppendEntry(p)
    \/ OpenFile(p)
    \/ WriteFile(p)
    \/ Die(p)

Spec == Init /\ [][Next]_vars

-----------------------------------------------------------------------------
(* Properties *)

\* What List returns, and what a save is about to make it return.
Listed ==
  disk[Index].items \cup
  UNION {proc[p].items : p \in {q \in Command : Holds(q, Index)}}

Annotators(c) == {p \in Command : proc[p].file = c /\ proc[p].saving # c}

\* A capture that the history lists, now or once a save that runs is done, can
\* be replayed: its file was written before its entry, and only annotate
\* commands that overlapped, were cut off or are at work can have taken it.
EntriesHaveFiles ==
  \A c \in Listed :
    \/ disk[c].whole
    \/ \E p \in Annotators(c) : proc[p].step = "opened" \/ ~intact[c]

\* What the commands that succeeded added to a file and deleted from it.
Done(f) == {p \in Command : proc[p].step = "done" /\ proc[p].file = f}
Added(f) == UNION {proc[p].adds : p \in Done(f)}
Dropped(f) == UNION {proc[p].drops : p \in Done(f)}

\* Nothing is lost but by an overlap or a cut: a file whose updates followed
\* one another is readable and lists what the commands that succeeded added,
\* less what they deleted - whatever failed or was killed in between.
UpdatesKept ==
  \A f \in File :
    (intact[f] /\ disk[f].exists /\ ~\E p \in Command : Holds(p, f)) =>
      /\ disk[f].whole
      /\ disk[f].items = Added(f) \ Dropped(f)

\* Two annotations of a file never share the plain ID of their time, whatever
\* was added, deleted and added again: `annotate --delete` of a plain ID takes
\* one annotation.  (Two IDs with the same suffix may collide.)
PlainIDsUnique ==
  \A c \in Capture : \A a, b \in disk[c].items :
    a.id = b.id /\ a.id.suffix = NoSuffix => a = b
=============================================================================
