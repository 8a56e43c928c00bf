---------------------------- MODULE Store_proofs -----------------------------
(***************************************************************************)
(* What Store promises for any commands, captures, times and suffixes.     *)
(*                                                                         *)
(* The invariant follows a file's updates.  A capture's own save is the    *)
(* first to touch its file, so nobody annotates it before it is written;   *)
(* while a file is intact one command at most holds it, so what that       *)
(* command will write is what the finished ones left, with its own change. *)
(***************************************************************************)
EXTENDS Store, TLAPS

Step == {"idle", "read", "opened", "captured", "done", "failed", "dead"}
Item == Capture \cup Annotation
Contents == [exists : BOOLEAN, whole : BOOLEAN, items : SUBSET Item]
Process == [step : Step, saving : Capture \cup {NoCapture}, file : File,
            items : SUBSET Item, adds : SUBSET Item, drops : SUBSET Annotation]

StoreTypeOK ==
  /\ disk \in [File -> Contents]
  /\ proc \in [Command -> Process]
  /\ intact \in [File -> BOOLEAN]

Holding(p) == proc[p].step \in {"read", "opened"}

\* What each step of a command says of its fields.
StepsOK ==
  \A p \in Command :
    /\ proc[p].step = "idle" => proc[p] = Idle
    /\ proc[p].step = "captured" => proc[p].saving = proc[p].file
    /\ proc[p].step = "done" => proc[p].saving # proc[p].file
    /\ Holding(p) /\ proc[p].saving = proc[p].file
         => proc[p].items = {} /\ proc[p].adds = {} /\ proc[p].drops = {}
    /\ proc[p].file = Index => proc[p].drops = {}

\* The items of a file are of its kind.
KindsOK ==
  /\ \A c \in Capture : disk[c].items \subseteq Annotation
  /\ \A p \in Command : Holding(p) /\ proc[p].file # Index
       => proc[p].items \subseteq Annotation

\* A capture has one save, and until it is written nobody annotates it.
OneSave ==
  \A p, q \in Command :
    p # q /\ proc[p].saving = proc[q].saving => proc[p].saving = NoCapture

Fresh(c) == ~disk[c].whole /\ Annotators(c) = {}

FreshUntilWritten ==
  \A c \in Capture :
    /\ (\A q \in Command : proc[q].saving # c) => Fresh(c)
    /\ \A q \in Command : proc[q].saving = c /\ Holds(q, c) => Fresh(c)

\* Two commands that hold a file, or one that truncated it while it is readable
\* again, have spoilt it.
SpoiltByOverlap ==
  /\ \A f \in File : \A p, q \in Command :
       p # q /\ Holds(p, f) /\ Holds(q, f) => ~intact[f]
  /\ \A p \in Command :
       proc[p].step = "opened" /\ disk[proc[p].file].whole => ~intact[proc[p].file]

Accountable ==
  StoreTypeOK /\ StepsOK /\ KindsOK /\ OneSave /\ FreshUntilWritten /\ SpoiltByOverlap

\* A capture's file is there, or annotate commands took it, and its save is past
\* writing it.
Filed(c) ==
  /\ \/ disk[c].whole
     \/ \E p \in Annotators(c) : proc[p].step = "opened" \/ ~intact[c]
  /\ \E q \in Command : proc[q].saving = c
  /\ \A q \in Command : proc[q].saving = c => ~Holds(q, c)

\* What is listed, will be or may be is filed.
FiledFirst ==
  /\ \A c \in disk[Index].items : c \in Capture /\ Filed(c)
  /\ \A p \in Command : Holds(p, Index) =>
       \A c \in proc[p].items : c \in Capture /\ Filed(c)
  /\ \A p \in Command : proc[p].step = "captured" =>
       proc[p].saving \in Capture /\ Filed(proc[p].saving)

\* What the finished commands made of a file.
Net(f) == Added(f) \ Dropped(f)

\* An annotation that is anywhere was made by a command that has started.
MadeByStarted ==
  /\ \A c \in Capture : \A a \in disk[c].items : proc[a.note].step # "idle"
  /\ \A p \in Command : \A a \in proc[p].drops : proc[a.note].step # "idle"
  /\ \A p \in Command : Holding(p) /\ proc[p].file # Index =>
       \A a \in proc[p].items : proc[a.note].step # "idle"

\* While a file is intact it holds what the finished commands made of it, and its
\* holder will write that with its own change.
DiskAccounted(f) ==
  (\A p \in Command : ~(Holds(p, f) /\ proc[p].step = "opened")) =>
    /\ disk[f].items = Net(f)
    /\ disk[f].exists => disk[f].whole

HolderAccounted(p, f) ==
  Holds(p, f) =>
    /\ proc[p].items = (Net(f) \cup proc[p].adds) \ proc[p].drops
    /\ \A q \in Done(f) : proc[p].adds \cap proc[q].drops = {}

AccountedFor(f) == DiskAccounted(f) /\ \A p \in Command : HolderAccounted(p, f)

Accounted == \A f \in File : intact[f] => AccountedFor(f)

PlainUnique(items) ==
  \A a, b \in items : a.id = b.id /\ a.id.suffix = NoSuffix => a = b

\* The plain IDs are unique on disk and in what will be written there.
PlainOK ==
  /\ PlainIDsUnique
  /\ \A p \in Command :
       Holding(p) /\ proc[p].file # Index => PlainUnique(proc[p].items)

-----------------------------------------------------------------------------
(* The steps *)

\* Every step is one of five: a command starts to save, has read what it will
\* replace, fails, opens or writes its file, or dies.
Reads(p, f, items, adds, drops) ==
  /\ Update(p, f, items, adds, drops)
  /\ UNCHANGED <<disk, deaths>>

AddsEntry(p) ==
  /\ proc[p].step = "captured"
  /\ disk[Index].exists => disk[Index].whole
  /\ Reads(p, Index, disk[Index].items \cup {proc[p].saving}, {proc[p].saving}, {})

AddsNote(p, c, a) ==
  /\ proc[p].step = "idle"
  /\ disk[c].exists /\ disk[c].whole
  /\ a \in Annotation /\ a.note = p
  /\ \A b \in disk[c].items : b.id = a.id => a.id.suffix # NoSuffix
  /\ Reads(p, c, disk[c].items \cup {a}, {a}, {})

DeletesNotes(p, c, id) ==
  /\ proc[p].step = "idle"
  /\ disk[c].exists /\ disk[c].whole
  /\ Reads(p, c, disk[c].items \ {a \in disk[c].items : a.id = id}, {},
           {a \in disk[c].items : a.id = id})

Stops(p) ==
  /\ proc[p].step \in {"idle", "captured"}
  /\ Fails(p)
  /\ UNCHANGED <<disk, deaths>>

LEMMA NextCases ==
  ASSUME NEW p \in Command, StoreTypeOK,
         \/ \E c \in Capture : Save(p, c) \/ Annotate(p, c)
         \/ AppendEntry(p) \/ OpenFile(p) \/ WriteFile(p) \/ Die(p)
  PROVE  \/ \E c \in Capture : Save(p, c)
         \/ AddsEntry(p)
         \/ \E c \in Capture, a \in Annotation : AddsNote(p, c, a)
         \/ \E c \in Capture, id \in AnnotationID : DeletesNotes(p, c, id)
         \/ Stops(p) \/ OpenFile(p) \/ WriteFile(p) \/ Die(p)
<1>1. ASSUME AppendEntry(p) PROVE AddsEntry(p) \/ Stops(p)
  BY <1>1 DEF AppendEntry, AddsEntry, Reads, Stops
<1>2. ASSUME NEW c \in Capture, NEW t \in Time, NEW s \in Suffix,
             proc[p].step = "idle", disk[c].exists, disk[c].whole,
             AddAnnotation(p, c, t, s), UNCHANGED <<disk, deaths>>
      PROVE  \E a \in Annotation : AddsNote(p, c, a)
  <2>. DEFINE taken == \E a \in disk[c].items : a.id = [at |-> t, suffix |-> NoSuffix]
              ann == [id |-> [at |-> t, suffix |-> IF taken THEN s ELSE NoSuffix],
                      note |-> p]
  <2>1. ann \in Annotation /\ ann.note = p
    BY DEF Annotation, AnnotationID
  <2>2. ASSUME NEW b \in disk[c].items, b.id = ann.id PROVE ann.id.suffix # NoSuffix
    <3>1. CASE taken
      BY <3>1, StoreAssumption
    <3>2. CASE ~taken
      BY <2>2, <3>2
    <3>. QED
      BY <3>1, <3>2
  <2>3. Reads(p, c, disk[c].items \cup {ann}, {ann}, {})
    BY <1>2 DEF AddAnnotation, Reads
  <2>. QED
    BY <1>2, <2>1, <2>2, <2>3 DEF AddsNote
<1>3. ASSUME NEW c \in Capture, NEW id \in AnnotationID,
             proc[p].step = "idle", disk[c].exists, disk[c].whole,
             DeleteAnnotation(p, c, id), UNCHANGED <<disk, deaths>>
      PROVE  DeletesNotes(p, c, id) \/ Stops(p)
  BY <1>3 DEF DeleteAnnotation, DeletesNotes, Reads, Stops
<1>4. ASSUME NEW c \in Capture, Annotate(p, c)
      PROVE  \/ \E a \in Annotation : AddsNote(p, c, a)
             \/ \E id \in AnnotationID : DeletesNotes(p, c, id)
             \/ Stops(p)
  BY <1>2, <1>3, <1>4 DEF Annotate, Stops
<1>. QED
  BY <1>1, <1>4

\* What each step leaves behind, field by field.
Others(p) == \A q \in Command \ {p} : proc'[q] = proc[q]

KeepsItems(p) ==
  /\ proc'[p].items = proc[p].items
  /\ proc'[p].adds = proc[p].adds
  /\ proc'[p].drops = proc[p].drops

Goes(p, step) ==
  /\ proc'[p].step = step
  /\ proc'[p].saving = proc[p].saving /\ proc'[p].file = proc[p].file
  /\ KeepsItems(p)
  /\ Others(p)

Saved(p, c) ==
  /\ proc[p].step = "idle"
  /\ \A q \in Command : proc[q].saving # c
  /\ proc'[p].step = "read" /\ proc'[p].saving = c /\ proc'[p].file = c
  /\ KeepsItems(p)
  /\ Others(p)
  /\ disk' = disk /\ intact' = intact

Took(p, f, items, adds, drops) ==
  /\ proc'[p].step = "read" /\ proc'[p].saving = proc[p].saving /\ proc'[p].file = f
  /\ proc'[p].items = items /\ proc'[p].adds = adds /\ proc'[p].drops = drops
  /\ Others(p)
  /\ disk' = disk
  /\ \A g \in File \ {f} : intact'[g] = intact[g]
  /\ intact'[f] = (intact[f] /\ \A q \in Command : ~Holds(q, f))

Stopped(p) ==
  /\ proc[p].step \in {"idle", "captured"}
  /\ Goes(p, "failed")
  /\ disk' = disk /\ intact' = intact

Opened(p, f) ==
  /\ proc[p].step = "read" /\ f = proc[p].file
  /\ Goes(p, "opened")
  /\ disk'[f] = Unreadable
  /\ \A g \in File \ {f} : disk'[g] = disk[g]
  /\ intact' = intact

Written(p, f) ==
  /\ proc[p].step = "opened" /\ f = proc[p].file
  /\ Goes(p, IF f = proc[p].saving THEN "captured" ELSE "done")
  /\ \/ disk'[f] = Whole(proc[p].items)
     \/ disk[f].whole /\ disk'[f] = Unreadable
  /\ \A g \in File \ {f} : disk'[g] = disk[g]
  /\ intact' = intact

Died(p, f) ==
  /\ proc[p].step \in {"read", "opened", "captured"} /\ f = proc[p].file
  /\ Goes(p, "dead")
  /\ disk' = disk
  /\ intact'[f] = (intact[f] /\ proc[p].step # "opened")
  /\ \A g \in File \ {f} : intact'[g] = intact[g]

LEMMA TakesEffect ==
  ASSUME StoreTypeOK, NEW p \in Command, NEW f \in File,
         NEW items \in SUBSET Item, NEW adds \in SUBSET Item,
         NEW drops \in SUBSET Annotation,
         Reads(p, f, items, adds, drops)
  PROVE  StoreTypeOK' /\ Took(p, f, items, adds, drops)
<1>. USE DEF Reads, Update
<1>. DEFINE new == [step |-> "read", saving |-> proc[p].saving, file |-> f,
                    items |-> items, adds |-> adds, drops |-> drops]
<1>1. new \in Process
  <2>1. proc[p] \in Process
    BY DEF StoreTypeOK
  <2>. QED
    BY <2>1 DEF Process, Step
<1>2. proc' \in [Command -> Process] /\ proc'[p] = new /\ Others(p)
  BY <1>1 DEF StoreTypeOK, Others
<1>3. /\ intact' \in [File -> BOOLEAN]
      /\ \A g \in File \ {f} : intact'[g] = intact[g]
      /\ intact'[f] = (intact[f] /\ \A q \in Command : ~Holds(q, f))
  BY DEF StoreTypeOK
<1>. QED
  BY <1>2, <1>3 DEF StoreTypeOK, Took

LEMMA SavesEffect ==
  ASSUME StoreTypeOK, NEW p \in Command, NEW c \in Capture, Save(p, c)
  PROVE  StoreTypeOK' /\ Saved(p, c)
<1>. DEFINE new == [proc[p] EXCEPT !.step = "read", !.saving = c, !.file = c]
<1>1. proc[p] \in Process
  BY DEF StoreTypeOK
<1>2. new \in Process
  BY <1>1 DEF Process, Step, File
<1>3. proc' = [proc EXCEPT ![p] = new]
  BY <1>1 DEF Save, StoreTypeOK, Process
<1>. QED
  BY <1>1, <1>2, <1>3 DEF Save, StoreTypeOK, Process, KeepsItems, Others, Saved

LEMMA GoesEffect ==
  ASSUME StoreTypeOK, NEW p \in Command, NEW step \in Step,
         proc' = [proc EXCEPT ![p].step = step]
  PROVE  proc' \in [Command -> Process] /\ Goes(p, step)
<1>1. proc[p] \in Process
  BY DEF StoreTypeOK
<1>2. [proc[p] EXCEPT !.step = step] \in Process
  BY <1>1 DEF Process
<1>. QED
  BY <1>1, <1>2 DEF StoreTypeOK, Goes, Process, KeepsItems, Others

LEMMA StopsEffect ==
  ASSUME StoreTypeOK, NEW p \in Command, Stops(p)
  PROVE  StoreTypeOK' /\ Stopped(p)
BY GoesEffect DEF Stops, Fails, StoreTypeOK, Step, Stopped

LEMMA OpensEffect ==
  ASSUME StoreTypeOK, NEW p \in Command, OpenFile(p)
  PROVE  \E f \in File : StoreTypeOK' /\ Opened(p, f)
<1>1. proc[p].file \in File /\ Unreadable \in Contents
  BY DEF StoreTypeOK, Process, Unreadable, Contents
<1>2. Goes(p, "opened") /\ proc' \in [Command -> Process]
  BY GoesEffect DEF OpenFile, Step
<1>. QED
  BY <1>1, <1>2 DEF OpenFile, StoreTypeOK, Opened

LEMMA WritesEffect ==
  ASSUME StoreTypeOK, NEW p \in Command, WriteFile(p)
  PROVE  \E f \in File : StoreTypeOK' /\ Written(p, f)
<1>1. proc[p].file \in File /\ proc[p].items \in SUBSET Item
  BY DEF StoreTypeOK, Process
<1>2. Unreadable \in Contents /\ Whole(proc[p].items) \in Contents
  BY <1>1 DEF Unreadable, Whole, Contents
<1>3. PICK new \in Overwritten(proc[p].items, disk[proc[p].file]) :
        disk' = [disk EXCEPT ![proc[p].file] = new]
  BY DEF WriteFile
<1>4. \/ new = Whole(proc[p].items)
      \/ disk[proc[p].file].whole /\ new = Unreadable
  BY DEF Overwritten
<1>5. Goes(p, IF proc[p].file = proc[p].saving THEN "captured" ELSE "done")
      /\ proc' \in [Command -> Process]
  BY GoesEffect DEF WriteFile, Step
<1>. QED
  BY <1>1, <1>2, <1>3, <1>4, <1>5 DEF WriteFile, StoreTypeOK, Written

LEMMA DiesEffect ==
  ASSUME StoreTypeOK, NEW p \in Command, Die(p)
  PROVE  \E f \in File : StoreTypeOK' /\ Died(p, f)
<1>1. proc[p].file \in File
  BY DEF StoreTypeOK, Process
<1>2. Goes(p, "dead") /\ proc' \in [Command -> Process]
  BY GoesEffect DEF Die, Step
<1>. QED
  BY <1>1, <1>2 DEF Die, StoreTypeOK, Died

-----------------------------------------------------------------------------
(* The bookkeeping is kept *)

\* The three ways to read a file, and what they have in common.
Change(p, f, items, adds, drops) ==
  /\ items = (disk[f].items \cup adds) \ drops
  /\ disk[f].exists => disk[f].whole
  /\ \/ f = Index /\ drops = {} /\ proc[p].step = "captured"
        /\ adds = {proc[p].saving} /\ proc[p].saving \in Capture
     \/ f \in Capture /\ proc[p].step = "idle" /\ disk[f].whole
        /\ items \subseteq Annotation
        /\ drops \subseteq disk[f].items
        /\ \/ adds = {}
           \/ /\ drops = {}
              /\ \E a \in Annotation :
                   /\ adds = {a} /\ a.note = p
                   /\ \A b \in disk[f].items : b.id = a.id => a.id.suffix # NoSuffix

Takes(p, f, items, adds, drops) ==
  Reads(p, f, items, adds, drops) /\ Change(p, f, items, adds, drops)

LEMMA ReadsCases ==
  ASSUME Accountable, NEW p \in Command,
         \/ AddsEntry(p)
         \/ \E c \in Capture, a \in Annotation : AddsNote(p, c, a)
         \/ \E c \in Capture, id \in AnnotationID : DeletesNotes(p, c, id)
  PROVE  \E f \in File : \E items, adds \in SUBSET Item, drops \in SUBSET Annotation :
           Takes(p, f, items, adds, drops)
<1>. USE DEF Accountable, Takes, Change
<1>. DEFINE Common(f, items, adds, drops) ==
              /\ Reads(p, f, items, adds, drops)
              /\ items = (disk[f].items \cup adds) \ drops
              /\ disk[f].exists => disk[f].whole
<1>1. CASE AddsEntry(p)
  <2>. DEFINE items == disk[Index].items \cup {proc[p].saving}
              adds == {proc[p].saving}
  <2>1. Index \in File /\ proc[p].saving \in Capture
    BY <1>1, StoreAssumption
       DEF AddsEntry, StoreTypeOK, StepsOK, Process, File
  <2>2. items \in SUBSET Item /\ adds \in SUBSET Item
    BY <2>1 DEF StoreTypeOK, Contents, Item
  <2>3. Common(Index, items, adds, {})
    BY <1>1 DEF AddsEntry
  <2>. QED
    BY <1>1, <2>1, <2>2, <2>3 DEF AddsEntry
<1>2. ASSUME NEW c \in Capture, NEW a \in Annotation, AddsNote(p, c, a)
      PROVE  \E f \in File : \E items, adds \in SUBSET Item, drops \in SUBSET Annotation :
               /\ Common(f, items, adds, drops)
               /\ f \in Capture /\ proc[p].step = "idle" /\ disk[f].whole
               /\ items \subseteq Annotation
               /\ drops = {}
               /\ \E b \in Annotation :
                    /\ adds = {b} /\ b.note = p
                    /\ \A d \in disk[f].items : d.id = b.id => b.id.suffix # NoSuffix
  <2>. DEFINE items == disk[c].items \cup {a}
  <2>1. c \in File /\ {a} \in SUBSET Item /\ items \in SUBSET Item
          /\ items \subseteq Annotation
    BY DEF KindsOK, Item, File
  <2>2. Common(c, items, {a}, {})
    BY <1>2 DEF AddsNote
  <2>3. /\ proc[p].step = "idle" /\ disk[c].whole /\ a.note = p
        /\ \A d \in disk[c].items : d.id = a.id => a.id.suffix # NoSuffix
    BY <1>2 DEF AddsNote
  <2>4. \E b \in Annotation :
          /\ {a} = {b} /\ b.note = p
          /\ \A d \in disk[c].items : d.id = b.id => b.id.suffix # NoSuffix
    BY <2>3
  <2>. QED
    BY <2>1, <2>2, <2>3, <2>4
<1>3. ASSUME NEW c \in Capture, NEW id \in AnnotationID, DeletesNotes(p, c, id)
      PROVE  \E f \in File : \E items, adds \in SUBSET Item, drops \in SUBSET Annotation :
               /\ Common(f, items, adds, drops)
               /\ f \in Capture /\ proc[p].step = "idle" /\ disk[f].whole
               /\ items \subseteq Annotation
               /\ drops \subseteq disk[f].items
               /\ adds = {}
  <2>. DEFINE drops == {a \in disk[c].items : a.id = id}
              items == disk[c].items \ drops
  <2>1. c \in File /\ drops \in SUBSET Annotation /\ items \in SUBSET Item
          /\ items \subseteq Annotation
    BY DEF KindsOK, Item, File
  <2>2. Reads(p, c, items, {}, drops)
    BY <1>3 DEF DeletesNotes
  <2>3. items = (disk[c].items \cup {}) \ drops /\ drops \subseteq disk[c].items
    OBVIOUS
  <2>4. proc[p].step = "idle" /\ disk[c].whole
    BY <1>3 DEF DeletesNotes
  <2>. HIDE DEF drops, items
  <2>. QED
    BY <2>1, <2>2, <2>3, <2>4
<1>. HIDE DEF Common
<1>4. CASE \E c \in Capture, a \in Annotation : AddsNote(p, c, a)
  BY <1>2, <1>4 DEF Common
<1>5. CASE \E c \in Capture, id \in AnnotationID : DeletesNotes(p, c, id)
  BY <1>3, <1>5 DEF Common
<1>. QED
  BY <1>1, <1>4, <1>5

StepCases(p) ==
  \/ \E c \in Capture : Saved(p, c)
  \/ \E f \in File : \E items, adds \in SUBSET Item, drops \in SUBSET Annotation :
       Took(p, f, items, adds, drops) /\ Change(p, f, items, adds, drops)
  \/ Stopped(p)
  \/ \E f \in File : Opened(p, f) \/ Written(p, f) \/ Died(p, f)

LEMMA StoreCases ==
  ASSUME Accountable, Next
  PROVE  StoreTypeOK' /\ \E p \in Command : StepCases(p)
<1>1. PICK p \in Command :
        \/ \E c \in Capture : Save(p, c) \/ Annotate(p, c)
        \/ AppendEntry(p) \/ OpenFile(p) \/ WriteFile(p) \/ Die(p)
  BY DEF Next
<1>2. StoreTypeOK
  BY DEF Accountable
<1>3. \/ \E c \in Capture : Save(p, c)
      \/ AddsEntry(p)
      \/ \E c \in Capture, a \in Annotation : AddsNote(p, c, a)
      \/ \E c \in Capture, id \in AnnotationID : DeletesNotes(p, c, id)
      \/ Stops(p) \/ OpenFile(p) \/ WriteFile(p) \/ Die(p)
  BY <1>1, <1>2, NextCases
<1>4. \/ \E c \in Capture : Save(p, c)
      \/ \E f \in File : \E items, adds \in SUBSET Item, drops \in SUBSET Annotation :
           Takes(p, f, items, adds, drops)
      \/ Stops(p) \/ OpenFile(p) \/ WriteFile(p) \/ Die(p)
  BY <1>3, ReadsCases
<1>5. ASSUME NEW f \in File, NEW items \in SUBSET Item, NEW adds \in SUBSET Item,
             NEW drops \in SUBSET Annotation, Takes(p, f, items, adds, drops)
      PROVE  StoreTypeOK' /\ StepCases(p)
  BY <1>2, <1>5, TakesEffect DEF Takes, StepCases
<1>. QED
  BY <1>2, <1>4, <1>5, SavesEffect, StopsEffect, OpensEffect, WritesEffect, DiesEffect
     DEF StepCases

LEMMA StepsStep ==
  ASSUME Accountable, StoreTypeOK', NEW p \in Command, StepCases(p)
  PROVE  StepsOK'
<1>. USE DEF Accountable, StepsOK, Holding, Others, Goes, KeepsItems
<1>1. ASSUME NEW c \in Capture, Saved(p, c) PROVE StepsOK'
  BY <1>1, StoreAssumption DEF Saved, KeepsItems, Idle
<1>2. ASSUME NEW f \in File, NEW items \in SUBSET Item, NEW adds \in SUBSET Item,
             NEW drops \in SUBSET Annotation,
             Took(p, f, items, adds, drops), Change(p, f, items, adds, drops)
      PROVE  StepsOK'
  <2>1. proc[p].step = "idle" => proc[p].saving = NoCapture
    BY DEF Idle
  <2>2. f # proc[p].saving
    BY <1>2, <2>1, StoreAssumption DEF Change, File
  <2>3. f = Index => drops = {}
    BY <1>2, StoreAssumption DEF Change
  <2>. QED
    BY <1>2, <2>2, <2>3 DEF Took
<1>3. CASE Stopped(p)
  BY <1>3 DEF Stopped
<1>4. ASSUME NEW f \in File, Opened(p, f) PROVE StepsOK'
  BY <1>4 DEF Opened
<1>5. ASSUME NEW f \in File, Written(p, f) PROVE StepsOK'
  BY <1>5 DEF Written
<1>6. ASSUME NEW f \in File, Died(p, f) PROVE StepsOK'
  BY <1>6 DEF Died
<1>. QED
  BY <1>1, <1>2, <1>3, <1>4, <1>5, <1>6 DEF StepCases

LEMMA KindsStep ==
  ASSUME Accountable, StoreTypeOK', NEW p \in Command, StepCases(p)
  PROVE  KindsOK'
<1>. USE DEF Accountable, KindsOK, Holding, Others, Goes, KeepsItems, StoreTypeOK, File
<1>1. ASSUME NEW c \in Capture, Saved(p, c) PROVE KindsOK'
  BY <1>1 DEF Saved, StepsOK, Idle
<1>2. ASSUME NEW f \in File, NEW items \in SUBSET Item, NEW adds \in SUBSET Item,
             NEW drops \in SUBSET Annotation,
             Took(p, f, items, adds, drops), Change(p, f, items, adds, drops)
      PROVE  KindsOK'
  BY <1>2 DEF Took, Change
<1>3. CASE Stopped(p)
  BY <1>3 DEF Stopped
<1>4. ASSUME NEW f \in File, Opened(p, f) PROVE KindsOK'
  BY <1>4 DEF Opened, Unreadable
<1>5. ASSUME NEW f \in File, Written(p, f) PROVE KindsOK'
  <2>1. ASSUME f \in Capture PROVE disk'[f].items \subseteq Annotation
    BY <1>5, <2>1, StoreAssumption DEF Written, Unreadable, Whole
  <2>2. \A c \in Capture \ {f} : disk'[c] = disk[c]
    BY <1>5 DEF Written
  <2>3. ~Holding(p)'
    BY <1>5 DEF Written
  <2>. QED
    BY <1>5, <2>1, <2>2, <2>3 DEF Written
<1>6. ASSUME NEW f \in File, Died(p, f) PROVE KindsOK'
  BY <1>6 DEF Died
<1>. QED
  BY <1>1, <1>2, <1>3, <1>4, <1>5, <1>6 DEF StepCases

LEMMA OneSaveStep ==
  ASSUME Accountable, StoreTypeOK', NEW p \in Command, StepCases(p)
  PROVE  OneSave'
<1>. USE DEF Accountable, OneSave, Others, Goes
<1>1. ASSUME NEW c \in Capture, Saved(p, c) PROVE OneSave'
  BY <1>1 DEF Saved
<1>2. ASSUME NEW f \in File, NEW items \in SUBSET Item, NEW adds \in SUBSET Item,
             NEW drops \in SUBSET Annotation,
             Took(p, f, items, adds, drops), Change(p, f, items, adds, drops)
      PROVE  OneSave'
  BY <1>2 DEF Took
<1>3. CASE Stopped(p)
  BY <1>3 DEF Stopped
<1>4. ASSUME NEW f \in File, Opened(p, f) PROVE OneSave'
  BY <1>4 DEF Opened
<1>5. ASSUME NEW f \in File, Written(p, f) PROVE OneSave'
  BY <1>5 DEF Written
<1>6. ASSUME NEW f \in File, Died(p, f) PROVE OneSave'
  BY <1>6 DEF Died
<1>. QED
  BY <1>1, <1>2, <1>3, <1>4, <1>5, <1>6 DEF StepCases

LEMMA FreshStep ==
  ASSUME Accountable, StoreTypeOK', NEW p \in Command, StepCases(p)
  PROVE  FreshUntilWritten'
<1>. USE DEF Accountable, FreshUntilWritten, Fresh, Annotators, Holds, Others, Goes, File
<1>1. ASSUME NEW c \in Capture, Saved(p, c) PROVE FreshUntilWritten'
  BY <1>1, StoreAssumption DEF Saved, StepsOK, Idle
<1>2. ASSUME NEW f \in File, NEW items \in SUBSET Item, NEW adds \in SUBSET Item,
             NEW drops \in SUBSET Annotation,
             Took(p, f, items, adds, drops), Change(p, f, items, adds, drops)
      PROVE  FreshUntilWritten'
  BY <1>2, StoreAssumption DEF Took, Change, StepsOK, Idle
<1>3. CASE Stopped(p)
  BY <1>3, StoreAssumption DEF Stopped
<1>4. ASSUME NEW f \in File, Opened(p, f) PROVE FreshUntilWritten'
  BY <1>4, StoreAssumption DEF Opened, Unreadable
<1>5. ASSUME NEW f \in File, Written(p, f) PROVE FreshUntilWritten'
  BY <1>5, StoreAssumption DEF Written, Unreadable, Whole, OneSave
<1>6. ASSUME NEW f \in File, Died(p, f) PROVE FreshUntilWritten'
  BY <1>6, StoreAssumption DEF Died
<1>. QED
  BY <1>1, <1>2, <1>3, <1>4, <1>5, <1>6 DEF StepCases

LEMMA SpoiltStep ==
  ASSUME Accountable, StoreTypeOK', NEW p \in Command, StepCases(p)
  PROVE  SpoiltByOverlap'
<1>. USE DEF Accountable, SpoiltByOverlap, Holds, Others, Goes, StoreTypeOK, File, Process
<1>1. ASSUME NEW c \in Capture, Saved(p, c) PROVE SpoiltByOverlap'
  BY <1>1, StoreAssumption DEF Saved, FreshUntilWritten, Fresh, Annotators
<1>2. ASSUME NEW f \in File, NEW items \in SUBSET Item, NEW adds \in SUBSET Item,
             NEW drops \in SUBSET Annotation,
             Took(p, f, items, adds, drops), Change(p, f, items, adds, drops)
      PROVE  SpoiltByOverlap'
  <2>1. \A g \in File : intact'[g] => intact[g]
    BY <1>2 DEF Took
  <2>2. ASSUME NEW g \in File, NEW q \in Command, NEW r \in Command,
               q # r, Holds(q, g)', Holds(r, g)'
        PROVE  ~intact'[g]
    <3>1. CASE q # p /\ r # p
      BY <1>2, <2>1, <2>2, <3>1 DEF Took
    <3>2. CASE g = f
      BY <1>2, <2>2, <3>2 DEF Took
    <3>3. CASE (q = p \/ r = p) /\ g # f
      BY <1>2, <2>2, <3>3 DEF Took
    <3>. QED
      BY <3>1, <3>2, <3>3
  <2>3. ASSUME NEW q \in Command, proc'[q].step = "opened", disk'[proc'[q].file].whole
        PROVE  ~intact'[proc'[q].file]
    BY <1>2, <2>1, <2>3 DEF Took
  <2>. QED
    BY <2>2, <2>3
<1>3. CASE Stopped(p)
  BY <1>3, StoreAssumption DEF Stopped
<1>4. ASSUME NEW f \in File, Opened(p, f) PROVE SpoiltByOverlap'
  BY <1>4, StoreAssumption DEF Opened, Unreadable
<1>5. ASSUME NEW f \in File, Written(p, f) PROVE SpoiltByOverlap'
  BY <1>5, StoreAssumption DEF Written, Unreadable, Whole
<1>6. ASSUME NEW f \in File, Died(p, f) PROVE SpoiltByOverlap'
  BY <1>6, StoreAssumption DEF Died
<1>. QED
  BY <1>1, <1>2, <1>3, <1>4, <1>5, <1>6 DEF StepCases

LEMMA AccountableStep == Accountable /\ Next => Accountable'
BY StoreCases, StepsStep, KindsStep, OneSaveStep, FreshStep, SpoiltStep DEF Accountable

-----------------------------------------------------------------------------
(* A listed capture has its file *)


LEMMA FiledKept ==
  ASSUME Accountable, Accountable', NEW p \in Command, StepCases(p),
         NEW d \in Capture, Filed(d)
  PROVE  Filed(d)'
<1>. USE DEF Accountable, Filed, Annotators, Holds, Others, Goes, File, Process, StoreTypeOK
<1>1. ASSUME NEW c \in Capture, Saved(p, c) PROVE Filed(d)'
  BY <1>1, StoreAssumption DEF Saved, StepsOK, Idle
<1>2. ASSUME NEW f \in File, NEW items \in SUBSET Item, NEW adds \in SUBSET Item,
             NEW drops \in SUBSET Annotation,
             Took(p, f, items, adds, drops), Change(p, f, items, adds, drops)
      PROVE  Filed(d)'
  BY <1>2, StoreAssumption DEF Took, Change, StepsOK, Idle
<1>3. CASE Stopped(p)
  BY <1>3, StoreAssumption DEF Stopped
<1>4. ASSUME NEW f \in File, Opened(p, f) PROVE Filed(d)'
  BY <1>4, StoreAssumption DEF Opened
<1>5. ASSUME NEW f \in File, Written(p, f) PROVE Filed(d)'
  <2>1. CASE f # d
    BY <1>5, <2>1, StoreAssumption DEF Written
  <2>2. CASE f = d
    <3>1. p \in Annotators(d) /\ p \in Annotators(d)'
      BY <1>5, <2>2 DEF Written
    <3>2. disk'[d].whole \/ disk[d].whole
      BY <1>5, <2>2 DEF Written, Whole
    <3>3. disk[d].whole => ~intact'[d]
      <4>1. proc[p].step = "opened" /\ proc[p].file = d /\ intact' = intact
        BY <1>5, <2>2 DEF Written
      <4>2. disk[proc[p].file].whole => ~intact[proc[p].file]
        BY <4>1 DEF SpoiltByOverlap
      <4>. QED
        BY <4>1, <4>2
    <3>. QED
      BY <1>5, <2>2, <3>1, <3>2, <3>3 DEF Written
  <2>. QED
    BY <2>1, <2>2
<1>6. ASSUME NEW f \in File, Died(p, f) PROVE Filed(d)'
  BY <1>6, StoreAssumption DEF Died
<1>. QED
  BY <1>1, <1>2, <1>3, <1>4, <1>5, <1>6 DEF StepCases

LEMMA FiledStep ==
  ASSUME Accountable, Accountable', NEW p \in Command, StepCases(p), FiledFirst
  PROVE  FiledFirst'
<1>. USE DEF Accountable, FiledFirst, Holds, Others, Goes, KeepsItems, File, Process,
     StoreTypeOK
<1>1. ASSUME NEW c \in Capture, Saved(p, c) PROVE FiledFirst'
  BY <1>1, FiledKept, StoreAssumption DEF Saved, KeepsItems, StepsOK, Idle
<1>2. ASSUME NEW f \in File, NEW items \in SUBSET Item, NEW adds \in SUBSET Item,
             NEW drops \in SUBSET Annotation,
             Took(p, f, items, adds, drops), Change(p, f, items, adds, drops)
      PROVE  FiledFirst'
  BY <1>2, FiledKept, StoreAssumption DEF Took, Change, StepsOK, Idle
<1>3. CASE Stopped(p)
  BY <1>3, FiledKept, StoreAssumption DEF Stopped
<1>4. ASSUME NEW f \in File, Opened(p, f) PROVE FiledFirst'
  BY <1>4, FiledKept, StoreAssumption DEF Opened, Unreadable
<1>5. ASSUME NEW f \in File, Written(p, f) PROVE FiledFirst'
  <2>1. \A d \in Capture : Filed(d) => Filed(d)'
    BY FiledKept
  <2>2. \A d \in disk'[Index].items : d \in Capture /\ Filed(d)'
    <3>1. CASE f = Index
      <4>1. \A d \in proc[p].items : d \in Capture /\ Filed(d)'
        BY <1>5, <2>1, <3>1 DEF Written
      <4>2. disk'[Index].items \subseteq proc[p].items
        BY <1>5, <3>1 DEF Written, Whole, Unreadable
      <4>. QED
        BY <4>1, <4>2
    <3>2. CASE f # Index
      BY <1>5, <2>1, <3>2 DEF Written
    <3>. QED
      BY <3>1, <3>2
  <2>3. ASSUME f = proc[p].saving PROVE f \in Capture /\ Filed(f)'
    <3>1. f \in Capture
      BY <2>3, StoreAssumption
    <3>2. ~disk[f].whole
      BY <1>5, <2>3, <3>1 DEF Written, FreshUntilWritten, Fresh
    <3>3. disk'[f].whole
      BY <1>5, <3>2 DEF Written, Whole
    <3>4. \A q \in Command : proc'[q].saving = f => q = p
      BY <1>5, <2>3, <3>1, StoreAssumption DEF Written, OneSave
    <3>. QED
      BY <1>5, <2>3, <3>1, <3>3, <3>4 DEF Written, Filed
  <2>. QED
    BY <1>5, <2>1, <2>2, <2>3 DEF Written
<1>6. ASSUME NEW f \in File, Died(p, f) PROVE FiledFirst'
  BY <1>6, FiledKept, StoreAssumption DEF Died
<1>. QED
  BY <1>1, <1>2, <1>3, <1>4, <1>5, <1>6 DEF StepCases

-----------------------------------------------------------------------------
(* Plain IDs stay unique *)

LEMMA PlainStep ==
  ASSUME Accountable, Accountable', NEW p \in Command, StepCases(p), PlainOK
  PROVE  PlainOK'
<1>. USE DEF Accountable, PlainOK, PlainIDsUnique, PlainUnique, Holding, Others, Goes,
     KeepsItems, File, StoreTypeOK
<1>1. ASSUME NEW c \in Capture, Saved(p, c) PROVE PlainOK'
  BY <1>1, StoreAssumption DEF Saved, Idle, StepsOK
<1>2. ASSUME NEW f \in File, NEW items \in SUBSET Item, NEW adds \in SUBSET Item,
             NEW drops \in SUBSET Annotation,
             Took(p, f, items, adds, drops), Change(p, f, items, adds, drops)
      PROVE  PlainOK'
  BY <1>2, StoreAssumption DEF Took, Change, KindsOK
<1>3. CASE Stopped(p)
  BY <1>3, StoreAssumption DEF Stopped
<1>4. ASSUME NEW f \in File, Opened(p, f) PROVE PlainOK'
  BY <1>4, StoreAssumption DEF Opened, Unreadable
<1>5. ASSUME NEW f \in File, Written(p, f) PROVE PlainOK'
  BY <1>5, StoreAssumption DEF Written, Whole, Unreadable
<1>6. ASSUME NEW f \in File, Died(p, f) PROVE PlainOK'
  BY <1>6, StoreAssumption DEF Died
<1>. QED
  BY <1>1, <1>2, <1>3, <1>4, <1>5, <1>6 DEF StepCases

-----------------------------------------------------------------------------
(* Updates that follow one another are kept *)

LEMMA StartedStep ==
  ASSUME Accountable, Accountable', NEW p \in Command, StepCases(p), MadeByStarted
  PROVE  MadeByStarted'
<1>. DEFINE Started(a) == proc[a.note].step # "idle"
            Goal == /\ \A c \in Capture : \A a \in disk'[c].items : Started(a)'
                    /\ \A q \in Command : \A a \in proc'[q].drops : Started(a)'
                    /\ \A q \in Command : Holding(q)' /\ proc'[q].file # Index =>
                         \A a \in proc'[q].items : Started(a)'
<1>1. \A a \in Annotation : a.note \in Command
  BY DEF Annotation
<1>2. \A q \in Command : proc[q].step # "idle" => proc'[q].step # "idle"
  BY DEF StepCases, Saved, Took, Change, Stopped, Opened, Written, Died, Goes, Others
<1>3. \A a \in Annotation : Started(a) => Started(a)'
  BY <1>1, <1>2
<1>4. /\ \A c \in Capture : disk[c].items \subseteq Annotation
      /\ \A q \in Command : proc[q].drops \subseteq Annotation
      /\ \A q \in Command : Holding(q) /\ proc[q].file # Index
           => proc[q].items \subseteq Annotation
  BY DEF Accountable, KindsOK, StoreTypeOK, Process
<1>5. /\ \A c \in Capture : \A a \in disk[c].items : Started(a)'
      /\ \A q \in Command : \A a \in proc[q].drops : Started(a)'
      /\ \A q \in Command : Holding(q) /\ proc[q].file # Index =>
           \A a \in proc[q].items : Started(a)'
  BY <1>3, <1>4 DEF MadeByStarted
<1>. HIDE DEF Started
<1>6. SUFFICES Goal
  BY DEF MadeByStarted, Started
<1>. USE DEF Holding, Goes, Others, KeepsItems, File
<1>7. ASSUME NEW c \in Capture, Saved(p, c) PROVE Goal
  <2>1. proc[p].items = {}
    BY <1>7 DEF Saved, Accountable, StepsOK, Idle
  <2>. QED
    BY <1>5, <1>7, <2>1 DEF Saved
<1>8. ASSUME NEW f \in File, NEW items \in SUBSET Item, NEW adds \in SUBSET Item,
             NEW drops \in SUBSET Annotation,
             Took(p, f, items, adds, drops), Change(p, f, items, adds, drops)
      PROVE  Goal
  <2>1. \A a \in drops : Started(a)'
    BY <1>5, <1>8 DEF Change
  <2>2. f # Index => \A a \in items : Started(a)'
    BY <1>5, <1>8 DEF Change, Took, Started
  <2>. QED
    BY <1>5, <1>8, <2>1, <2>2 DEF Took
<1>9. CASE Stopped(p)
  BY <1>5, <1>9 DEF Stopped
<1>10. ASSUME NEW f \in File, Opened(p, f) PROVE Goal
  BY <1>5, <1>10 DEF Opened, Unreadable
<1>11. ASSUME NEW f \in File, Written(p, f) PROVE Goal
  <2>1. ASSUME f \in Capture PROVE \A a \in disk'[f].items : Started(a)'
    BY <1>5, <1>11, <2>1, StoreAssumption DEF Written, Whole, Unreadable
  <2>. QED
    BY <1>5, <1>11, <2>1 DEF Written
<1>12. ASSUME NEW f \in File, Died(p, f) PROVE Goal
  BY <1>5, <1>12 DEF Died
<1>. QED
  BY <1>7, <1>8, <1>9, <1>10, <1>11, <1>12 DEF StepCases

\* A file nobody annotated has no finished update.
LEMMA FreshNet ==
  ASSUME Accountable, NEW c \in Capture, Fresh(c)
  PROVE  Done(c) = {} /\ Net(c) = {}
<1>1. Done(c) \subseteq Annotators(c)
  BY DEF Accountable, StepsOK, Done, Annotators
<1>. QED
  BY <1>1 DEF Fresh, Net, Added

\* Only a write that ends a command adds to the finished updates of its file.
LEMMA NetKept ==
  ASSUME Accountable, NEW p \in Command, StepCases(p), NEW f \in File,
         ~Written(p, f) \/ f = proc[p].saving
  PROVE  /\ Done(f)' = Done(f) /\ Net(f)' = Net(f)
         /\ \A q \in Done(f) : proc'[q] = proc[q]
<1>1. proc[p].step # "done"
  BY DEF StepCases, Saved, Change, Stopped, Opened, Written, Died
<1>2. ~(proc'[p].step = "done" /\ proc'[p].file = f)
  BY DEF StepCases, Saved, Took, Stopped, Opened, Written, Died, Goes
<1>3. \A q \in Command \ {p} : proc'[q] = proc[q]
  BY DEF StepCases, Saved, Took, Stopped, Opened, Written, Died, Goes, Others
<1>4. Done(f)' = Done(f) /\ \A q \in Done(f) : proc'[q] = proc[q]
  BY <1>1, <1>2, <1>3 DEF Done
<1>5. Added(f)' = Added(f) /\ Dropped(f)' = Dropped(f)
  BY <1>4 DEF Added, Dropped
<1>. QED
  BY <1>4, <1>5 DEF Net

LEMMA NetMembers ==
  ASSUME NEW f, NEW x
  PROVE  x \in Net(f) <=> /\ \E q \in Done(f) : x \in proc[q].adds
                          /\ ~\E q \in Done(f) : x \in proc[q].drops
<1>1. x \in Added(f) <=> \E q \in Done(f) : x \in proc[q].adds
  BY DEF Added
<1>2. x \in Dropped(f) <=> \E q \in Done(f) : x \in proc[q].drops
  BY DEF Dropped
<1>. QED
  BY <1>1, <1>2 DEF Net

LEMMA NetGrows ==
  ASSUME Accountable, NEW p \in Command, NEW f \in File, Written(p, f),
         f # proc[p].saving,
         \A q \in Done(f) : proc[p].adds \cap proc[q].drops = {}
  PROVE  Net(f)' = (Net(f) \cup proc[p].adds) \ proc[p].drops
<1>1. Done(f)' = Done(f) \cup {p}
  BY DEF Written, Goes, Others, Done
<1>2. \A q \in Done(f)' : proc'[q].adds = proc[q].adds /\ proc'[q].drops = proc[q].drops
  BY <1>1 DEF Written, Goes, Others, KeepsItems, Done
<1>3. \A x : x \in Net(f)' <=> /\ \E q \in Done(f)' : x \in proc[q].adds
                               /\ ~\E q \in Done(f)' : x \in proc[q].drops
  <2>1. ASSUME NEW x
        PROVE  x \in Added(f)' <=> \E q \in Done(f)' : x \in proc[q].adds
    BY <1>2 DEF Added
  <2>2. ASSUME NEW x
        PROVE  x \in Dropped(f)' <=> \E q \in Done(f)' : x \in proc[q].drops
    BY <1>2 DEF Dropped
  <2>. QED
    BY <2>1, <2>2 DEF Net
<1>4. \A x : x \in Net(f) <=> /\ \E q \in Done(f) : x \in proc[q].adds
                              /\ ~\E q \in Done(f) : x \in proc[q].drops
  BY NetMembers
<1>5. \A x : x \in Net(f)'
               <=> (x \in Net(f) \/ x \in proc[p].adds) /\ x \notin proc[p].drops
  BY <1>1, <1>3, <1>4
<1>. QED
  BY <1>5

LEMMA AccountedStep ==
  ASSUME Accountable, Accountable', NEW p \in Command, StepCases(p),
         MadeByStarted, Accounted
  PROVE  Accounted'
<1>. SUFFICES ASSUME NEW g \in File, intact'[g] PROVE AccountedFor(g)'
  BY DEF Accounted
<1>1. intact[g]
  BY DEF StepCases, Saved, Took, Stopped, Opened, Written, Died, File
<1>2. AccountedFor(g)
  BY <1>1 DEF Accounted
<1>. USE DEF AccountedFor, DiskAccounted, HolderAccounted, Holds, Goes, KeepsItems, Others
<1>3. ASSUME NEW c \in Capture, Saved(p, c) PROVE AccountedFor(g)'
  <2>1. Done(g)' = Done(g) /\ Net(g)' = Net(g)
          /\ \A q \in Done(g) : proc'[q] = proc[q]
    BY <1>3, NetKept DEF Saved, Written
  <2>2. g = c => Done(g) = {} /\ Net(g) = {}
    BY <1>3, FreshNet DEF Saved, Accountable, FreshUntilWritten
  <2>3. proc[p].items = {} /\ proc[p].adds = {} /\ proc[p].drops = {}
    BY <1>3 DEF Saved, Accountable, StepsOK, Idle
  <2>. QED
    BY <1>2, <1>3, <2>1, <2>2, <2>3 DEF Saved
<1>4. ASSUME NEW f \in File, NEW items \in SUBSET Item, NEW adds \in SUBSET Item,
             NEW drops \in SUBSET Annotation,
             Took(p, f, items, adds, drops), Change(p, f, items, adds, drops)
      PROVE  AccountedFor(g)'
  <2>1. Done(g)' = Done(g) /\ Net(g)' = Net(g)
          /\ \A q \in Done(g) : proc'[q] = proc[q]
    BY <1>4, NetKept DEF Change, Written
  <2>2. CASE g # f
    <3>1. proc[p].step \notin {"read", "opened"}
      BY <1>4 DEF Change
    <3>. QED
      BY <1>2, <1>4, <2>1, <2>2, <3>1 DEF Took
  <2>3. CASE g = f
    <3>1. \A q \in Command : ~Holds(q, f)
      BY <1>4, <2>3 DEF Took
    <3>2. disk[f].items = Net(f) /\ (disk[f].exists => disk[f].whole)
      BY <1>2, <2>3, <3>1
    <3>3. ASSUME NEW q \in Done(f) PROVE adds \cap proc[q].drops = {}
      <4>1. CASE f = Index
        BY <4>1 DEF Done, Accountable, StepsOK
      <4>2. CASE f # Index
        <5>1. \A a \in proc[q].drops : proc[a.note].step # "idle"
          BY DEF MadeByStarted, Done
        <5>2. \A a \in adds : proc[a.note].step = "idle"
          BY <1>4, <4>2 DEF Change
        <5>. QED
          BY <5>1, <5>2
      <4>. QED
        BY <4>1, <4>2
    <3>4. DiskAccounted(f)'
      BY <1>4, <2>1, <2>3, <3>2 DEF Took
    <3>5. items = (Net(f) \cup adds) \ drops
      BY <1>4, <3>2 DEF Change
    <3>6. \A q \in Command : HolderAccounted(q, f)'
      BY <1>4, <2>1, <2>3, <3>1, <3>3, <3>5 DEF Took
    <3>. QED
      BY <2>3, <3>4, <3>6
  <2>. QED
    BY <2>2, <2>3
<1>5. CASE Stopped(p)
  <2>1. Done(g)' = Done(g) /\ Net(g)' = Net(g)
          /\ \A q \in Done(g) : proc'[q] = proc[q]
    BY <1>5, NetKept DEF Stopped, Written
  <2>. QED
    BY <1>2, <1>5, <2>1 DEF Stopped
<1>6. ASSUME NEW f \in File, Opened(p, f) PROVE AccountedFor(g)'
  <2>1. Done(g)' = Done(g) /\ Net(g)' = Net(g)
          /\ \A q \in Done(g) : proc'[q] = proc[q]
    BY <1>6, NetKept DEF Opened, Written
  <2>. QED
    BY <1>2, <1>6, <2>1 DEF Opened
<1>7. ASSUME NEW f \in File, Written(p, f) PROVE AccountedFor(g)'
  <2>1. CASE g # f
    <3>1. Done(g)' = Done(g) /\ Net(g)' = Net(g)
            /\ \A q \in Done(g) : proc'[q] = proc[q]
      BY <1>7, <2>1, NetKept DEF Written
    <3>. QED
      BY <1>2, <1>7, <2>1, <3>1 DEF Written
  <2>2. CASE g = f
    <3>1. Holds(p, f) /\ disk'[f] = Whole(proc[p].items)
      BY <1>1, <1>7, <2>2 DEF Written, Accountable, SpoiltByOverlap
    <3>2. \A q \in Command : ~Holds(q, f)'
      BY <1>1, <1>7, <2>2, <3>1 DEF Written, Accountable, SpoiltByOverlap
    <3>3. Net(f)' = proc[p].items
      <4>1. CASE f = proc[p].saving
        <5>1. f \in Capture /\ Fresh(f)
          BY <3>1, <4>1, StoreAssumption
             DEF Accountable, FreshUntilWritten, StoreTypeOK, Process, File
        <5>2. Net(f)' = Net(f) /\ Net(f) = {}
          BY <4>1, <5>1, NetKept, FreshNet
        <5>3. proc[p].items = {}
          BY <3>1, <4>1 DEF Accountable, StepsOK, Holding
        <5>. QED
          BY <5>2, <5>3
      <4>2. CASE f # proc[p].saving
        <5>1. /\ proc[p].items = (Net(f) \cup proc[p].adds) \ proc[p].drops
              /\ \A q \in Done(f) : proc[p].adds \cap proc[q].drops = {}
          BY <1>2, <2>2, <3>1
        <5>. QED
          BY <1>7, <4>2, <5>1, NetGrows
      <4>. QED
        BY <4>1, <4>2
    <3>. QED
      BY <2>2, <3>1, <3>2, <3>3 DEF Whole
  <2>. QED
    BY <2>1, <2>2
<1>8. ASSUME NEW f \in File, Died(p, f) PROVE AccountedFor(g)'
  <2>1. Done(g)' = Done(g) /\ Net(g)' = Net(g)
          /\ \A q \in Done(g) : proc'[q] = proc[q]
    BY <1>8, NetKept DEF Died, Written, Goes
  <2>2. \A q \in Command : Holds(q, g) /\ proc[q].step = "opened"
          => Holds(q, g)' /\ proc'[q].step = "opened"
    BY <1>8 DEF Died
  <2>. QED
    BY <1>2, <1>8, <2>1, <2>2 DEF Died
<1>. QED
  BY <1>3, <1>4, <1>5, <1>6, <1>7, <1>8 DEF StepCases

-----------------------------------------------------------------------------
(* The theorems *)

StoreInv == Accountable /\ FiledFirst /\ MadeByStarted /\ Accounted /\ PlainOK

LEMMA StoreInitInv == Init => StoreInv
<1>. SUFFICES ASSUME Init PROVE StoreInv
  OBVIOUS
<1>. USE StoreAssumption DEF Init, Idle, Absent
<1>1. StoreTypeOK
  BY DEF StoreTypeOK, Contents, Process, Step, File
<1>2. StepsOK /\ KindsOK /\ OneSave /\ SpoiltByOverlap
  BY DEF StepsOK, KindsOK, OneSave, SpoiltByOverlap, Holding, Holds, File
<1>3. FreshUntilWritten
  BY DEF FreshUntilWritten, Fresh, Annotators, Holds, File
<1>4. FiledFirst
  BY DEF FiledFirst, Holds, File
<1>5. MadeByStarted /\ PlainOK
  BY DEF MadeByStarted, PlainOK, PlainIDsUnique, Holding, File
<1>6. \A f \in File : Done(f) = {}
  BY DEF Done
<1>7. Accounted
  BY <1>6 DEF Accounted, AccountedFor, DiskAccounted, HolderAccounted, Net, Added, Holds
<1>. QED
  BY <1>1, <1>2, <1>3, <1>4, <1>5, <1>7 DEF StoreInv, Accountable

LEMMA StoreInvStep == StoreInv /\ [Next]_vars => StoreInv'
<1>. SUFFICES ASSUME StoreInv, [Next]_vars PROVE StoreInv'
  OBVIOUS
<1>1. CASE Next
  BY <1>1, AccountableStep, StoreCases, FiledStep, StartedStep, AccountedStep, PlainStep
     DEF StoreInv
<1>2. CASE UNCHANGED vars
  BY <1>2 DEF vars, StoreInv, Accountable, StoreTypeOK, StepsOK, KindsOK, OneSave,
     FreshUntilWritten, Fresh, SpoiltByOverlap, FiledFirst, Filed, MadeByStarted,
     Accounted, AccountedFor, DiskAccounted, HolderAccounted, PlainOK,
     PlainIDsUnique, PlainUnique, Net, Added, Dropped, Done, Annotators, Holds, Holding
<1>. QED
  BY <1>1, <1>2

LEMMA StoreInvariant == Spec => []StoreInv
BY StoreInitInv, StoreInvStep, PTL DEF Spec

\* Store.Save writes a capture before its entry, so what the history lists can be
\* replayed, unless annotate commands took it, however saves and kills interleave.
THEOREM FileBeforeEntry == Spec => []EntriesHaveFiles
<1>1. StoreInv => EntriesHaveFiles
  BY DEF StoreInv, FiledFirst, Filed, EntriesHaveFiles, Listed
<1>. QED
  BY <1>1, StoreInvariant, PTL

\* Without a lock, nothing is lost but by overlapping updates or one cut off.
THEOREM OnlyOverlapLoses == Spec => []UpdatesKept
<1>1. StoreInv => UpdatesKept
  BY DEF StoreInv, Accounted, AccountedFor, DiskAccounted, Net, UpdatesKept
<1>. QED
  BY <1>1, StoreInvariant, PTL

\* annotate's plain IDs are unique in every file, also when updates are lost.
THEOREM PlainIDs == Spec => []PlainIDsUnique
<1>1. StoreInv => PlainIDsUnique
  BY DEF StoreInv, PlainOK
<1>. QED
  BY <1>1, StoreInvariant, PTL
=============================================================================
