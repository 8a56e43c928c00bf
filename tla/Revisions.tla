----------------------------- MODULE Revisions ------------------------------
(***************************************************************************)
(* What the engine promises its stream subscribers: a version, the two     *)
(* revision marks DeltaSince reads, and a signal that coalesces.           *)
(*                                                                         *)
(* A goroutine's record is opaque content.  Touch is an event: it moves    *)
(* the marks.  Amend is every other write (a stack, parents, labels, the   *)
(* graph, processor segments): it moves the version only.  Clear drops all *)
(* goroutines and may keep the lock, as LoadCapture does until Release.    *)
(* Engine implements this module (EngineRefinement).                        *)
(***************************************************************************)
EXTENDS Integers

CONSTANTS
  Goroutine,    \* goroutine IDs
  Content,      \* what the record of a tracked goroutine can be
  NoContent,    \* the goroutine is not tracked
  Stay(_),      \* the part of a record that only events write
  Subscribers,  \* channels handed out by Subscribe
  MaxVersion    \* bound: the version stops here

ASSUME RevisionsAssumption == NoContent \notin Content /\ MaxVersion \in Nat

VARIABLES
  content,      \* e.goroutines
  version,      \* e.dataVersion
  bornAt,       \* e.goroutineBornAt, 0 when missing
  changedAt,    \* e.goroutineChangedAt, 0 when missing
  busy,         \* LoadCapture holds e.mu
  signal,       \* each subscriber's channel: off, empty or full
  notifyDue     \* LoadCaptures unlocked but not yet notified

revisionsVars == <<content, version, bornAt, changedAt, busy, signal, notifyDue>>
storeVars == <<content, version, bornAt, changedAt, busy>>

Contents == [Goroutine -> Content \cup {NoContent}]

RevisionsInit ==
  /\ content = [g \in Goroutine |-> NoContent]
  /\ version = 0
  /\ bornAt = [g \in Goroutine |-> 0]
  /\ changedAt = [g \in Goroutine |-> 0]
  /\ busy = FALSE
  /\ signal = [s \in Subscribers |-> "off"]
  /\ notifyDue = 0

Bump == version < MaxVersion /\ version' = version + 1

\* Mutant: an unbuffered channel, whose receiver is never ready in time.
NotifyUnbuffered == signal' = [s \in Subscribers |-> signal[s]]

Notify == signal' = [s \in Subscribers |->
                       IF signal[s] = "empty" THEN "full" ELSE signal[s]]

\* A write other than an event never forgets a goroutine or moves its state.
Amended ==
  /\ content' \in Contents
  /\ \A g \in Goroutine :
       content[g] # NoContent
         => content'[g] # NoContent /\ Stay(content'[g]) = Stay(content[g])

-----------------------------------------------------------------------------

Touch(g) ==
  /\ Bump
  /\ content' \in Contents
  /\ content'[g] # NoContent
  /\ \A h \in Goroutine \ {g} : content'[h] = content[h]
  /\ bornAt' = [bornAt EXCEPT ![g] = IF @ = 0 THEN version' ELSE @]
  /\ changedAt' = [changedAt EXCEPT ![g] = version']
  /\ UNCHANGED <<busy, signal, notifyDue>>

Amend ==
  /\ Bump
  /\ Amended
  /\ UNCHANGED <<bornAt, changedAt, busy, signal, notifyDue>>

Clear(keepsLock) ==
  /\ ~ busy
  /\ Bump
  /\ content' = [g \in Goroutine |-> NoContent]
  /\ bornAt' = [g \in Goroutine |-> 0]
  /\ changedAt' = [g \in Goroutine |-> 0]
  /\ busy' = keepsLock
  /\ UNCHANGED <<signal, notifyDue>>

\* LoadCapture merges parents and labels, under no new version, and unlocks.
Release ==
  /\ busy
  /\ busy' = FALSE
  /\ Amended
  /\ \A g \in Goroutine : content[g] = NoContent => content'[g] = NoContent
  /\ notifyDue' = notifyDue + 1
  /\ UNCHANGED <<version, bornAt, changedAt, signal>>

LoadNotify ==
  /\ notifyDue > 0
  /\ notifyDue' = notifyDue - 1
  /\ Notify
  /\ UNCHANGED storeVars

Flush == Notify /\ UNCHANGED <<storeVars, notifyDue>>

Subscribe(s) ==
  /\ signal[s] = "off"
  /\ signal' = [signal EXCEPT ![s] = "empty"]
  /\ UNCHANGED <<storeVars, notifyDue>>

Unsubscribe(s) ==
  /\ signal[s] # "off"
  /\ signal' = [signal EXCEPT ![s] = "off"]
  /\ UNCHANGED <<storeVars, notifyDue>>

TakeSignal(s) ==
  /\ signal[s] = "full"
  /\ signal' = [signal EXCEPT ![s] = "empty"]
  /\ UNCHANGED <<storeVars, notifyDue>>

RevisionsNext ==
  \/ \E g \in Goroutine : Touch(g)
  \/ Amend
  \/ \E keepsLock \in BOOLEAN : Clear(keepsLock)
  \/ Release
  \/ LoadNotify
  \/ Flush
  \/ \E s \in Subscribers : Subscribe(s) \/ Unsubscribe(s) \/ TakeSignal(s)

RevisionsSpec == RevisionsInit /\ [][RevisionsNext]_revisionsVars

-----------------------------------------------------------------------------
(* DeltaSince: what a subscriber at a revision is sent.  Removed is always  *)
(* empty.                                                                   *)

\* Mutant: off by one at the client's revision.
ChangedLater(revision) ==
  {g \in Goroutine : content[g] # NoContent /\ changedAt[g] > revision + 1}

ChangedSince(revision) ==
  {g \in Goroutine : content[g] # NoContent /\ changedAt[g] > revision}

\* Mutant: the delta carries the version before its own.
DeltaBefore(revision) ==
  [revision |-> version - 1,
   added    |-> {g \in ChangedSince(revision) : bornAt[g] > revision},
   updated  |-> {g \in ChangedSince(revision) : bornAt[g] <= revision},
   removed  |-> {}]

DeltaSince(revision) ==
  [revision |-> version,
   added    |-> {g \in ChangedSince(revision) : bornAt[g] > revision},
   updated  |-> {g \in ChangedSince(revision) : bornAt[g] <= revision},
   removed  |-> {}]
=============================================================================
