----------------------------- MODULE SSEStream ------------------------------
(***************************************************************************)
(* GET /api/v1/stream (internal/api/http.go, handleStream and             *)
(* sendSSEDelta) over the engine as Revisions describes it, and a client   *)
(* that follows the protocol of its doc comment: it applies every delta to *)
(* a local copy and resumes from the last event ID it saw.                 *)
(*                                                                         *)
(* A handler takes e.mu twice per round: DeltaSince reads the delta (Send) *)
(* and DataVersion reads the revision the next one starts from (Stamp).    *)
(* The writers run in between.                                             *)
(*                                                                         *)
(* A client's old handler and its next one may overlap; the old one writes *)
(* to a dead connection, so one handler per client loses nothing.          *)
(***************************************************************************)
EXTENDS Revisions

CONSTANT Writes   \* what the writers do: a subset of touch, amend, clear

ASSUME WritesAssumption == Writes \subseteq {"touch", "amend", "clear"}

VARIABLES
  pc,           \* the client's handler: none, about to send, to stamp, waiting
  rev,          \* clientRevision of the handler
  link,         \* is the connection still open?
  view,         \* the client's copy of each goroutine's record
  lastEventID,  \* the id line of the last delta the client received
  \* History: what a delta cannot bring, and what was announced.
  read,         \* version at which the handler last read a delta
  missed,       \* goroutines whose last event fell between a Send and its Stamp
  silent,       \* goroutines amended since their last event
  flushed       \* version at the last notification

handlerVars == <<pc, rev, link, read>>
clientVars == <<view, lastEventID>>
streamVars == <<handlerVars, clientVars, missed, silent, flushed>>
sseVars == <<revisionsVars, streamVars>>

SSEInit ==
  /\ RevisionsInit
  /\ pc = [c \in Subscribers |-> "none"]
  /\ rev = [c \in Subscribers |-> 0]
  /\ link = [c \in Subscribers |-> FALSE]
  /\ read = [c \in Subscribers |-> 0]
  /\ view = [c \in Subscribers |-> [g \in Goroutine |-> NoContent]]
  /\ lastEventID = [c \in Subscribers |-> 0]
  /\ missed = [c \in Subscribers |-> {}]
  /\ silent = {}
  /\ flushed = 0

-----------------------------------------------------------------------------
(* The handler *)

\* The request arrives: the client resumes, or starts over with an empty copy
\* (a page load).  The handler subscribes before it reads anything.
Connect(c) ==
  /\ pc[c] = "none"
  /\ Subscribe(c)
  /\ \/ UNCHANGED clientVars
     \/ /\ view' = [view EXCEPT ![c] = [g \in Goroutine |-> NoContent]]
        /\ lastEventID' = [lastEventID EXCEPT ![c] = 0]
  /\ rev' = [rev EXCEPT ![c] = lastEventID'[c]]
  /\ pc' = [pc EXCEPT ![c] = "send"]
  /\ link' = [link EXCEPT ![c] = TRUE]
  /\ UNCHANGED <<read, missed, silent, flushed>>

\* sendSSEDelta: an empty delta is not sent unless it answers revision 0.
Send(c) ==
  LET delta == DeltaSince(rev[c])
      told  == delta.added \cup delta.updated
      sent  == (told # {} \/ rev[c] = 0) /\ link[c]
  IN  /\ pc[c] = "send"
      /\ ~ busy
      /\ view' = IF sent
                 THEN [view EXCEPT ![c] =
                         [g \in Goroutine |->
                            IF g \in told THEN content[g]
                            ELSE IF g \in delta.removed THEN NoContent
                            ELSE @[g]]]
                 ELSE view
      /\ lastEventID' = IF sent
                        THEN [lastEventID EXCEPT ![c] = delta.revision]
                        ELSE lastEventID
      /\ read' = [read EXCEPT ![c] = version]
      /\ pc' = [pc EXCEPT ![c] = "stamp"]
      /\ UNCHANGED <<revisionsVars, rev, link, missed, silent, flushed>>

\* Mutant: the handler drains its channel when it stamps, but keeps the revision
\* of the delta.
StampDraining(c) ==
  /\ pc[c] = "stamp"
  /\ ~ busy
  /\ rev' = [rev EXCEPT ![c] = read[c]]
  /\ signal' = [signal EXCEPT ![c] = "empty"]
  /\ pc' = [pc EXCEPT ![c] = "wait"]
  /\ UNCHANGED <<storeVars, notifyDue, clientVars, link, read, missed, silent,
                 flushed>>

\* clientRevision = eng.DataVersion(), under a second acquisition of the lock.
Stamp(c) ==
  /\ pc[c] = "stamp"
  /\ ~ busy
  /\ rev' = [rev EXCEPT ![c] = version]
  /\ missed' = [missed EXCEPT
                  ![c] = @ \cup {g \in Goroutine : changedAt[g] > read[c]}]
  /\ pc' = [pc EXCEPT ![c] = "wait"]
  /\ UNCHANGED <<revisionsVars, clientVars, link, read, silent, flushed>>

\* The select receives a signal.
Wake(c) ==
  /\ pc[c] = "wait"
  /\ TakeSignal(c)
  /\ pc' = [pc EXCEPT ![c] = "send"]
  /\ UNCHANGED <<clientVars, rev, link, read, missed, silent, flushed>>

\* The select sees the request's context done; the deferred Unsubscribe runs.
Done(c) ==
  /\ pc[c] = "wait"
  /\ ~ link[c]
  /\ Unsubscribe(c)
  /\ pc' = [pc EXCEPT ![c] = "none"]
  /\ rev' = [rev EXCEPT ![c] = 0]
  /\ read' = [read EXCEPT ![c] = 0]
  /\ UNCHANGED <<clientVars, link, missed, silent, flushed>>

\* The connection breaks, at any moment.
Drop(c) ==
  /\ link[c]
  /\ link' = [link EXCEPT ![c] = FALSE]
  /\ UNCHANGED <<revisionsVars, clientVars, pc, rev, read, missed, silent, flushed>>

-----------------------------------------------------------------------------
(* The writers, with what each does to the history *)

Amendments == {g \in Goroutine : content'[g] # content[g]}

WriterTouch(g) ==
  /\ "touch" \in Writes
  /\ Touch(g)
  /\ missed' = [c \in Subscribers |-> missed[c] \ {g}]
  /\ silent' = silent \ {g}
  /\ UNCHANGED <<handlerVars, clientVars, flushed>>

WriterAmend ==
  /\ "amend" \in Writes
  /\ ~ busy
  /\ Amend
  /\ silent' = silent \cup Amendments
  /\ UNCHANGED <<handlerVars, clientVars, missed, flushed>>

WriterClear(keepsLock) ==
  /\ "clear" \in Writes
  /\ Clear(keepsLock)
  /\ silent' = {}
  /\ missed' = [c \in Subscribers |-> {}]
  /\ UNCHANGED <<handlerVars, clientVars, flushed>>

WriterRelease ==
  /\ Release
  /\ silent' = silent \cup Amendments
  /\ UNCHANGED <<handlerVars, clientVars, missed, flushed>>

WriterNotify ==
  /\ Flush \/ LoadNotify
  /\ flushed' = version
  /\ UNCHANGED <<handlerVars, clientVars, missed, silent>>

Handler(c) == Send(c) \/ Stamp(c) \/ Wake(c)

SSENext ==
  \/ \E c \in Subscribers : Connect(c) \/ Handler(c) \/ Done(c) \/ Drop(c)
  \/ \E g \in Goroutine : WriterTouch(g)
  \/ WriterAmend
  \/ \E keepsLock \in BOOLEAN : WriterClear(keepsLock)
  \/ WriterRelease
  \/ WriterNotify

\* The handler is a goroutine that Go schedules, LoadCapture's critical section
\* ends, and sync.RWMutex keeps writers from barring a reader for ever: Send and
\* Stamp need e.mu, which writers release between any two steps, so they are
\* strongly fair.  Nothing obliges a writer to write or a client to stay.
SSESpec ==
  /\ SSEInit
  /\ [][SSENext]_sseVars
  /\ WF_sseVars(WriterRelease)
  /\ \A c \in Subscribers :
       SF_sseVars(Send(c)) /\ SF_sseVars(Stamp(c)) /\ WF_sseVars(Wake(c))

-----------------------------------------------------------------------------
(* Properties *)

\* Every variable holds a value of its kind.
SSETypeOK ==
  /\ content \in Contents
  /\ version \in Nat
  /\ bornAt \in [Goroutine -> Nat]
  /\ changedAt \in [Goroutine -> Nat]
  /\ busy \in BOOLEAN
  /\ signal \in [Subscribers -> {"off", "empty", "full"}]
  /\ notifyDue \in Nat
  /\ pc \in [Subscribers -> {"none", "send", "stamp", "wait"}]
  /\ rev \in [Subscribers -> Nat]
  /\ link \in [Subscribers -> BOOLEAN]
  /\ read \in [Subscribers -> Nat]
  /\ view \in [Subscribers -> Contents]
  /\ lastEventID \in [Subscribers -> Nat]
  /\ missed \in [Subscribers -> SUBSET Goroutine]
  /\ silent \subseteq Goroutine
  /\ flushed \in Nat

\* The revision after which the next delta to this client starts: the handler's
\* while the connection lasts, the one it will resume from once it is broken.
Known(c) == IF link[c] THEN rev[c] ELSE lastEventID[c]

\* A tracked goroutine whose record differs from the client's copy is still to
\* come in the next delta, or its last event fell into the window between a
\* delta and its revision stamp, or it was changed by something other than an
\* event: there is no fourth way to lose an update, through any number of
\* broken connections, resumes, resets and loads.
LossExplained ==
  \A c \in Subscribers, g \in Goroutine :
    content[g] \notin {NoContent, view[c][g]}
      => changedAt[g] > Known(c) \/ g \in missed[c] \/ g \in silent

\* A handler that waits without a signal pending has been past the version of
\* the last notification: no wake-up is lost to the one-slot channel.
WakeCovered ==
  \A c \in Subscribers :
    pc[c] = "wait" /\ signal[c] = "empty" => rev[c] >= flushed

\* Whatever was announced reaches every handler that stays: it reads a delta at
\* that version or later, or its client leaves.
FlushReaches ==
  \A c \in Subscribers, v \in 1..MaxVersion :
    (pc[c] # "none" /\ flushed = v) ~> (pc[c] = "none" \/ rev[c] >= v)

\* Everything is announced and the client has nothing more to wait for.
Quiescent(c) ==
  /\ link[c] /\ pc[c] = "wait" /\ signal[c] = "empty"
  /\ ~ busy /\ flushed = version

\* handleStream's comment: the client does not need to re-fetch the list.  When
\* all is quiet, its copy of every tracked goroutine is the engine's.
QuiescentViewCurrent ==
  \A c \in Subscribers, g \in Goroutine :
    Quiescent(c) /\ content[g] # NoContent => view[c][g] = content[g]

\* DeltaSince's comment: the engine never deletes goroutines, so the client never
\* has to remove one.  When all is quiet, it shows none the engine lacks.
NoPhantoms ==
  \A c \in Subscribers, g \in Goroutine :
    Quiescent(c) /\ content[g] = NoContent => view[c][g] = NoContent
=============================================================================
