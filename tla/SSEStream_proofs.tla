-------------------------- MODULE SSEStream_proofs --------------------------
(***************************************************************************)
(* Theorems about SSEStream, for every number of clients, goroutines and   *)
(* versions: what the stream can lose, and that no wake-up is lost.        *)
(***************************************************************************)
EXTENDS SSEStream, TLAPS

(* The inductive invariant.  A stale entry must be excused not only at the   *)
(* revision the next delta starts from: also at the last event ID, which is  *)
(* where the client resumes when the connection breaks, and, between a delta *)
(* and its stamp, at the version that was read.  An entry that was never     *)
(* touched is silent, so that a client may start over at revision 0.         *)

Stale(c, g) == content[g] \notin {NoContent, view[c][g]}
Excused(c, g, r) == changedAt[g] > r \/ g \in missed[c] \/ g \in silent

RevisionsBounded ==
  /\ \A g \in Goroutine : changedAt[g] <= version
  /\ \A c \in Subscribers :
       rev[c] <= version /\ read[c] <= version /\ lastEventID[c] <= version
  /\ flushed <= version

UntouchedSilent ==
  \A g \in Goroutine : content[g] # NoContent => changedAt[g] > 0 \/ g \in silent

StaleExcused ==
  \A c \in Subscribers, g \in Goroutine : Stale(c, g) =>
    /\ Excused(c, g, lastEventID[c])
    /\ link[c] => Excused(c, g, rev[c])
    /\ link[c] /\ pc[c] = "stamp" => Excused(c, g, read[c])

HandlerSubscribed ==
  \A c \in Subscribers : pc[c] # "none" => signal[c] # "off"

SSEInv ==
  /\ SSETypeOK
  /\ RevisionsBounded
  /\ UntouchedSilent
  /\ StaleExcused
  /\ HandlerSubscribed
  /\ WakeCovered

-----------------------------------------------------------------------------

LEMMA SSEInitInv == SSEInit => SSEInv
<1>. SUFFICES ASSUME SSEInit PROVE SSEInv
  OBVIOUS
<1>. USE DEF SSEInit, RevisionsInit
<1>1. SSETypeOK
  BY DEF SSETypeOK, Contents
<1>2. RevisionsBounded
  BY DEF RevisionsBounded
<1>3. UntouchedSilent /\ StaleExcused
  BY DEF UntouchedSilent, StaleExcused, Stale
<1>4. HandlerSubscribed /\ WakeCovered
  BY DEF HandlerSubscribed, WakeCovered
<1>. QED
  BY <1>1, <1>2, <1>3, <1>4 DEF SSEInv

LEMMA SSETypeStep == SSETypeOK /\ [SSENext]_sseVars => SSETypeOK'
<1>. SUFFICES ASSUME SSETypeOK, [SSENext]_sseVars PROVE SSETypeOK'
  OBVIOUS
<1>. USE DEF revisionsVars, storeVars, handlerVars, clientVars
<1>1. ASSUME NEW c \in Subscribers, Connect(c) PROVE SSETypeOK'
  <2>1. view' \in [Subscribers -> Contents] /\ lastEventID' \in [Subscribers -> Nat]
    <3>1. [g \in Goroutine |-> NoContent] \in Contents
      BY DEF Contents
    <3>2. CASE UNCHANGED clientVars
      BY <3>2 DEF SSETypeOK
    <3>3. CASE /\ view' = [view EXCEPT ![c] = [g \in Goroutine |-> NoContent]]
               /\ lastEventID' = [lastEventID EXCEPT ![c] = 0]
      BY <3>1, <3>3 DEF SSETypeOK
    <3>. QED
      BY <1>1, <3>2, <3>3 DEF Connect
  <2>2. rev' \in [Subscribers -> Nat]
    BY <1>1, <2>1 DEF Connect, SSETypeOK
  <2>. QED
    BY <1>1, <2>1, <2>2 DEF Connect, Subscribe, SSETypeOK
<1>2. ASSUME NEW c \in Subscribers, Send(c) PROVE SSETypeOK'
  <2>1. view' \in [Subscribers -> Contents]
    BY <1>2 DEF Send, SSETypeOK, Contents
  <2>2. lastEventID' \in [Subscribers -> Nat]
    BY <1>2 DEF Send, SSETypeOK, DeltaSince
  <2>. QED
    BY <1>2, <2>1, <2>2 DEF Send, SSETypeOK
<1>3. ASSUME NEW c \in Subscribers, Stamp(c) PROVE SSETypeOK'
  BY <1>3 DEF Stamp, SSETypeOK
<1>4. ASSUME NEW c \in Subscribers, Wake(c) PROVE SSETypeOK'
  BY <1>4 DEF Wake, TakeSignal, SSETypeOK
<1>5. ASSUME NEW c \in Subscribers, Done(c) PROVE SSETypeOK'
  BY <1>5 DEF Done, Unsubscribe, SSETypeOK
<1>6. ASSUME NEW c \in Subscribers, Drop(c) PROVE SSETypeOK'
  BY <1>6 DEF Drop, SSETypeOK
<1>7. ASSUME NEW g \in Goroutine, WriterTouch(g) PROVE SSETypeOK'
  BY <1>7 DEF WriterTouch, Touch, Bump, SSETypeOK
<1>8. ASSUME WriterAmend PROVE SSETypeOK'
  BY <1>8 DEF WriterAmend, Amend, Amended, Bump, Amendments, SSETypeOK
<1>9. ASSUME NEW keepsLock \in BOOLEAN, WriterClear(keepsLock) PROVE SSETypeOK'
  BY <1>9 DEF WriterClear, Clear, Bump, SSETypeOK, Contents
<1>10. ASSUME WriterRelease PROVE SSETypeOK'
  <2>1. silent' \subseteq Goroutine /\ content' \in Contents /\ notifyDue' \in Nat
    BY <1>10 DEF WriterRelease, Release, Amended, Amendments, SSETypeOK
  <2>. QED
    BY <1>10, <2>1 DEF WriterRelease, Release, SSETypeOK
<1>11. ASSUME WriterNotify PROVE SSETypeOK'
  BY <1>11 DEF WriterNotify, Flush, LoadNotify, Notify, SSETypeOK
<1>12. CASE UNCHANGED sseVars
  BY <1>12 DEF sseVars, streamVars, SSETypeOK
<1>. QED
  BY <1>1, <1>2, <1>3, <1>4, <1>5, <1>6, <1>7, <1>8, <1>9, <1>10, <1>11, <1>12
     DEF SSENext, Handler

-----------------------------------------------------------------------------
(* One lemma per step: what it does to the invariant's parts *)

LEMMA ConnectInv ==
  ASSUME SSEInv, SSETypeOK', NEW c \in Subscribers, Connect(c)
  PROVE  SSEInv'
<1>. USE DEF SSEInv, storeVars, clientVars
<1>1. /\ \A d \in Subscribers \ {c} :
           /\ view'[d] = view[d] /\ lastEventID'[d] = lastEventID[d]
           /\ rev'[d] = rev[d] /\ pc'[d] = pc[d] /\ link'[d] = link[d]
           /\ signal'[d] = signal[d]
      /\ rev'[c] = lastEventID'[c] /\ pc'[c] = "send"
      /\ signal'[c] = "empty"
      /\ \/ view'[c] = view[c] /\ lastEventID'[c] = lastEventID[c]
         \/ view'[c] = [g \in Goroutine |-> NoContent] /\ lastEventID'[c] = 0
      /\ UNCHANGED <<content, version, changedAt, read, missed, silent, flushed>>
  BY DEF Connect, Subscribe, SSETypeOK
<1>2. RevisionsBounded'
  BY <1>1 DEF RevisionsBounded, SSETypeOK
<1>3. UntouchedSilent'
  BY <1>1 DEF UntouchedSilent
<1>4. StaleExcused'
  <2>. SUFFICES ASSUME NEW d \in Subscribers, NEW g \in Goroutine, Stale(d, g)'
                PROVE  /\ Excused(d, g, lastEventID[d])'
                       /\ link'[d] => Excused(d, g, rev[d])'
                       /\ link'[d] /\ pc'[d] = "stamp" => Excused(d, g, read[d])'
    BY DEF StaleExcused
  <2>1. CASE d # c
    BY <1>1, <2>1 DEF StaleExcused, Stale, Excused
  <2>2. CASE d = c
    <3>1. Excused(c, g, lastEventID[c])'
      BY <1>1, <2>2 DEF StaleExcused, Stale, Excused, UntouchedSilent
    <3>. QED
      BY <1>1, <2>2, <3>1 DEF Excused
  <2>. QED
    BY <2>1, <2>2
<1>5. HandlerSubscribed' /\ WakeCovered'
  BY <1>1 DEF HandlerSubscribed, WakeCovered
<1>. QED
  BY <1>2, <1>3, <1>4, <1>5

\* A delta brings every tracked goroutine that changed after the revision.
LEMMA DeltaTells ==
  ASSUME SSEInv, NEW r \in Nat, NEW g \in Goroutine, content[g] # NoContent,
         changedAt[g] > r
  PROVE  g \in DeltaSince(r).added \cup DeltaSince(r).updated
<1>1. bornAt[g] \in Nat
  BY DEF SSEInv, SSETypeOK
<1>2. g \in ChangedSince(r)
  BY DEF ChangedSince
<1>3. bornAt[g] > r \/ bornAt[g] <= r
  BY <1>1
<1>. QED
  BY <1>2, <1>3 DEF DeltaSince

LEMMA SendInv ==
  ASSUME SSEInv, SSETypeOK', NEW c \in Subscribers, Send(c)
  PROVE  SSEInv'
<1>. USE DEF SSEInv, revisionsVars, storeVars
<1>. DEFINE delta == DeltaSince(rev[c])
            told == delta.added \cup delta.updated
            sent == (told # {} \/ rev[c] = 0) /\ link[c]
<1>1. /\ \A d \in Subscribers \ {c} :
           /\ view'[d] = view[d] /\ lastEventID'[d] = lastEventID[d]
           /\ read'[d] = read[d] /\ pc'[d] = pc[d]
      /\ read'[c] = version /\ pc'[c] = "stamp" /\ pc[c] = "send"
      /\ UNCHANGED <<content, version, changedAt, signal, rev, link, missed,
                     silent, flushed>>
  BY DEF Send, SSETypeOK
<1>2. UntouchedSilent' /\ HandlerSubscribed'
  BY <1>1 DEF UntouchedSilent, HandlerSubscribed
<1>3. WakeCovered'
  BY <1>1 DEF WakeCovered
<1>4. CASE sent
  <2>1. lastEventID'[c] = version
    BY <1>4 DEF Send, SSETypeOK, DeltaSince
  <2>2. \A g \in Goroutine : g \in told => view'[c][g] = content[g]
    BY <1>4 DEF Send, SSETypeOK, Contents
  <2>3. \A g \in Goroutine : g \notin told => view'[c][g] = view[c][g]
    BY <1>4 DEF Send, SSETypeOK, Contents, DeltaSince
  <2>4. ASSUME NEW g \in Goroutine, Stale(c, g)'
        PROVE  g \in missed[c] \/ g \in silent
    <3>1. content[g] # NoContent /\ g \notin told
      BY <1>1, <2>2, <2>4 DEF Stale
    <3>2. ~ (changedAt[g] > rev[c])
      BY <3>1, DeltaTells DEF SSETypeOK
    <3>3. Stale(c, g)
      BY <1>1, <2>3, <2>4, <3>1 DEF Stale
    <3>. QED
      BY <1>4, <3>2, <3>3 DEF StaleExcused, Excused
  <2>5. StaleExcused'
    BY <1>1, <2>4 DEF StaleExcused, Stale, Excused
  <2>6. RevisionsBounded'
    BY <1>1, <2>1 DEF RevisionsBounded, SSETypeOK
  <2>. QED
    BY <1>2, <1>3, <2>5, <2>6
<1>5. CASE ~ sent
  <2>1. view' = view /\ lastEventID' = lastEventID
    BY <1>5 DEF Send
  <2>2. ASSUME NEW g \in Goroutine, Stale(c, g), link[c]
        PROVE  g \in missed[c] \/ g \in silent
    <3>1. told = {}
      BY <1>5, <2>2
    <3>2. ~ (changedAt[g] > rev[c])
      BY <2>2, <3>1, DeltaTells DEF Stale, SSETypeOK
    <3>. QED
      BY <2>2, <3>2 DEF StaleExcused, Excused
  <2>3. StaleExcused'
    BY <1>1, <2>1, <2>2 DEF StaleExcused, Stale, Excused
  <2>4. RevisionsBounded'
    BY <1>1, <2>1 DEF RevisionsBounded, SSETypeOK
  <2>. QED
    BY <1>2, <1>3, <2>3, <2>4
<1>. QED
  BY <1>4, <1>5

LEMMA StampInv ==
  ASSUME SSEInv, SSETypeOK', NEW c \in Subscribers, Stamp(c)
  PROVE  SSEInv'
<1>. USE DEF SSEInv, revisionsVars, storeVars, clientVars
<1>1. /\ \A d \in Subscribers \ {c} :
           /\ rev'[d] = rev[d] /\ missed'[d] = missed[d] /\ pc'[d] = pc[d]
      /\ rev'[c] = version /\ pc'[c] = "wait" /\ pc[c] = "stamp"
      /\ missed'[c] = missed[c] \cup {g \in Goroutine : changedAt[g] > read[c]}
      /\ UNCHANGED <<content, version, changedAt, signal, view, lastEventID,
                     link, read, silent, flushed>>
  BY DEF Stamp, SSETypeOK
<1>2. RevisionsBounded'
  BY <1>1 DEF RevisionsBounded, SSETypeOK
<1>3. UntouchedSilent' /\ HandlerSubscribed'
  BY <1>1 DEF UntouchedSilent, HandlerSubscribed
<1>4. WakeCovered'
  BY <1>1 DEF WakeCovered, RevisionsBounded
<1>5. StaleExcused'
  BY <1>1 DEF StaleExcused, Stale, Excused
<1>. QED
  BY <1>2, <1>3, <1>4, <1>5

LEMMA WakeDoneDropInv ==
  ASSUME SSEInv, SSETypeOK', NEW c \in Subscribers, Wake(c) \/ Done(c) \/ Drop(c)
  PROVE  SSEInv'
<1>. USE DEF SSEInv, revisionsVars, storeVars, clientVars
<1>1. /\ \A d \in Subscribers \ {c} :
           /\ rev'[d] = rev[d] /\ read'[d] = read[d] /\ pc'[d] = pc[d]
           /\ link'[d] = link[d] /\ signal'[d] = signal[d]
      /\ UNCHANGED <<content, version, changedAt, view, lastEventID, missed,
                     silent, flushed>>
  BY DEF Wake, TakeSignal, Done, Unsubscribe, Drop, SSETypeOK
<1>2. CASE Wake(c)
  <2>1. /\ UNCHANGED <<rev, read, link>>
        /\ pc'[c] = "send" /\ pc[c] = "wait" /\ signal'[c] = "empty"
    BY <1>2 DEF Wake, TakeSignal, SSETypeOK
  <2>2. RevisionsBounded' /\ UntouchedSilent' /\ HandlerSubscribed'
    BY <1>1, <2>1 DEF RevisionsBounded, UntouchedSilent, HandlerSubscribed
  <2>3. StaleExcused' /\ WakeCovered'
    BY <1>1, <2>1 DEF StaleExcused, Stale, Excused, WakeCovered
  <2>. QED
    BY <2>2, <2>3
<1>3. CASE Done(c)
  <2>1. /\ rev'[c] = 0 /\ read'[c] = 0 /\ ~ link[c] /\ ~ link'[c]
        /\ pc'[c] = "none"
    BY <1>3 DEF Done, SSETypeOK
  <2>2. RevisionsBounded' /\ UntouchedSilent' /\ HandlerSubscribed'
    BY <1>1, <2>1 DEF RevisionsBounded, UntouchedSilent, HandlerSubscribed, SSETypeOK
  <2>3. StaleExcused' /\ WakeCovered'
    BY <1>1, <2>1 DEF StaleExcused, Stale, Excused, WakeCovered
  <2>. QED
    BY <2>2, <2>3
<1>4. CASE Drop(c)
  <2>1. UNCHANGED <<rev, read, pc, signal>> /\ ~ link'[c]
    BY <1>4 DEF Drop, SSETypeOK
  <2>2. RevisionsBounded' /\ UntouchedSilent' /\ HandlerSubscribed'
    BY <1>1, <2>1 DEF RevisionsBounded, UntouchedSilent, HandlerSubscribed
  <2>3. StaleExcused' /\ WakeCovered'
    BY <1>1, <2>1 DEF StaleExcused, Stale, Excused, WakeCovered
  <2>. QED
    BY <2>2, <2>3
<1>. QED
  BY <1>2, <1>3, <1>4

\* The new version is past every revision any client knows of.
LEMMA TouchInv ==
  ASSUME SSEInv, SSETypeOK', NEW g \in Goroutine, WriterTouch(g)
  PROVE  SSEInv'
<1>. USE DEF SSEInv, handlerVars, clientVars
<1>1. /\ version' = version + 1 /\ version \in Nat
      /\ changedAt'[g] = version + 1
      /\ \A h \in Goroutine \ {g} :
           /\ content'[h] = content[h] /\ changedAt'[h] = changedAt[h]
           /\ h \in silent' <=> h \in silent
           /\ \A c \in Subscribers : h \in missed'[c] <=> h \in missed[c]
      /\ UNCHANGED <<pc, rev, read, link, view, lastEventID, signal, flushed>>
  BY DEF WriterTouch, Touch, Bump, SSETypeOK
<1>2. RevisionsBounded'
  BY <1>1 DEF RevisionsBounded, SSETypeOK
<1>3. UntouchedSilent'
  BY <1>1 DEF UntouchedSilent
<1>4. HandlerSubscribed' /\ WakeCovered'
  BY <1>1 DEF HandlerSubscribed, WakeCovered
<1>5. StaleExcused'
  <2>. SUFFICES ASSUME NEW c \in Subscribers, NEW h \in Goroutine, Stale(c, h)'
                PROVE  /\ Excused(c, h, lastEventID[c])'
                       /\ link[c] => Excused(c, h, rev[c])'
                       /\ link[c] /\ pc[c] = "stamp" => Excused(c, h, read[c])'
    BY <1>1 DEF StaleExcused
  <2>1. CASE h = g
    <3>1. rev[c] < version + 1 /\ read[c] < version + 1 /\ lastEventID[c] < version + 1
      BY <1>1 DEF RevisionsBounded, SSETypeOK
    <3>. QED
      BY <1>1, <2>1, <3>1 DEF Excused
  <2>2. CASE h # g
    BY <1>1, <2>2 DEF StaleExcused, Stale, Excused
  <2>. QED
    BY <2>1, <2>2
<1>. QED
  BY <1>2, <1>3, <1>4, <1>5

LEMMA AmendInv ==
  ASSUME SSEInv, SSETypeOK', WriterAmend \/ WriterRelease
  PROVE  SSEInv'
<1>. USE DEF SSEInv, handlerVars, clientVars
<1>1. /\ version' \in Nat /\ version' >= version
      /\ UNCHANGED <<changedAt, pc, rev, read, link, view, lastEventID, missed,
                     signal, flushed>>
      /\ silent' = silent \cup Amendments
  BY DEF WriterAmend, Amend, WriterRelease, Release, Bump, SSETypeOK
<1>2. RevisionsBounded'
  BY <1>1 DEF RevisionsBounded, SSETypeOK
<1>3. UntouchedSilent'
  BY <1>1 DEF UntouchedSilent, Amendments
<1>4. HandlerSubscribed' /\ WakeCovered'
  BY <1>1 DEF HandlerSubscribed, WakeCovered
<1>5. StaleExcused'
  BY <1>1 DEF StaleExcused, Stale, Excused, Amendments
<1>. QED
  BY <1>2, <1>3, <1>4, <1>5

LEMMA ClearInv ==
  ASSUME SSEInv, SSETypeOK', NEW keepsLock \in BOOLEAN, WriterClear(keepsLock)
  PROVE  SSEInv'
<1>. USE DEF SSEInv, handlerVars, clientVars
<1>1. /\ version' = version + 1
      /\ \A g \in Goroutine : content'[g] = NoContent /\ changedAt'[g] = 0
      /\ UNCHANGED <<pc, rev, read, link, view, lastEventID, signal, flushed>>
  BY DEF WriterClear, Clear, Bump
<1>2. RevisionsBounded'
  BY <1>1 DEF RevisionsBounded, SSETypeOK
<1>3. UntouchedSilent' /\ StaleExcused'
  BY <1>1 DEF UntouchedSilent, StaleExcused, Stale
<1>4. HandlerSubscribed' /\ WakeCovered'
  BY <1>1 DEF HandlerSubscribed, WakeCovered
<1>. QED
  BY <1>2, <1>3, <1>4

\* Every channel of a handler becomes full, so nobody who sleeps is behind.
LEMMA NotifyInv ==
  ASSUME SSEInv, SSETypeOK', WriterNotify
  PROVE  SSEInv'
<1>. USE DEF SSEInv, handlerVars, clientVars, storeVars
<1>1. /\ UNCHANGED <<content, version, changedAt, pc, rev, read, link, view,
                     lastEventID, missed, silent>>
      /\ flushed' = version
      /\ \A c \in Subscribers :
           signal'[c] = IF signal[c] = "empty" THEN "full" ELSE signal[c]
  BY DEF WriterNotify, Flush, LoadNotify, Notify
<1>2. RevisionsBounded'
  BY <1>1 DEF RevisionsBounded, SSETypeOK
<1>3. UntouchedSilent' /\ StaleExcused'
  BY <1>1 DEF UntouchedSilent, StaleExcused, Stale, Excused
<1>4. HandlerSubscribed' /\ WakeCovered'
  BY <1>1 DEF HandlerSubscribed, WakeCovered
<1>. QED
  BY <1>2, <1>3, <1>4

LEMMA SSENextInv == SSEInv /\ [SSENext]_sseVars => SSEInv'
<1>. SUFFICES ASSUME SSEInv, [SSENext]_sseVars PROVE SSEInv'
  OBVIOUS
<1>1. SSETypeOK'
  BY SSETypeStep DEF SSEInv
<1>2. ASSUME NEW c \in Subscribers, Connect(c) \/ Handler(c) \/ Done(c) \/ Drop(c)
      PROVE  SSEInv'
  BY <1>1, <1>2, ConnectInv, SendInv, StampInv, WakeDoneDropInv DEF Handler
<1>3. ASSUME NEW g \in Goroutine, WriterTouch(g) PROVE SSEInv'
  BY <1>1, <1>3, TouchInv
<1>4. ASSUME WriterAmend \/ WriterRelease PROVE SSEInv'
  BY <1>1, <1>4, AmendInv
<1>5. ASSUME NEW keepsLock \in BOOLEAN, WriterClear(keepsLock) PROVE SSEInv'
  BY <1>1, <1>5, ClearInv
<1>6. ASSUME WriterNotify PROVE SSEInv'
  BY <1>1, <1>6, NotifyInv
<1>7. CASE UNCHANGED sseVars
  BY <1>7 DEF sseVars, revisionsVars, storeVars, streamVars, handlerVars,
     clientVars, SSEInv, SSETypeOK, RevisionsBounded, UntouchedSilent,
     StaleExcused, Stale, Excused, HandlerSubscribed, WakeCovered
<1>. QED
  BY <1>2, <1>3, <1>4, <1>5, <1>6, <1>7 DEF SSENext

-----------------------------------------------------------------------------

\* The inductive invariant, as a property of the system's safety part.
LEMMA SSEInvariance == SSEInit /\ [][SSENext]_sseVars => []SSEInv
BY SSEInitInv, SSENextInv, PTL

\* Whatever goes through a connection, revisions stay versions and a client's
\* copy is a list of goroutines.
THEOREM SSETyping == SSESpec => []SSETypeOK
<1>1. SSEInv => SSETypeOK
  BY DEF SSEInv
<1>. QED
  BY <1>1, SSEInvariance, PTL DEF SSESpec

\* A stale entry in a client's copy is still to come, or was touched between a
\* delta and its stamp, or was changed by something other than an event.
THEOREM LossIsExplained == SSESpec => []LossExplained
<1>1. SSEInv => LossExplained
  BY DEF SSEInv, StaleExcused, Stale, Excused, LossExplained, Known
<1>. QED
  BY <1>1, SSEInvariance, PTL DEF SSESpec

\* No handler sleeps through an announcement.
THEOREM NoLostWakeUp == SSESpec => []WakeCovered
<1>1. SSEInv => WakeCovered
  BY DEF SSEInv
<1>. QED
  BY <1>1, SSEInvariance, PTL DEF SSESpec
=============================================================================
