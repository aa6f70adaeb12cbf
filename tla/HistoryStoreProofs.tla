------------------------- MODULE HistoryStoreProofs -------------------------
(***************************************************************************)
(* Proofs about HistoryStore, for every set of threads, events and         *)
(* requests. The first part is about the statements of HistoryDatabase:    *)
(* the type of the database, and the agreement of a thread's row with the  *)
(* thread's events.                                                        *)
(***************************************************************************)
EXTENDS HistoryStore, FiniteSetTheorems, SequenceTheorems, TLAPS

-----------------------------------------------------------------------------
(* The statements                                                          *)

\* The last event of a set of events is one of them, or there is none.
LEMMA LatestType ==
    ASSUME NEW evts \in SUBSET Events
    PROVE  Latest(evts) \in evts \cup {NoEvent}
BY DEF Latest

\* Any two sets of events can be counted.
LEMMA EventSetsFinite ==
    ASSUME NEW evts \in SUBSET Events
    PROVE  IsFiniteSet(evts) /\ Cardinality(evts) \in Nat
BY EventAssumption, FS_Subset, FS_CardinalityType

\* The triggers write a well-formed row.
LEMMA SummaryType ==
    ASSUME NEW db \in Database, NEW t \in Threads
    PROVE  Summary(db, t) \in ThreadRow
<1> DEFINE counted == Counted(db, t)
<1>1. counted \in SUBSET Events /\ counted \cap db.newEvents \in SUBSET Events
  BY DEF Counted, EventsOf, Database
<1>2. /\ Cardinality(counted) \in Nat
      /\ Cardinality(counted \cap db.newEvents) \in Nat
  BY <1>1, EventSetsFinite
<1>3. Latest(counted) \in Events \cup {NoEvent}
  BY <1>1, LatestType
<1>4. (IF Latest(counted) = NoEvent THEN 0 ELSE Stamp[Latest(counted)]) \in Stamps \cup {0}
  BY <1>3, EventAssumption
<1> QED
  BY <1>2, <1>3, <1>4 DEF Summary, ThreadRow

\* Every statement makes a database of a database.
LEMMA RefreshThreadType ==
    ASSUME NEW db \in Database, NEW t \in Threads
    PROVE  RefreshThread(db, t) \in Database
BY SummaryType DEF RefreshThread, Database

LEMMA PutEventType ==
    ASSUME NEW db \in Database, NEW e \in Events, NEW new \in BOOLEAN
    PROVE  PutEvent(db, e, new) \in Database
<1> DEFINE stored == [db EXCEPT !.events = @ \cup {e},
                                !.newEvents = IF new THEN @ \cup {e} ELSE @ \ {e}]
<1>1. stored \in Database
  BY DEF Database
<1>2. ThreadOf[e] \in Threads
  BY EventAssumption
<1> QED
  BY <1>1, <1>2, RefreshThreadType DEF PutEvent

LEMMA PutAttachmentsType ==
    ASSUME NEW db \in Database, NEW e \in Events
    PROVE  PutAttachments(db, e) \in Database
BY DEF PutAttachments, Database

LEMMA DeleteEventType ==
    ASSUME NEW db \in Database, NEW e \in Events
    PROVE  DeleteEvent(db, e) \in Database
<1> DEFINE deleted == [db EXCEPT !.events = @ \ {e}, !.newEvents = @ \ {e}]
           bare == [deleted EXCEPT !.attachments = @ \ {e}]
<1>1. deleted \in Database /\ bare \in Database
  BY DEF Database
<1>2. RefreshThread(bare, ThreadOf[e]) \in Database
  BY <1>1, EventAssumption, RefreshThreadType
<1> QED
  BY <1>1, <1>2 DEF DeleteEvent

LEMMA MarkEventsReadType ==
    ASSUME NEW db \in Database, NEW t \in Threads
    PROVE  MarkEventsRead(db, t) \in Database
<1> DEFINE read == [db EXCEPT !.newEvents = @ \ (EventsOf(db, t) \cap db.newEvents)]
<1>1. read \in Database
  BY DEF Database
<1> QED
  BY <1>1, RefreshThreadType DEF MarkEventsRead

LEMMA InsertThreadType ==
    ASSUME NEW db \in Database, NEW t \in Threads, NEW now \in Stamps
    PROVE  InsertThread(db, t, now) \in Database
BY DEF InsertThread, Database, ThreadRow

LEMMA DeleteThreadType ==
    ASSUME NEW db \in Database, NEW t \in Threads
    PROVE  DeleteThread(db, t) \in Database
BY DEF DeleteThread, Database

-----------------------------------------------------------------------------
(* The rows of the threads table.                                          *)

\* How a statement may leave the rows: recomputed from the new events, or as
\* they were, the counted events being the same.
RowsKept(old, new) ==
    \A t \in Threads :
        new.threads[t] # NoThread =>
            \/ new.threads[t] = Summary(new, t)
            \/ new.threads[t] = old.threads[t] /\ Summary(new, t) = Summary(old, t)

\* Such a statement keeps exact rows exact, and fresh rows fresh or exact.
LEMMA RowsKeptExact ==
    ASSUME NEW old, NEW new, RowsKept(old, new)
    PROVE  /\ SummariesExact(old) => SummariesExact(new)
           /\ SummariesExactOrFresh(old) => SummariesExactOrFresh(new)
<1>1. \A t \in Threads : SummaryIsExact(old, t) /\ new.threads[t] = old.threads[t]
                            /\ Summary(new, t) = Summary(old, t) => SummaryIsExact(new, t)
  BY DEF SummaryIsExact
<1>2. \A t \in Threads : new.threads[t] = Summary(new, t) => SummaryIsExact(new, t)
  BY DEF SummaryIsExact, Summary
<1> QED
  BY <1>1, <1>2 DEF RowsKept, SummariesExact, SummariesExactOrFresh

\* A summary depends on the counted events and on which of them are new.
LEMMA SameSummary ==
    ASSUME NEW old, NEW new, NEW t,
           Counted(new, t) = Counted(old, t),
           Counted(new, t) \cap new.newEvents = Counted(old, t) \cap old.newEvents
    PROVE  Summary(new, t) = Summary(old, t)
BY DEF Summary

\* The triggers recompute one row; the others must not have changed.
LEMMA RefreshKeepsRows ==
    ASSUME NEW old \in Database, NEW stored \in Database, NEW u \in Threads,
           stored.threads = old.threads,
           \A t \in Threads \ {u} : Summary(stored, t) = Summary(old, t)
    PROVE  RowsKept(old, RefreshThread(stored, u))
<1> DEFINE new == RefreshThread(stored, u)
<1>1. \A t \in Threads : Summary(new, t) = Summary(stored, t)
  BY DEF RefreshThread, Summary, Counted, EventsOf, Database
<1> SUFFICES ASSUME NEW t \in Threads, new.threads[t] # NoThread
             PROVE  \/ new.threads[t] = Summary(new, t)
                    \/ new.threads[t] = old.threads[t] /\ Summary(new, t) = Summary(old, t)
  BY DEF RowsKept
<1>0. stored.threads \in [Threads -> ThreadRow \cup {NoThread}]
  BY DEF Database
<1>2. CASE t = u
  <2>1. new.threads[u] # NoThread => new.threads[u] = Summary(stored, u)
    BY <1>0 DEF RefreshThread
  <2> QED
    BY <1>1, <1>2, <2>1
<1>3. CASE t # u
  <2>1. new.threads[t] = stored.threads[t]
    BY <1>0, <1>3 DEF RefreshThread
  <2> QED
    BY <1>1, <1>3, <2>1
<1> QED
  BY <1>2, <1>3

LEMMA PutEventKeepsRows ==
    ASSUME NEW db \in Database, NEW e \in Events, NEW new \in BOOLEAN
    PROVE  RowsKept(db, PutEvent(db, e, new))
<1> DEFINE stored == [db EXCEPT !.events = @ \cup {e},
                                !.newEvents = IF new THEN @ \cup {e} ELSE @ \ {e}]
<1>1. stored \in Database /\ ThreadOf[e] \in Threads
  BY EventAssumption DEF Database
<1>2. ASSUME NEW t \in Threads, t # ThreadOf[e] \/ e \in InfoEvents
      PROVE  Summary(stored, t) = Summary(db, t)
  <2>1. /\ stored.events = db.events \cup {e}
        /\ stored.newEvents \ {e} = db.newEvents \ {e}
    BY DEF Database
  <2>2. e \notin Counted(stored, t) /\ e \notin Counted(db, t)
    BY <1>2 DEF Counted, EventsOf
  <2>3. Counted(stored, t) = Counted(db, t)
    BY <2>1, <2>2 DEF Counted, EventsOf
  <2>4. Counted(stored, t) \cap stored.newEvents = Counted(db, t) \cap db.newEvents
    BY <2>1, <2>2, <2>3
  <2> QED
    BY <2>3, <2>4 DEF Summary
<1>3. CASE e \in InfoEvents
  BY <1>2, <1>3 DEF PutEvent, RowsKept, Database
<1>4. CASE e \notin InfoEvents
  BY <1>1, <1>2, <1>4, RefreshKeepsRows DEF PutEvent, Database
<1> QED
  BY <1>3, <1>4

LEMMA PutAttachmentsKeepsRows ==
    ASSUME NEW db \in Database, NEW e \in Events
    PROVE  RowsKept(db, PutAttachments(db, e))
BY SameSummary DEF PutAttachments, RowsKept, Counted, EventsOf, Database

LEMMA DeleteEventKeepsRows ==
    ASSUME NEW db \in Database, NEW e \in Events
    PROVE  RowsKept(db, DeleteEvent(db, e))
<1> DEFINE deleted == [db EXCEPT !.events = @ \ {e}, !.newEvents = @ \ {e}]
           bare == [deleted EXCEPT !.attachments = @ \ {e}]
<1>1. bare \in Database /\ ThreadOf[e] \in Threads
  BY EventAssumption DEF Database
<1>2. ASSUME NEW t \in Threads, t # ThreadOf[e] \/ e \in InfoEvents
      PROVE  Summary(deleted, t) = Summary(db, t) /\ Summary(bare, t) = Summary(db, t)
  <2>1. /\ deleted.events = db.events \ {e} /\ deleted.newEvents = db.newEvents \ {e}
        /\ bare.events = db.events \ {e} /\ bare.newEvents = db.newEvents \ {e}
    BY DEF Database
  <2>2. e \notin Counted(db, t)
    BY <1>2 DEF Counted, EventsOf
  <2>3. Counted(deleted, t) = Counted(db, t) /\ Counted(bare, t) = Counted(db, t)
    BY <2>1, <2>2 DEF Counted, EventsOf
  <2> QED
    <3>1. /\ Counted(deleted, t) \cap deleted.newEvents = Counted(db, t) \cap db.newEvents
          /\ Counted(bare, t) \cap bare.newEvents = Counted(db, t) \cap db.newEvents
      BY <2>1, <2>2, <2>3
    <3> QED
      BY <2>3, <3>1 DEF Summary
<1>3. CASE e \notin db.events
  BY <1>3 DEF DeleteEvent, RowsKept
<1>4. CASE e \in db.events /\ e \in InfoEvents
  <2>1. DeleteEvent(db, e) = deleted
    BY <1>4 DEF DeleteEvent
  <2>2. deleted.threads = db.threads
    BY DEF Database
  <2>3. \A t \in Threads : Summary(deleted, t) = Summary(db, t)
    BY <1>2, <1>4
  <2> QED
    BY <2>1, <2>2, <2>3 DEF RowsKept
<1>5. CASE e \in db.events /\ e \notin InfoEvents
  <2>1. DeleteEvent(db, e) = RefreshThread(bare, ThreadOf[e])
    BY <1>5 DEF DeleteEvent
  <2> QED
    BY <1>1, <1>2, <2>1, RefreshKeepsRows DEF Database
<1> QED
  BY <1>3, <1>4, <1>5

LEMMA MarkEventsReadKeepsRows ==
    ASSUME NEW db \in Database, NEW t \in Threads
    PROVE  RowsKept(db, MarkEventsRead(db, t))
<1> DEFINE unread == EventsOf(db, t) \cap db.newEvents
           read == [db EXCEPT !.newEvents = @ \ unread]
<1>1. read \in Database
  BY DEF Database
<1>2. \A u \in Threads : u # t \/ unread \subseteq InfoEvents => Summary(read, u) = Summary(db, u)
  BY SameSummary DEF Counted, EventsOf, Database
<1>3. CASE unread \subseteq InfoEvents
  BY <1>2, <1>3 DEF MarkEventsRead, RowsKept, Database
<1>4. CASE ~(unread \subseteq InfoEvents)
  BY <1>1, <1>2, <1>4, RefreshKeepsRows DEF MarkEventsRead, Database
<1> QED
  BY <1>3, <1>4

LEMMA DeleteThreadKeepsRows ==
    ASSUME NEW db \in Database, NEW t \in Threads
    PROVE  RowsKept(db, DeleteThread(db, t))
<1>1. CASE db.threads[t] = NoThread
  BY <1>1 DEF DeleteThread, RowsKept
<1>2. CASE db.threads[t] # NoThread
  <2>1. \A u \in Threads \ {t} : Summary(DeleteThread(db, t), u) = Summary(db, u)
    BY <1>2, SameSummary DEF DeleteThread, Counted, EventsOf, Database
  <2> QED
    BY <1>2, <2>1 DEF DeleteThread, RowsKept, Database
<1> QED
  BY <1>1, <1>2

\* A created thread is fresh; it is exact if no event was written before it.
LEMMA InsertThreadRows ==
    ASSUME NEW db \in Database, NEW t \in Threads, NEW now \in Stamps
    PROVE  /\ SummariesExactOrFresh(db) => SummariesExactOrFresh(InsertThread(db, t, now))
           /\ SummariesExact(db) /\ EveryEventHasThread(db) /\ db.threads[t] = NoThread
              => SummariesExact(InsertThread(db, t, now))
<1> DEFINE new == InsertThread(db, t, now)
<1>1. \A u \in Threads : Summary(new, u) = Summary(db, u)
  BY SameSummary DEF InsertThread, Counted, EventsOf, Database
<1>2. /\ IsFresh(new.threads[t])
      /\ \A u \in Threads \ {t} : new.threads[u] = db.threads[u]
  BY DEF InsertThread, IsFresh, Database
<1>3. SummariesExactOrFresh(db) => SummariesExactOrFresh(new)
  BY <1>1, <1>2 DEF SummariesExactOrFresh, SummaryIsExact
<1>4. ASSUME SummariesExact(db), EveryEventHasThread(db), db.threads[t] = NoThread
      PROVE  SummariesExact(new)
  <2>1. Counted(new, t) = {}
    BY <1>4 DEF EveryEventHasThread, InsertThread, Counted, EventsOf, Database
  <2>2. Cardinality({}) = 0 /\ Latest({}) = NoEvent
    BY FS_EmptySet DEF Latest
  <2>3. SummaryIsExact(new, t)
    BY <1>2, <2>1, <2>2 DEF SummaryIsExact, Summary, IsFresh
  <2> QED
    BY <1>1, <1>2, <1>4, <2>3 DEF SummariesExact, SummaryIsExact
<1> QED
  BY <1>3, <1>4

-----------------------------------------------------------------------------
(* Which threads have a row.                                               *)

SameThreads(old, new) ==
    \A t \in Threads : old.threads[t] = NoThread <=> new.threads[t] = NoThread

LEMMA RefreshThreadThreads ==
    ASSUME NEW db \in Database, NEW t \in Threads
    PROVE  SameThreads(db, RefreshThread(db, t)) /\ RefreshThread(db, t).events = db.events
<1>1. Summary(db, t) # NoThread
  BY SummaryType, MarkAssumption DEF ThreadRow
<1> QED
  BY <1>1 DEF SameThreads, RefreshThread, Database

LEMMA PutEventThreads ==
    ASSUME NEW db \in Database, NEW e \in Events, NEW new \in BOOLEAN
    PROVE  /\ SameThreads(db, PutEvent(db, e, new))
           /\ PutEvent(db, e, new).events = db.events \cup {e}
<1> DEFINE stored == [db EXCEPT !.events = @ \cup {e},
                                !.newEvents = IF new THEN @ \cup {e} ELSE @ \ {e}]
<1>1. stored \in Database /\ ThreadOf[e] \in Threads
  BY EventAssumption DEF Database
<1>2. stored.threads = db.threads /\ stored.events = db.events \cup {e}
  BY DEF Database
<1>3. /\ SameThreads(stored, RefreshThread(stored, ThreadOf[e]))
      /\ RefreshThread(stored, ThreadOf[e]).events = stored.events
  BY <1>1, RefreshThreadThreads
<1> QED
  BY <1>2, <1>3 DEF PutEvent, SameThreads

LEMMA DeleteEventThreads ==
    ASSUME NEW db \in Database, NEW e \in Events
    PROVE  /\ SameThreads(db, DeleteEvent(db, e))
           /\ DeleteEvent(db, e).events = db.events \ {e}
<1> DEFINE deleted == [db EXCEPT !.events = @ \ {e}, !.newEvents = @ \ {e}]
           bare == [deleted EXCEPT !.attachments = @ \ {e}]
<1>1. bare \in Database /\ ThreadOf[e] \in Threads
  BY EventAssumption DEF Database
<1>2. /\ deleted.threads = db.threads /\ deleted.events = db.events \ {e}
      /\ bare.threads = db.threads /\ bare.events = db.events \ {e}
  BY DEF Database
<1>3. /\ SameThreads(bare, RefreshThread(bare, ThreadOf[e]))
      /\ RefreshThread(bare, ThreadOf[e]).events = bare.events
  BY <1>1, RefreshThreadThreads
<1> QED
  BY <1>2, <1>3 DEF DeleteEvent, SameThreads, Database

LEMMA MarkEventsReadThreads ==
    ASSUME NEW db \in Database, NEW t \in Threads
    PROVE  SameThreads(db, MarkEventsRead(db, t)) /\ MarkEventsRead(db, t).events = db.events
<1> DEFINE read == [db EXCEPT !.newEvents = @ \ (EventsOf(db, t) \cap db.newEvents)]
<1>1. read \in Database /\ read.threads = db.threads /\ read.events = db.events
  BY DEF Database
<1>2. SameThreads(read, RefreshThread(read, t)) /\ RefreshThread(read, t).events = read.events
  BY <1>1, RefreshThreadThreads
<1> QED
  BY <1>1, <1>2 DEF MarkEventsRead, SameThreads

\* Each statement leaves every event with its thread; an event may only be
\* written into a thread that is there.
LEMMA EventsKeepThreads ==
    ASSUME NEW db \in Database, EveryEventHasThread(db)
    PROVE  /\ \A e \in Events, new \in BOOLEAN :
                  db.threads[ThreadOf[e]] # NoThread
                      => EveryEventHasThread(PutEvent(db, e, new))
           /\ \A e \in Events : /\ EveryEventHasThread(PutAttachments(db, e))
                                /\ EveryEventHasThread(DeleteEvent(db, e))
           /\ \A t \in Threads : /\ EveryEventHasThread(MarkEventsRead(db, t))
                                 /\ EveryEventHasThread(DeleteThread(db, t))
                                 /\ \A now \in Stamps :
                                        EveryEventHasThread(InsertThread(db, t, now))
<1>0. \A e \in db.events : e \in Events /\ ThreadOf[e] \in Threads
  BY EventAssumption DEF Database
<1>1. ASSUME NEW e \in Events, NEW new \in BOOLEAN, db.threads[ThreadOf[e]] # NoThread
      PROVE  EveryEventHasThread(PutEvent(db, e, new))
  BY <1>0, <1>1, PutEventThreads, EventAssumption DEF EveryEventHasThread, SameThreads
<1>2. ASSUME NEW e \in Events
      PROVE  EveryEventHasThread(PutAttachments(db, e)) /\ EveryEventHasThread(DeleteEvent(db, e))
  <2>1. EveryEventHasThread(PutAttachments(db, e))
    BY DEF EveryEventHasThread, PutAttachments, Database
  <2>2. EveryEventHasThread(DeleteEvent(db, e))
    BY <1>0, DeleteEventThreads DEF EveryEventHasThread, SameThreads
  <2> QED
    BY <2>1, <2>2
<1>3. ASSUME NEW t \in Threads
      PROVE  EveryEventHasThread(MarkEventsRead(db, t)) /\ EveryEventHasThread(DeleteThread(db, t))
  <2>1. EveryEventHasThread(MarkEventsRead(db, t))
    BY <1>0, MarkEventsReadThreads DEF EveryEventHasThread, SameThreads
  <2>2. EveryEventHasThread(DeleteThread(db, t))
    BY <1>0 DEF EveryEventHasThread, DeleteThread, EventsOf, Database
  <2> QED
    BY <2>1, <2>2
<1>4. ASSUME NEW t \in Threads, NEW now \in Stamps
      PROVE  EveryEventHasThread(InsertThread(db, t, now))
  <2>1. [count |-> 0, unreadCount |-> 0, lastEventId |-> NoEvent,
         lastEventTimestamp |-> now] # NoThread
    BY MarkAssumption
  <2> QED
    BY <1>0, <2>1 DEF EveryEventHasThread, InsertThread, Database
<1> QED
  BY <1>1, <1>2, <1>3, <1>4

-----------------------------------------------------------------------------
(* What a statement leaves alone, and the attachments.                     *)

SameBut(old, new, t) == \A u \in Threads \ {t} : new.threads[u] = old.threads[u]

LEMMA RefreshThreadLeaves ==
    ASSUME NEW db \in Database, NEW t \in Threads
    PROVE  /\ SameBut(db, RefreshThread(db, t), t)
           /\ RefreshThread(db, t).attachments = db.attachments
BY DEF SameBut, RefreshThread, Database

LEMMA PutEventLeaves ==
    ASSUME NEW db \in Database, NEW e \in Events, NEW new \in BOOLEAN
    PROVE  /\ SameBut(db, PutEvent(db, e, new), ThreadOf[e])
           /\ PutEvent(db, e, new).attachments = db.attachments
<1> DEFINE stored == [db EXCEPT !.events = @ \cup {e},
                                !.newEvents = IF new THEN @ \cup {e} ELSE @ \ {e}]
<1>1. stored \in Database /\ ThreadOf[e] \in Threads
  BY EventAssumption DEF Database
<1>2. stored.threads = db.threads /\ stored.attachments = db.attachments
  BY DEF Database
<1>3. /\ SameBut(stored, RefreshThread(stored, ThreadOf[e]), ThreadOf[e])
      /\ RefreshThread(stored, ThreadOf[e]).attachments = stored.attachments
  BY <1>1, RefreshThreadLeaves
<1> QED
  BY <1>2, <1>3 DEF PutEvent, SameBut

LEMMA MarkEventsReadLeaves ==
    ASSUME NEW db \in Database, NEW t \in Threads
    PROVE  /\ SameBut(db, MarkEventsRead(db, t), t)
           /\ MarkEventsRead(db, t).attachments = db.attachments
<1> DEFINE read == [db EXCEPT !.newEvents = @ \ (EventsOf(db, t) \cap db.newEvents)]
<1>1. /\ read \in Database
      /\ read.threads = db.threads /\ read.attachments = db.attachments
  BY DEF Database
<1>2. /\ SameBut(read, RefreshThread(read, t), t)
      /\ RefreshThread(read, t).attachments = read.attachments
  BY <1>1, RefreshThreadLeaves
<1>3. SameBut(db, read, t) /\ SameBut(db, RefreshThread(read, t), t)
  BY <1>1, <1>2 DEF SameBut
<1>4. MarkEventsRead(db, t) = read \/ MarkEventsRead(db, t) = RefreshThread(read, t)
  BY DEF MarkEventsRead
<1> HIDE DEF read
<1> QED
  BY <1>1, <1>2, <1>3, <1>4

LEMMA DeleteThreadLeaves ==
    ASSUME NEW db \in Database, NEW t \in Threads
    PROVE  /\ SameBut(db, DeleteThread(db, t), t)
           /\ DeleteThread(db, t).threads[t] = NoThread
           /\ DeleteThread(db, t).events \subseteq db.events
BY DEF SameBut, DeleteThread, Database

\* The attachments are those of the stored multipart events.
AttachmentsMatch(db) == db.attachments = db.events \cap MultipartEvents

\* The statements that delete take the attachments along; the others but
\* PutEvent have nothing to do with them.
LEMMA AttachmentsKept ==
    ASSUME NEW db \in Database, AttachmentsMatch(db)
    PROVE  /\ \A e \in Events : AttachmentsMatch(DeleteEvent(db, e))
           /\ \A e \in Events \ MultipartEvents, new \in BOOLEAN :
                  AttachmentsMatch(PutEvent(db, e, new))
           /\ \A t \in Threads : /\ AttachmentsMatch(MarkEventsRead(db, t))
                                 /\ AttachmentsMatch(DeleteThread(db, t))
                                 /\ \A now \in Stamps :
                                        AttachmentsMatch(InsertThread(db, t, now))
<1>1. ASSUME NEW e \in Events
      PROVE  AttachmentsMatch(DeleteEvent(db, e))
  <2> DEFINE deleted == [db EXCEPT !.events = @ \ {e}, !.newEvents = @ \ {e}]
             bare == [deleted EXCEPT !.attachments = @ \ {e}]
  <2>1. bare \in Database /\ ThreadOf[e] \in Threads
    BY EventAssumption DEF Database
  <2>2. /\ deleted.events = db.events \ {e} /\ deleted.attachments = db.attachments
        /\ bare.attachments = db.attachments \ {e}
    BY DEF Database
  <2>3. DeleteEvent(db, e).events = db.events \ {e}
    BY DeleteEventThreads
  <2>4. CASE e \in db.events /\ e \notin InfoEvents
    <3>1. DeleteEvent(db, e).attachments = bare.attachments
      BY <2>1, <2>4, RefreshThreadLeaves DEF DeleteEvent
    <3> QED
      BY <2>2, <2>3, <3>1 DEF AttachmentsMatch
  <2>5. CASE e \notin db.events \/ e \in InfoEvents
    <3>1. DeleteEvent(db, e).attachments = db.attachments
      BY <2>2, <2>5 DEF DeleteEvent
    <3>2. e \notin db.events \cap MultipartEvents
      BY <2>5, EventAssumption
    <3> QED
      BY <2>3, <3>1, <3>2 DEF AttachmentsMatch
  <2> QED
    BY <2>4, <2>5
<1>2. ASSUME NEW e \in Events \ MultipartEvents, NEW new \in BOOLEAN
      PROVE  AttachmentsMatch(PutEvent(db, e, new))
  BY PutEventLeaves, PutEventThreads DEF AttachmentsMatch
<1>3. ASSUME NEW t \in Threads
      PROVE  AttachmentsMatch(MarkEventsRead(db, t)) /\ AttachmentsMatch(DeleteThread(db, t))
  <2>1. AttachmentsMatch(MarkEventsRead(db, t))
    BY MarkEventsReadLeaves, MarkEventsReadThreads DEF AttachmentsMatch
  <2>2. AttachmentsMatch(DeleteThread(db, t))
    BY DEF AttachmentsMatch, DeleteThread, EventsOf, Database
  <2> QED
    BY <2>1, <2>2
<1>4. \A t \in Threads, now \in Stamps : AttachmentsMatch(InsertThread(db, t, now))
  BY DEF AttachmentsMatch, InsertThread, Database
<1> QED
  BY <1>1, <1>2, <1>3, <1>4

\* Without counted events an exact row says zero, and the other way round.
LEMMA NothingCounted ==
    ASSUME NEW db \in Database, NEW t \in Threads, SummaryIsExact(db, t),
           db.threads[t].count = 0
    PROVE  Counted(db, t) = {}
<1>1. Counted(db, t) \in SUBSET Events
  BY DEF Counted, EventsOf, Database
<1>2. Cardinality(Counted(db, t)) = 0
  BY DEF SummaryIsExact, Summary
<1> QED
  BY <1>1, <1>2, EventSetsFinite, FS_EmptySet


-----------------------------------------------------------------------------
(* Types                                                                   *)

ConnectionType == /\ disk \in Database
                  /\ work \in Database
                  /\ inTx \in BOOLEAN
                  /\ commitFailed \in BOOLEAN

ReplyType == job \in Jobs /\ signals \in Signals /\ reply \in {"none", "true", "false"}

LEMMA TypeParts == TypeOK <=> ConnectionType /\ ReplyType
BY DEF TypeOK, ConnectionType, ReplyType

LEMMA EmptyDatabaseType == EmptyDatabase \in Database
BY DEF EmptyDatabase, Database

LEMMA IdleType == Idle \in Jobs /\ Down \in Jobs /\ NoSignals \in Signals
<1>1. Idle \in Jobs
  BY EmptyDatabaseType DEF Idle, Jobs, Operations
<1> QED
  BY <1>1 DEF Idle, Down, Jobs, Operations, NoSignals, Signals

LEMMA ThreadRecordType ==
    ASSUME NEW db \in Database, NEW t \in Threads
    PROVE  ThreadRecord(db, t) \in ThreadRecords
BY DEF ThreadRecord, ThreadRecords, Database

\* The transaction statements, whatever database they are given.
LEMMA StatementType ==
    ASSUME ConnectionType, NEW db \in Database,
           Execute(db) \/ Commit(db) \/ CommitFails(db) \/ Begin \/ Rollback
    PROVE  ConnectionType'
BY DEF ConnectionType, Execute, Commit, CommitFails, Begin, Rollback

LEMMA FinishType ==
    ASSUME NEW result \in {"none", "true", "false"}, NEW sent \in Signals,
           Finish(result, sent)
    PROVE  ReplyType'
BY IdleType DEF Finish, ReplyType

LEMMA StartJobType ==
    ASSUME ConnectionType, NEW j \in Jobs, StartJob(j)
    PROVE  ReplyType'
BY IdleType DEF StartJob, ReplyType, ConnectionType, Jobs

LEMMA WrittenType ==
    ASSUME job \in Jobs, job.todo # <<>>, NEW e \in Events, NEW existed \in BOOLEAN,
           NEW db \in Database
    PROVE  Written(e, existed, db) \in Jobs
<1>1. ThreadRecord(db, ThreadOf[e]) \in ThreadRecords
  BY EventAssumption, ThreadRecordType
<1>2. Tail(job.todo) \in Seq(Events)
  BY HeadTailProperties DEF Jobs
<1> QED
  BY <1>1, <1>2 DEF Written, Jobs

LEMMA RequestTypes ==
    ASSUME ConnectionType, ReplyType, Request
    PROVE  ConnectionType' /\ ReplyType'
<1>1. ASSUME NEW es \in Requests, RemoveEvents(es)
      PROVE  ConnectionType' /\ ReplyType'
  <2>1. [Idle EXCEPT !.op = "removeEvents", !.todo = es,
                     !.request = {es[i] : i \in DOMAIN es}] \in Jobs
    <3>1. es \in Seq(Events)
      BY RequestAssumption
    <3>2. {es[i] : i \in DOMAIN es} \in SUBSET Events
      BY <3>1
    <3> QED
      BY <3>1, <3>2, IdleType DEF Jobs, Operations
  <2> QED
    BY <1>1, <2>1, StartJobType, StatementType, EmptyDatabaseType DEF RemoveEvents
<1>2. ASSUME NEW es \in Requests, NEW notify \in BOOLEAN, WriteEvents(es, notify)
      PROVE  ConnectionType' /\ ReplyType'
  <2>1. [Idle EXCEPT !.op = "write", !.todo = es, !.notify = notify] \in Jobs
    BY RequestAssumption, IdleType DEF Jobs, Operations
  <2> QED
    BY <1>2, <2>1, StartJobType, StatementType, EmptyDatabaseType DEF WriteEvents
<1>3. ASSUME NEW ts \in SUBSET Threads, RemoveThreads(ts)
      PROVE  ConnectionType' /\ ReplyType'
  <2>1. [Idle EXCEPT !.op = "dropThreads", !.drop = ts, !.removed = ts] \in Jobs
    BY IdleType DEF Jobs, Operations
  <2> QED
    BY <1>3, <2>1, StartJobType, StatementType, EmptyDatabaseType DEF RemoveThreads
<1>4. ASSUME NEW ts \in SUBSET TextThreads, MarkThreadsAsRead(ts)
      PROVE  ConnectionType' /\ ReplyType'
  <2>1. [Idle EXCEPT !.op = "markRead", !.drop = ts] \in Jobs
    BY IdleType DEF Jobs, Operations, Threads
  <2> QED
    BY <1>4, <2>1, StartJobType DEF MarkThreadsAsRead, ConnectionType, connection
<1>5. ASSUME NEW t \in Threads, NEW now \in Stamps, CreateThread(t, now)
      PROVE  ConnectionType' /\ ReplyType'
  <2>1. InsertThread(work, t, now) \in Database
    BY InsertThreadType DEF ConnectionType
  <2>2. [NoSignals EXCEPT !.threadsAdded = {t}] \in Signals
    BY IdleType DEF Signals
  <2> QED
    BY <1>5, <2>1, <2>2, IdleType, FinishType, StatementType DEF CreateThread
<1>6. ASSUME NEW t \in TextThreads, UpdateRoomInfo(t)
      PROVE  ConnectionType' /\ ReplyType'
  <2>1. ThreadRecord(work, t) \in ThreadRecords
    BY ThreadRecordType DEF ConnectionType, Threads
  <2>2. [NoSignals EXCEPT !.threadsModified = {ThreadRecord(work, t)}] \in Signals
    BY <2>1, IdleType DEF Signals
  <2>3. ReplyType'
    BY <1>6, <2>2, IdleType, FinishType DEF UpdateRoomInfo
  <2>4. ConnectionType'
    BY <1>6, StatementType DEF UpdateRoomInfo, ConnectionType
  <2> QED
    BY <2>3, <2>4
<1>7. ASSUME UpdateRoomInfoUnmapped
      PROVE  ConnectionType' /\ ReplyType'
  BY <1>7, IdleType, FinishType, StatementType, EmptyDatabaseType DEF UpdateRoomInfoUnmapped
<1> QED
  BY <1>1, <1>2, <1>3, <1>4, <1>5, <1>6, <1>7 DEF Request

LEMMA StepTypes ==
    ASSUME ConnectionType, ReplyType, Step
    PROVE  ConnectionType' /\ ReplyType'
<1> USE DEF ConnectionType, ReplyType
<1>1. ASSUME NEW e \in Events, WriteTextAttachments(e)
      PROVE  ConnectionType' /\ ReplyType'
  <2>1. ConnectionType'
    BY <1>1, PutAttachmentsType, StatementType DEF WriteTextAttachments
  <2>2. job' \in Jobs
    BY <1>1 DEF WriteTextAttachments, Jobs
  <2> QED
    BY <1>1, <2>1, <2>2 DEF WriteTextAttachments
<1>2. ASSUME NEW e \in Events, WriteTextCommit(e)
      PROVE  ConnectionType' /\ ReplyType'
  <2>1. ConnectionType'
    BY <1>2, StatementType DEF WriteTextCommit
  <2>2. job.existed \in BOOLEAN
    BY DEF Jobs
  <2>3. Written(e, job.existed, work) \in Jobs
    BY <1>2, <2>2, WrittenType DEF WriteTextCommit, Writing
  <2>4. job' \in Jobs
    BY <1>2, <2>3 DEF WriteTextCommit
  <2> QED
    BY <1>2, <2>1, <2>4 DEF WriteTextCommit
<1>3. ASSUME NEW e \in Events, NEW new \in BOOLEAN, WriteTextRow(e, new)
      PROVE  ConnectionType' /\ ReplyType'
  <2>1. ConnectionType'
    BY <1>3, PutEventType DEF WriteTextRow
  <2>2. \A b \in BOOLEAN : \A s \in {"attachments", "commit"} :
            [job EXCEPT !.existed = b, !.stage = s] \in Jobs
    BY DEF Jobs
  <2>3. (e \in work.events) \in BOOLEAN
    OBVIOUS
  <2>4. job' \in Jobs
    BY <1>3, <2>2, <2>3 DEF WriteTextRow
  <2> QED
    BY <1>3, <2>1, <2>4 DEF WriteTextRow
<1>4. ASSUME NEW e \in Events, NEW new \in BOOLEAN, WriteVoiceEvent(e, new)
      PROVE  ConnectionType' /\ ReplyType'
  <2>1. PutEvent(work, e, new) \in Database
    BY PutEventType
  <2>2. ConnectionType'
    BY <1>4, <2>1, StatementType DEF WriteVoiceEvent
  <2>3. \A b \in BOOLEAN : Written(e, b, PutEvent(work, e, new)) \in Jobs
    BY <1>4, <2>1, WrittenType DEF WriteVoiceEvent, Writing
  <2>4. (e \in work.events) \in BOOLEAN
    OBVIOUS
  <2>5. job' \in Jobs
    BY <1>4, <2>3, <2>4, Zenon DEF WriteVoiceEvent
  <2> QED
    BY <1>4, <2>2, <2>5 DEF WriteVoiceEvent
<1>5. ASSUME WriteFails
      PROVE  ConnectionType' /\ ReplyType'
  BY <1>5, IdleType, FinishType, StatementType, EmptyDatabaseType DEF WriteFails
<1>6. ASSUME FinishWrite
      PROVE  ConnectionType' /\ ReplyType'
  <2>1. [NoSignals EXCEPT !.eventsAdded = job.created, !.eventsModified = job.modified,
                          !.threadsModified = job.seen] \in Signals
    BY IdleType DEF Signals, Jobs
  <2>2. ReplyType'
    BY <1>6, <2>1, IdleType, FinishType DEF FinishWrite
  <2> QED
    BY <1>6, <2>2, StatementType DEF FinishWrite
<1>7. ASSUME RemoveEvent
      PROVE  ConnectionType' /\ ReplyType'
  <2>1. Head(job.todo) \in Events /\ Tail(job.todo) \in Seq(Events)
    BY <1>7, HeadTailProperties DEF RemoveEvent, Jobs
  <2>2. ConnectionType'
    BY <1>7, <2>1, DeleteEventType, StatementType DEF RemoveEvent
  <2>3. job' \in Jobs
    BY <1>7, <2>1 DEF RemoveEvent, Jobs
  <2> QED
    BY <1>7, <2>2, <2>3 DEF RemoveEvent
<1>8. ASSUME CollectThreads
      PROVE  ConnectionType' /\ ReplyType'
  <2> DEFINE touched == {t \in {ThreadOf[e] : e \in job.request} : work.threads[t] # NoThread}
             empty == {t \in touched : work.threads[t].count = 0}
  <2>1. touched \in SUBSET Threads
    BY EventAssumption DEF Jobs
  <2>2. {ThreadRecord(work, t) : t \in touched \ empty} \in SUBSET ThreadRecords
    BY <2>1, ThreadRecordType
  <2>3. job' \in Jobs
    BY <1>8, <2>1, <2>2 DEF CollectThreads, Jobs, Operations
  <2> QED
    BY <1>8, <2>3 DEF CollectThreads, connection
<1>9. ASSUME NEW t \in Threads, DropThread(t)
      PROVE  ConnectionType' /\ ReplyType'
  <2>1. ConnectionType'
    BY <1>9, DeleteThreadType, StatementType DEF DropThread
  <2>2. job' \in Jobs
    BY <1>9 DEF DropThread, Jobs
  <2> QED
    BY <1>9, <2>1, <2>2 DEF DropThread
<1>10. ASSUME RemovalFails
       PROVE  ConnectionType' /\ ReplyType'
  BY <1>10, IdleType, FinishType, StatementType, EmptyDatabaseType DEF RemovalFails
<1>11. ASSUME FinishRemoval
       PROVE  ConnectionType' /\ ReplyType'
  <2>1. [NoSignals EXCEPT !.eventsRemoved = job.request, !.threadsRemoved = job.removed,
                          !.threadsModified = job.seen] \in Signals
    BY IdleType DEF Signals, Jobs
  <2>2. ReplyType'
    BY <1>11, <2>1, FinishType DEF FinishRemoval
  <2> QED
    BY <1>11, <2>2, StatementType DEF FinishRemoval
<1>12. ASSUME NEW t \in Threads, NEW executed \in BOOLEAN, MarkThreadAsRead(t, executed)
       PROVE  ConnectionType' /\ ReplyType'
  <2> DEFINE marked == /\ executed
                       /\ work.threads[t] # NoThread
                       /\ work.threads[t].unreadCount > 0
             db == IF marked THEN MarkEventsRead(work, t) ELSE work
  <2>1. db \in Database
    BY MarkEventsReadType
  <2>2. ThreadRecord(db, t) \in ThreadRecords
    BY <2>1, ThreadRecordType
  <2>3. job' \in Jobs
    BY <1>12, <2>2 DEF MarkThreadAsRead, Jobs
  <2>4. Commit(db) \/ CommitFails(db)
    BY <1>12 DEF MarkThreadAsRead
  <2>5. ConnectionType'
    BY <2>1, <2>4, StatementType
  <2> QED
    BY <1>12, <2>3, <2>5 DEF MarkThreadAsRead
<1>13. ASSUME FinishMarkRead
       PROVE  ConnectionType' /\ ReplyType'
  <2>1. [NoSignals EXCEPT !.threadsModified = job.seen] \in Signals
    BY IdleType DEF Signals, Jobs
  <2> QED
    BY <1>13, <2>1, FinishType DEF FinishMarkRead, connection
<1> QED
  BY <1>1, <1>2, <1>3, <1>4, <1>5, <1>6, <1>7, <1>8, <1>9, <1>10, <1>11, <1>12, <1>13
  DEF Step

\* Every state of every behaviour is well typed.
THEOREM TypeCorrect == Spec => []TypeOK
<1>1. Init => TypeOK
  BY EmptyDatabaseType, IdleType DEF Init, TypeOK
<1>2. TypeOK /\ [Next]_vars => TypeOK'
  <2> SUFFICES ASSUME ConnectionType, ReplyType, [Next]_vars
               PROVE  ConnectionType' /\ ReplyType'
    BY TypeParts DEF TypeOK, ConnectionType, ReplyType
  <2>1. CASE Request
    BY <2>1, RequestTypes
  <2>2. CASE Step
    BY <2>2, StepTypes
  <2>3. CASE Crash
    BY <2>3, IdleType DEF Crash, Rollback, ConnectionType, ReplyType
  <2>4. CASE Restart
    BY <2>4, IdleType DEF Restart, ConnectionType, ReplyType, connection
  <2>5. CASE UNCHANGED vars
    BY <2>5 DEF vars, ConnectionType, ReplyType
  <2> QED
    BY <2>1, <2>2, <2>3, <2>4, <2>5 DEF Next
<1> QED
  BY <1>1, <1>2, PTL DEF Spec

-----------------------------------------------------------------------------
(* Transactions                                                            *)

\* NothingPendingWhenIdle, and the same while the daemon is down and between
\* the transactions of markThreadsAsRead.
NothingPending ==
    job.op \in {"idle", "down", "markRead"} /\ ~commitFailed => work = disk

\* Whatever fails, and also after updateRoomInfo has left a transaction open,
\* an operation that ends leaves nothing uncommitted unless its COMMIT failed.
THEOREM NothingStaysPending == Spec => []NothingPendingWhenIdle
<1>1. Init => NothingPending
  BY DEF Init, NothingPending
<1>2. TypeOK /\ NothingPending /\ [Next]_vars => NothingPending'
  <2> SUFFICES ASSUME TypeOK, NothingPending, [Next]_vars
               PROVE  NothingPending'
    OBVIOUS
  <2> USE DEF NothingPending
  <2>1. CASE Request
    <3>1. ASSUME NEW es \in Requests, NEW n \in BOOLEAN, RemoveEvents(es) \/ WriteEvents(es, n)
          PROVE  NothingPending'
      <4>1. job'.op \in {"removeEvents", "write"}
        BY <3>1 DEF RemoveEvents, WriteEvents, StartJob, Idle
      <4> QED
        BY <4>1
    <3>2. CASE \E ts \in SUBSET Threads : RemoveThreads(ts)
      BY <3>2 DEF RemoveThreads, StartJob, Idle
    <3>3. CASE \E ts \in SUBSET TextThreads : MarkThreadsAsRead(ts)
      BY <3>3 DEF MarkThreadsAsRead, StartJob, connection
    <3>4. CASE \E t \in Threads, now \in Stamps : CreateThread(t, now)
      BY <3>4 DEF CreateThread, Commit, CommitFails, Rollback
    <3>5. CASE \E t \in TextThreads : UpdateRoomInfo(t)
      BY <3>5 DEF UpdateRoomInfo, Commit, Rollback
    <3>6. CASE UpdateRoomInfoUnmapped
      BY <3>6 DEF UpdateRoomInfoUnmapped, Begin
    <3> QED
      BY <2>1, <3>1, <3>2, <3>3, <3>4, <3>5, <3>6 DEF Request
  <2>2. CASE Step
    <3>1. ASSUME NEW e \in Events, NEW new \in BOOLEAN,
                 \/ WriteTextRow(e, new) \/ WriteTextAttachments(e)
                 \/ WriteTextCommit(e) \/ WriteVoiceEvent(e, new)
          PROVE  NothingPending'
      <4>1. job'.op = "write"
        BY <3>1 DEF TypeOK, Jobs, Writing, Written, WriteTextRow, WriteTextAttachments,
                    WriteTextCommit, WriteVoiceEvent
      <4> QED
        BY <4>1
    <3>2. CASE WriteFails \/ RemovalFails
      BY <3>2 DEF WriteFails, RemovalFails, Rollback
    <3>3. CASE FinishWrite \/ FinishRemoval
      BY <3>3 DEF FinishWrite, FinishRemoval, Commit, CommitFails
    <3>4. ASSUME NEW t \in Threads, DropThread(t)
          PROVE  NothingPending'
      <4>1. job'.op = "dropThreads"
        BY <3>4 DEF TypeOK, Jobs, DropThread
      <4> QED
        BY <4>1
    <3>5. CASE RemoveEvent \/ CollectThreads
      <4>1. job'.op \in {"removeEvents", "dropThreads"}
        BY <3>5 DEF TypeOK, Jobs, RemoveEvent, CollectThreads
      <4> QED
        BY <4>1
    <3>6. ASSUME NEW t \in Threads, NEW executed \in BOOLEAN, MarkThreadAsRead(t, executed)
          PROVE  NothingPending'
      BY <3>6 DEF MarkThreadAsRead, Commit, CommitFails
    <3>7. CASE FinishMarkRead
      BY <3>7 DEF FinishMarkRead, connection
    <3> QED
      BY <2>2, <3>1, <3>2, <3>3, <3>4, <3>5, <3>6, <3>7 DEF Step
  <2>3. CASE Crash
    BY <2>3 DEF Crash, Rollback
  <2>4. CASE Restart
    BY <2>4 DEF Restart, connection
  <2>5. CASE UNCHANGED vars
    BY <2>5 DEF vars
  <2> QED
    BY <2>1, <2>2, <2>3, <2>4, <2>5 DEF Next
<1>3. NothingPending => NothingPendingWhenIdle
  BY DEF NothingPending, NothingPendingWhenIdle
<1> QED
  BY <1>1, <1>2, <1>3, TypeCorrect, PTL DEF Spec

-----------------------------------------------------------------------------
(* The databases a step can lead to                                        *)

\* new is db after one statement. Unless writers may be stale, events are
\* only written into threads that are there.
Statement(db, new) ==
    \/ new = db
    \/ \E e \in Events, unread \in BOOLEAN :
          /\ StaleWriters \/ db.threads[ThreadOf[e]] # NoThread
          /\ new = PutEvent(db, e, unread)
    \/ \E e \in Events : new = PutAttachments(db, e) \/ new = DeleteEvent(db, e)
    \/ \E t \in Threads : new = MarkEventsRead(db, t) \/ new = DeleteThread(db, t)
    \/ \E t \in Threads, now \in Stamps :
          db.threads[t] = NoThread /\ new = InsertThread(db, t, now)

DatabaseStep == /\ work' = disk \/ Statement(work, work')
                /\ disk' = disk \/ disk' = work'

\* The threads of the events still to be written are there.
WritersThreadsExist ==
    StaleWriters \/ (job.op = "write" =>
        \A i \in DOMAIN job.todo : work.threads[ThreadOf[job.todo[i]]] # NoThread)

LEMMA TransactionStep ==
    ASSUME NEW db, Statement(work, db),
           Execute(db) \/ Commit(db) \/ CommitFails(db) \/ Begin \/ Rollback
    PROVE  DatabaseStep
BY DEF Execute, Commit, CommitFails, Begin, Rollback, DatabaseStep, Statement

\* Every step leaves the databases as they were, or executes one statement.
LEMMA StepsAreStatements ==
    ASSUME TypeOK, WritersThreadsExist, [Next]_vars
    PROVE  DatabaseStep
<1>0. Statement(work, work) /\ Statement(disk, disk)
  BY DEF Statement
<1>1. CASE Request
  <2>1. CASE \/ \E es \in Requests : RemoveEvents(es) \/ \E n \in BOOLEAN : WriteEvents(es, n)
             \/ \E ts \in SUBSET Threads : RemoveThreads(ts)
             \/ UpdateRoomInfoUnmapped
    BY <1>0, <2>1, TransactionStep
    DEF RemoveEvents, WriteEvents, RemoveThreads, UpdateRoomInfoUnmapped
  <2>2. CASE \E ts \in SUBSET TextThreads : MarkThreadsAsRead(ts)
    BY <1>0, <2>2 DEF MarkThreadsAsRead, connection, DatabaseStep
  <2>3. ASSUME NEW t \in Threads, NEW now \in Stamps, CreateThread(t, now)
        PROVE  DatabaseStep
    <3>1. Statement(work, InsertThread(work, t, now))
      BY <2>3 DEF CreateThread, Statement
    <3> QED
      BY <2>3, <3>1, TransactionStep DEF CreateThread
  <2>4. CASE \E t \in TextThreads : UpdateRoomInfo(t)
    BY <1>0, <2>4, TransactionStep DEF UpdateRoomInfo, DatabaseStep
  <2> QED
    BY <1>1, <2>1, <2>2, <2>3, <2>4 DEF Request
<1>2. CASE Step
  <2>1. ASSUME NEW e \in Events, WriteTextAttachments(e)
        PROVE  DatabaseStep
    BY <2>1, TransactionStep DEF WriteTextAttachments, Statement
  <2>2. ASSUME NEW e \in Events, WriteTextCommit(e)
        PROVE  DatabaseStep
    BY <1>0, <2>2, TransactionStep DEF WriteTextCommit
  <2>3. ASSUME NEW e \in Events, NEW new \in BOOLEAN, Writing(e, "row")
        PROVE  Statement(work, PutEvent(work, e, new))
    <3>1. StaleWriters \/ work.threads[ThreadOf[e]] # NoThread
      BY <2>3, HeadTailProperties DEF WritersThreadsExist, Writing, TypeOK, Jobs
    <3> QED
      BY <3>1 DEF Statement
  <2>4. ASSUME NEW e \in Events, NEW new \in BOOLEAN, WriteTextRow(e, new)
        PROVE  DatabaseStep
    BY <2>3, <2>4 DEF WriteTextRow, DatabaseStep
  <2>5. ASSUME NEW e \in Events, NEW new \in BOOLEAN, WriteVoiceEvent(e, new)
        PROVE  DatabaseStep
    BY <2>3, <2>5, TransactionStep DEF WriteVoiceEvent
  <2>6. CASE WriteFails \/ RemovalFails
    BY <1>0, <2>6, TransactionStep DEF WriteFails, RemovalFails
  <2>7. CASE FinishWrite \/ FinishRemoval
    BY <1>0, <2>7, TransactionStep DEF FinishWrite, FinishRemoval
  <2>8. CASE RemoveEvent
    <3>1. Head(job.todo) \in Events
      BY <2>8, HeadTailProperties DEF RemoveEvent, TypeOK, Jobs
    <3>2. Statement(work, DeleteEvent(work, Head(job.todo)))
      BY <3>1 DEF Statement
    <3> QED
      BY <2>8, <3>2, TransactionStep DEF RemoveEvent
  <2>9. CASE CollectThreads \/ FinishMarkRead
    BY <1>0, <2>9 DEF CollectThreads, FinishMarkRead, connection, DatabaseStep
  <2>10. ASSUME NEW t \in Threads, DropThread(t)
         PROVE  DatabaseStep
    <3>1. Statement(work, DeleteThread(work, t))
      BY DEF Statement
    <3> QED
      BY <2>10, <3>1, TransactionStep DEF DropThread
  <2>11. ASSUME NEW t \in Threads, NEW executed \in BOOLEAN, MarkThreadAsRead(t, executed)
         PROVE  DatabaseStep
    <3>1. Statement(work, MarkEventsRead(work, t))
      BY DEF Statement
    <3> QED
      BY <1>0, <2>11, <3>1, TransactionStep DEF MarkThreadAsRead
  <2> QED
    BY <1>2, <2>1, <2>2, <2>4, <2>5, <2>6, <2>7, <2>8, <2>9, <2>10, <2>11 DEF Step
<1>3. CASE Crash
  BY <1>0, <1>3, TransactionStep DEF Crash
<1>4. CASE Restart \/ UNCHANGED vars
  BY <1>0, <1>4 DEF Restart, connection, vars, DatabaseStep
<1> QED
  BY <1>1, <1>2, <1>3, <1>4 DEF Next

-----------------------------------------------------------------------------
(* The summaries of the threads                                            *)

\* A step that stays in a write, or begins one, keeps the threads it needs.
LEMMA WritersThreadsStep ==
    ASSUME TypeOK, WritersThreadsExist, [Next]_vars
    PROVE  WritersThreadsExist'
<1> SUFFICES ASSUME ~StaleWriters, job'.op = "write"
             PROVE  \A i \in DOMAIN job'.todo : work'.threads[ThreadOf[job'.todo[i]]] # NoThread
  BY DEF WritersThreadsExist
<1> USE DEF TypeOK
<1>0. \A j \in Jobs : \A i \in DOMAIN j.todo : ThreadOf[j.todo[i]] \in Threads
  BY EventAssumption DEF Jobs
<1>1. ASSUME NEW es \in Requests, NEW notify \in BOOLEAN, WriteEvents(es, notify)
      PROVE  \A i \in DOMAIN job'.todo : work'.threads[ThreadOf[job'.todo[i]]] # NoThread
  <2>1. job'.todo = es /\ work' = work
    BY <1>1, IdleType DEF WriteEvents, StartJob, Begin, Jobs
  <2> QED
    BY <1>1, <2>1 DEF WriteEvents
<1>2. ASSUME job.op = "write", SameThreads(work, work'),
             job'.todo = job.todo \/ (job.todo # <<>> /\ job'.todo = Tail(job.todo))
      PROVE  \A i \in DOMAIN job'.todo : work'.threads[ThreadOf[job'.todo[i]]] # NoThread
  <2>1. \A i \in DOMAIN job.todo : work.threads[ThreadOf[job.todo[i]]] # NoThread
    BY <1>2 DEF WritersThreadsExist
  <2>2. \A i \in DOMAIN job'.todo : \E k \in DOMAIN job.todo : job'.todo[i] = job.todo[k]
    <3>1. CASE job'.todo = job.todo
      BY <3>1
    <3>2. CASE job.todo # <<>> /\ job'.todo = Tail(job.todo)
      <4>1. job.todo \in Seq(Events)
        BY DEF Jobs
      <4> QED
        BY <3>2, <4>1, HeadTailProperties
    <3> QED
      BY <1>2, <3>1, <3>2
  <2> QED
    BY <1>0, <1>2, <2>1, <2>2 DEF SameThreads
<1>3. ASSUME NEW e \in Events, WriteTextAttachments(e)
      PROVE  \A i \in DOMAIN job'.todo : work'.threads[ThreadOf[job'.todo[i]]] # NoThread
  <2>1. SameThreads(work, work')
    BY <1>3 DEF WriteTextAttachments, Execute, PutAttachments, SameThreads, Database
  <2> QED
    BY <1>2, <1>3, <2>1 DEF WriteTextAttachments, Writing, Jobs
<1>4. ASSUME NEW e \in Events, WriteTextCommit(e)
      PROVE  \A i \in DOMAIN job'.todo : work'.threads[ThreadOf[job'.todo[i]]] # NoThread
  <2>1. SameThreads(work, work') /\ job'.todo = Tail(job.todo)
    BY <1>4 DEF WriteTextCommit, Commit, SameThreads, Written, Jobs
  <2> QED
    BY <1>2, <1>4, <2>1 DEF WriteTextCommit, Writing
<1>5. ASSUME NEW e \in Events, NEW new \in BOOLEAN, WriteTextRow(e, new)
      PROVE  \A i \in DOMAIN job'.todo : work'.threads[ThreadOf[job'.todo[i]]] # NoThread
  <2>1. SameThreads(work, work')
    BY <1>5, PutEventThreads DEF WriteTextRow
  <2> QED
    BY <1>2, <1>5, <2>1 DEF WriteTextRow, Writing, Jobs
<1>6. ASSUME NEW e \in Events, NEW new \in BOOLEAN, WriteVoiceEvent(e, new)
      PROVE  \A i \in DOMAIN job'.todo : work'.threads[ThreadOf[job'.todo[i]]] # NoThread
  <2>1. SameThreads(work, work')
    BY <1>6, PutEventThreads DEF WriteVoiceEvent, Execute
  <2>2. job'.todo = Tail(job.todo)
    BY <1>6 DEF WriteVoiceEvent, Written, Jobs
  <2> QED
    BY <1>2, <1>6, <2>1, <2>2 DEF WriteVoiceEvent, Writing
<1>7. CASE Request
  <2>1. job'.op = "write" =>
            \E es \in Requests, notify \in BOOLEAN : WriteEvents(es, notify)
    <3>1. \A es \in Requests : RemoveEvents(es) => job'.op = "removeEvents"
      BY DEF RemoveEvents, StartJob, Idle
    <3>2. /\ \A ts \in SUBSET Threads : RemoveThreads(ts) => job'.op = "dropThreads"
          /\ \A ts \in SUBSET TextThreads : MarkThreadsAsRead(ts) => job'.op = "markRead"
      BY DEF RemoveThreads, MarkThreadsAsRead, StartJob, Idle
    <3>3. /\ \A t \in Threads, now \in Stamps : CreateThread(t, now) => job'.op = "idle"
          /\ \A t \in TextThreads : UpdateRoomInfo(t) => job'.op = "idle"
          /\ UpdateRoomInfoUnmapped => job'.op = "idle"
      BY DEF CreateThread, UpdateRoomInfo, UpdateRoomInfoUnmapped, Finish, Idle
    <3> QED
      BY <1>7, <3>1, <3>2, <3>3 DEF Request
  <2> QED
    BY <1>1, <2>1
<1>8. CASE Step
  <2>1. CASE WriteFails \/ FinishWrite \/ RemovalFails \/ FinishRemoval \/ FinishMarkRead
    BY <2>1 DEF WriteFails, FinishWrite, RemovalFails, FinishRemoval, FinishMarkRead,
                Finish, Idle
  <2>2. CASE RemoveEvent \/ CollectThreads
    BY <2>2 DEF RemoveEvent, CollectThreads, Jobs
  <2>3. ASSUME NEW t \in Threads, NEW executed \in BOOLEAN,
               DropThread(t) \/ MarkThreadAsRead(t, executed)
        PROVE  job'.op # "write"
    BY <2>3 DEF DropThread, MarkThreadAsRead, Jobs
  <2> QED
    BY <1>3, <1>4, <1>5, <1>6, <1>8, <2>1, <2>2, <2>3 DEF Step
<1>9. CASE Crash \/ Restart
  BY <1>9 DEF Crash, Restart, Idle, Down
<1>10. CASE UNCHANGED vars
  BY <1>10 DEF vars, WritersThreadsExist
<1> QED
  BY <1>7, <1>8, <1>9, <1>10 DEF Next

LEMMA StatementKeepsSummaries ==
    ASSUME NEW db \in Database, NEW new, Statement(db, new)
    PROVE  /\ SummariesExactOrFresh(db) => SummariesExactOrFresh(new)
           /\ ~StaleWriters /\ SummariesExact(db) /\ EveryEventHasThread(db)
              => SummariesExact(new) /\ EveryEventHasThread(new)
<1>1. ASSUME NEW e \in Events, NEW unread \in BOOLEAN, new = PutEvent(db, e, unread),
             StaleWriters \/ db.threads[ThreadOf[e]] # NoThread
      PROVE  /\ SummariesExactOrFresh(db) => SummariesExactOrFresh(new)
             /\ ~StaleWriters /\ SummariesExact(db) /\ EveryEventHasThread(db)
                => SummariesExact(new) /\ EveryEventHasThread(new)
  <2>1. RowsKept(db, new)
    BY <1>1, PutEventKeepsRows
  <2> QED
    BY <1>1, <2>1, RowsKeptExact, EventsKeepThreads
<1>2. ASSUME NEW e \in Events, new = PutAttachments(db, e) \/ new = DeleteEvent(db, e)
      PROVE  RowsKept(db, new) /\ (EveryEventHasThread(db) => EveryEventHasThread(new))
  BY <1>2, PutAttachmentsKeepsRows, DeleteEventKeepsRows, EventsKeepThreads
<1>3. ASSUME NEW t \in Threads, new = MarkEventsRead(db, t) \/ new = DeleteThread(db, t)
      PROVE  RowsKept(db, new) /\ (EveryEventHasThread(db) => EveryEventHasThread(new))
  BY <1>3, MarkEventsReadKeepsRows, DeleteThreadKeepsRows, EventsKeepThreads
<1>4. ASSUME NEW t \in Threads, NEW now \in Stamps, db.threads[t] = NoThread,
             new = InsertThread(db, t, now)
      PROVE  /\ SummariesExactOrFresh(db) => SummariesExactOrFresh(new)
             /\ ~StaleWriters /\ SummariesExact(db) /\ EveryEventHasThread(db)
                => SummariesExact(new) /\ EveryEventHasThread(new)
  BY <1>4, InsertThreadRows, EventsKeepThreads
<1> QED
  BY <1>1, <1>2, <1>3, <1>4, RowsKeptExact DEF Statement

LEMMA EmptyDatabaseExact ==
    SummariesExact(EmptyDatabase) /\ EveryEventHasThread(EmptyDatabase)
BY DEF SummariesExact, EveryEventHasThread, EmptyDatabase

LEMMA WritersThreadsExistAlways == Spec => []WritersThreadsExist
<1>1. Init => WritersThreadsExist
  BY DEF Init, Idle, WritersThreadsExist
<1> QED
  BY <1>1, WritersThreadsStep, TypeCorrect, PTL DEF Spec

\* Whatever writers do, a thread's row says what its events say, or it was
\* created after them and no trigger has touched it since.
THEOREM SummariesExactOrFreshAlways == Spec => []ThreadSummariesExactOrFresh
<1>1. Init => ThreadSummariesExactOrFresh
  BY EmptyDatabaseExact
  DEF Init, ThreadSummariesExactOrFresh, SummariesExactOrFresh, SummariesExact
<1>2. TypeOK /\ WritersThreadsExist /\ ThreadSummariesExactOrFresh /\ [Next]_vars
          => ThreadSummariesExactOrFresh'
  <2> SUFFICES ASSUME TypeOK, WritersThreadsExist, ThreadSummariesExactOrFresh, [Next]_vars
               PROVE  ThreadSummariesExactOrFresh'
    OBVIOUS
  <2>1. DatabaseStep /\ work \in Database
    BY StepsAreStatements DEF TypeOK
  <2>2. SummariesExactOrFresh(work')
    BY <2>1, StatementKeepsSummaries DEF DatabaseStep, ThreadSummariesExactOrFresh
  <2> QED
    BY <2>1, <2>2 DEF DatabaseStep, ThreadSummariesExactOrFresh
<1> QED
  BY <1>1, <1>2, TypeCorrect, WritersThreadsExistAlways, PTL DEF Spec

\* When no writer names a thread that is gone, every thread's row agrees with
\* its events, and every event has its thread, on the disk and on the
\* connection, whatever fails, rolls back or crashes.
THEOREM SummariesExactAlways ==
    ASSUME ~StaleWriters
    PROVE  Spec => [](ThreadSummariesExact /\ NoOrphanEvents)
<1> DEFINE Inv == ThreadSummariesExact /\ NoOrphanEvents
<1>1. Init => Inv
  BY EmptyDatabaseExact DEF Init, ThreadSummariesExact, NoOrphanEvents
<1>2. TypeOK /\ WritersThreadsExist /\ Inv /\ [Next]_vars => Inv'
  <2> SUFFICES ASSUME TypeOK, WritersThreadsExist, Inv, [Next]_vars
               PROVE  Inv'
    OBVIOUS
  <2>1. DatabaseStep /\ work \in Database
    BY StepsAreStatements DEF TypeOK
  <2>2. SummariesExact(work') /\ EveryEventHasThread(work')
    BY <2>1, StatementKeepsSummaries DEF DatabaseStep, ThreadSummariesExact, NoOrphanEvents
  <2> QED
    BY <2>1, <2>2 DEF DatabaseStep, ThreadSummariesExact, NoOrphanEvents
<1> QED
  BY <1>1, <1>2, TypeCorrect, WritersThreadsExistAlways, PTL DEF Spec

-----------------------------------------------------------------------------
(* All or nothing                                                          *)

Batches == {"write", "removeEvents", "dropThreads"}
TextWritten == (job.created \cup job.modified) \cap TextEvents

\* BatchInvisibleUntilEnd holds because the batch's transaction is open all
\* the while; only the COMMIT of a text event closes it.
BatchOpen == job.op \in Batches /\ TextWritten = {} => inTx /\ disk = job.base
CommitsText == job.op = "write" /\ job.stage # "row" => Head(job.todo) \in TextEvents

LEMMA OutsideBatch ==
    ASSUME job'.op \notin Batches
    PROVE  BatchOpen' /\ CommitsText'
BY DEF BatchOpen, CommitsText, Batches

LEMMA BatchStep ==
    ASSUME TypeOK, BatchOpen, CommitsText, [Next]_vars
    PROVE  BatchOpen' /\ CommitsText'
<1> USE DEF TypeOK
<1>1. CASE Request
  <2>1. ASSUME NEW es \in Requests, NEW notify \in BOOLEAN,
               RemoveEvents(es) \/ WriteEvents(es, notify)
        PROVE  BatchOpen' /\ CommitsText'
    <3>1. inTx' = TRUE /\ disk' = disk /\ job'.base = disk /\ job'.stage = "row"
      BY <2>1, IdleType DEF RemoveEvents, WriteEvents, StartJob, Begin, Jobs, Idle
    <3> QED
      BY <3>1 DEF BatchOpen, CommitsText
  <2>2. ASSUME NEW ts \in SUBSET Threads, RemoveThreads(ts)
        PROVE  BatchOpen' /\ CommitsText'
    <3>1. inTx' = TRUE /\ disk' = disk /\ job'.base = disk /\ job'.stage = "row"
      BY <2>2 DEF RemoveThreads, StartJob, Begin, Idle
    <3> QED
      BY <3>1 DEF BatchOpen, CommitsText
  <2>3. ASSUME NEW ts \in SUBSET TextThreads, MarkThreadsAsRead(ts)
        PROVE  BatchOpen' /\ CommitsText'
    <3>1. job'.op = "markRead"
      BY <2>3 DEF MarkThreadsAsRead, StartJob, Idle
    <3> QED
      BY <3>1, OutsideBatch DEF Batches
  <2>4. ASSUME \/ \E t \in Threads, now \in Stamps : CreateThread(t, now)
               \/ \E t \in TextThreads : UpdateRoomInfo(t)
               \/ UpdateRoomInfoUnmapped
        PROVE  BatchOpen' /\ CommitsText'
    <3>1. job'.op = "idle"
      BY <2>4 DEF CreateThread, UpdateRoomInfo, UpdateRoomInfoUnmapped, Finish, Idle
    <3> QED
      BY <3>1, OutsideBatch DEF Batches
  <2> QED
    BY <1>1, <2>1, <2>2, <2>3, <2>4 DEF Request
<1>2. CASE Step
  <2>1. ASSUME NEW e \in Events, WriteTextAttachments(e)
        PROVE  BatchOpen' /\ CommitsText'
    BY <2>1 DEF WriteTextAttachments, Writing, Execute, Jobs, BatchOpen, CommitsText,
                TextWritten, Batches
  <2>2. ASSUME NEW e \in Events, WriteTextCommit(e)
        PROVE  BatchOpen' /\ CommitsText'
    <3>1. e \in TextEvents
      BY <2>2 DEF WriteTextCommit, Writing, CommitsText
    <3>2. job'.stage = "row" /\ e \in job'.created \cup job'.modified
      BY <2>2 DEF WriteTextCommit, Written, Jobs
    <3> QED
      BY <3>1, <3>2 DEF BatchOpen, CommitsText, TextWritten
  <2>3. ASSUME NEW e \in Events, NEW new \in BOOLEAN, WriteTextRow(e, new)
        PROVE  BatchOpen' /\ CommitsText'
    <3>1. /\ job'.op = job.op /\ job'.todo = job.todo /\ job'.base = job.base
          /\ job'.created = job.created /\ job'.modified = job.modified
      BY <2>3 DEF WriteTextRow, Jobs
    <3> QED
      BY <2>3, <3>1 DEF WriteTextRow, Writing, BatchOpen, CommitsText, TextWritten
  <2>4. ASSUME NEW e \in Events, NEW new \in BOOLEAN, WriteVoiceEvent(e, new)
        PROVE  BatchOpen' /\ CommitsText'
    <3>1. /\ job'.op = job.op /\ job'.stage = "row" /\ job'.base = job.base
          /\ job.created \subseteq job'.created /\ job.modified \subseteq job'.modified
      BY <2>4 DEF WriteVoiceEvent, Written, Jobs
    <3> QED
      BY <2>4, <3>1 DEF WriteVoiceEvent, Execute, BatchOpen, CommitsText, TextWritten
  <2>5. CASE WriteFails \/ FinishWrite \/ RemovalFails \/ FinishRemoval \/ FinishMarkRead
    <3>1. job'.op = "idle"
      BY <2>5 DEF WriteFails, FinishWrite, RemovalFails, FinishRemoval, FinishMarkRead,
                  Finish, Idle
    <3> QED
      BY <3>1, OutsideBatch DEF Batches
  <2>6. CASE RemoveEvent
    BY <2>6 DEF RemoveEvent, Execute, Jobs, BatchOpen, CommitsText, TextWritten, Batches
  <2>7. CASE CollectThreads
    BY <2>7 DEF CollectThreads, connection, Jobs, BatchOpen, CommitsText, TextWritten, Batches
  <2>8. ASSUME NEW t \in Threads, DropThread(t)
        PROVE  BatchOpen' /\ CommitsText'
    BY <2>8 DEF DropThread, Execute, Jobs, BatchOpen, CommitsText, TextWritten, Batches
  <2>9. ASSUME NEW t \in Threads, NEW executed \in BOOLEAN, MarkThreadAsRead(t, executed)
        PROVE  BatchOpen' /\ CommitsText'
    <3>1. job'.op = "markRead"
      BY <2>9 DEF MarkThreadAsRead, Jobs
    <3> QED
      BY <3>1, OutsideBatch DEF Batches
  <2> QED
    BY <1>2, <2>1, <2>2, <2>3, <2>4, <2>5, <2>6, <2>7, <2>8, <2>9 DEF Step
<1>3. CASE Crash \/ Restart
  <2>1. job'.op \in {"down", "idle"}
    BY <1>3 DEF Crash, Restart, Down, Idle
  <2> QED
    BY <2>1, OutsideBatch DEF Batches
<1>4. CASE UNCHANGED vars
  BY <1>4 DEF vars, BatchOpen, CommitsText, TextWritten
<1> QED
  BY <1>1, <1>2, <1>3, <1>4 DEF Next

\* A batch of voice events, a removal of events and a removal of threads show
\* nothing on the disk before they end: a failure or a crash undoes them whole.
THEOREM BatchesAreAtomic == Spec => []BatchInvisibleUntilEnd
<1>1. Init => BatchOpen /\ CommitsText
  BY DEF Init, Idle, BatchOpen, CommitsText, Batches
<1>2. BatchOpen => BatchInvisibleUntilEnd
  BY DEF BatchOpen, BatchInvisibleUntilEnd, Batches, TextWritten
<1> QED
  BY <1>1, <1>2, BatchStep, TypeCorrect, PTL DEF Spec

-----------------------------------------------------------------------------
(* What is announced                                                       *)

Current(rows) == \A r \in rows : work.threads[r.thread] = r.row

\* A batch has stored what it is going to announce; only the row of the thread
\* in which it has just put an event may be newer than the one it has seen.
WriteCollects ==
    job.op = "write" =>
        /\ job.created \cup job.modified \subseteq work.events
        /\ job.stage # "row" => job.todo # <<>> /\ Head(job.todo) \in work.events
        /\ \A r \in job.seen : \/ work.threads[r.thread] = r.row
                               \/ job.stage # "row" /\ r.thread = ThreadOf[Head(job.todo)]

\* Of the events to remove only those still to do are stored.
RemovalCollects ==
    job.op = "removeEvents" =>
        \A e \in job.request \cap work.events : \E i \in DOMAIN job.todo : job.todo[i] = e

\* The threads dropped so far have no row, and the rows collected are of others
\* that still have counted events.
DropCollects ==
    job.op = "dropThreads" =>
        /\ job.drop \subseteq job.removed
        /\ job.request \cap work.events = {}
        /\ \A t \in job.removed \ job.drop : work.threads[t] = NoThread
        /\ Current(job.seen)
        /\ \A r \in job.seen : r.thread \notin job.removed
        /\ \A e \in job.request : \/ ThreadOf[e] \in job.removed
                                  \/ work.threads[ThreadOf[e]] = NoThread
                                  \/ work.threads[ThreadOf[e]].count > 0

\* A thread is marked once; its row does not change after that.
MarkCollects ==
    job.op = "markRead" =>
        Current(job.seen) /\ \A r \in job.seen : r.thread \notin job.drop

\* Signals describe the database until the next operation begins.
SignalsHold == /\ job.op # "idle" => signals = NoSignals
               /\ AnnouncementsAreTrue
               /\ EmptiedThreadsAreRemoved

Collects == WriteCollects /\ RemovalCollects /\ DropCollects /\ MarkCollects

LEMMA NothingAnnounced ==
    ASSUME signals' = NoSignals
    PROVE  AnnouncementsAreTrue' /\ EmptiedThreadsAreRemoved' /\ SignalsHold'
BY DEF SignalsHold, AnnouncementsAreTrue, AnnouncementsAreStored, ModifiedThreadsAreCurrent,
       EmptiedThreadsAreRemoved, NoSignals

LEMMA NothingCollected ==
    ASSUME job'.op \in {"idle", "down"}
    PROVE  Collects'
BY DEF Collects, WriteCollects, RemovalCollects, DropCollects, MarkCollects

LEMMA RequestSignals ==
    ASSUME TypeOK, Collects, SignalsHold, Request
    PROVE  Collects' /\ SignalsHold'
<1> USE DEF TypeOK
<1>1. ASSUME NEW es \in Requests, RemoveEvents(es)
      PROVE  Collects' /\ SignalsHold'
  <2>1. job'.op = "removeEvents" /\ job'.todo = es /\ job'.request = {es[i] : i \in DOMAIN es}
    BY <1>1 DEF RemoveEvents, StartJob, Idle
  <2>2. signals' = NoSignals
    BY <1>1 DEF RemoveEvents, StartJob
  <2> QED
    BY <2>1, <2>2, NothingAnnounced
    DEF Collects, WriteCollects, RemovalCollects, DropCollects, MarkCollects
<1>2. ASSUME NEW es \in Requests, NEW notify \in BOOLEAN, WriteEvents(es, notify)
      PROVE  Collects' /\ SignalsHold'
  <2>1. /\ job'.op = "write" /\ job'.stage = "row"
        /\ job'.created = {} /\ job'.modified = {} /\ job'.seen = {}
    BY <1>2 DEF WriteEvents, StartJob, Idle
  <2>2. signals' = NoSignals
    BY <1>2 DEF WriteEvents, StartJob
  <2> QED
    BY <2>1, <2>2, NothingAnnounced
    DEF Collects, WriteCollects, RemovalCollects, DropCollects, MarkCollects
<1>3. ASSUME NEW ts \in SUBSET Threads, RemoveThreads(ts)
      PROVE  Collects' /\ SignalsHold'
  <2>1. /\ job'.op = "dropThreads" /\ job'.drop = ts /\ job'.removed = ts
        /\ job'.request = {} /\ job'.seen = {}
    BY <1>3 DEF RemoveThreads, StartJob, Idle
  <2>2. signals' = NoSignals
    BY <1>3 DEF RemoveThreads, StartJob
  <2> QED
    BY <2>1, <2>2, NothingAnnounced
    DEF Collects, WriteCollects, RemovalCollects, DropCollects, MarkCollects, Current
<1>4. ASSUME NEW ts \in SUBSET TextThreads, MarkThreadsAsRead(ts)
      PROVE  Collects' /\ SignalsHold'
  <2>1. job'.op = "markRead" /\ job'.seen = {}
    BY <1>4 DEF MarkThreadsAsRead, StartJob, Idle
  <2>2. signals' = NoSignals
    BY <1>4 DEF MarkThreadsAsRead, StartJob
  <2> QED
    BY <2>1, <2>2, NothingAnnounced
    DEF Collects, WriteCollects, RemovalCollects, DropCollects, MarkCollects, Current
<1>5. ASSUME NEW t \in Threads, NEW now \in Stamps, CreateThread(t, now)
      PROVE  Collects' /\ SignalsHold'
  <2>1. job' = Idle
    BY <1>5 DEF CreateThread, Finish
  <2>2. CASE signals' = NoSignals
    BY <2>1, <2>2, NothingAnnounced, NothingCollected DEF Idle
  <2>3. CASE Commit(InsertThread(work, t, now)) /\ signals' = [NoSignals EXCEPT !.threadsAdded = {t}]
    <3>1. work'.threads[t] # NoThread
      BY <2>3, MarkAssumption DEF Commit, InsertThread, Database
    <3>2. /\ signals'.threadsAdded = {t} /\ signals'.threadsModified = {}
          /\ signals'.threadsRemoved = {} /\ signals'.eventsAdded = {}
          /\ signals'.eventsModified = {} /\ signals'.eventsRemoved = {}
      BY <2>3 DEF NoSignals
    <3> QED
      BY <2>1, <3>1, <3>2, NothingCollected
      DEF SignalsHold, AnnouncementsAreTrue, AnnouncementsAreStored, ModifiedThreadsAreCurrent,
          EmptiedThreadsAreRemoved, Idle
  <2> QED
    BY <1>5, <2>2, <2>3 DEF CreateThread, Finish
<1>6. ASSUME NEW t \in TextThreads, UpdateRoomInfo(t)
      PROVE  Collects' /\ SignalsHold'
  <2>1. job' = Idle
    BY <1>6 DEF UpdateRoomInfo, Finish
  <2>2. CASE signals' = NoSignals
    BY <2>1, <2>2, NothingAnnounced, NothingCollected DEF Idle
  <2>3. CASE /\ Commit(work)
             /\ signals' = [NoSignals EXCEPT !.threadsModified = {ThreadRecord(work, t)}]
    <3>1. /\ signals'.threadsAdded = {} /\ signals'.threadsModified = {ThreadRecord(work, t)}
          /\ signals'.threadsRemoved = {} /\ signals'.eventsAdded = {}
          /\ signals'.eventsModified = {} /\ signals'.eventsRemoved = {}
      BY <2>3 DEF NoSignals
    <3> QED
      BY <2>1, <2>3, <3>1, NothingCollected
      DEF SignalsHold, AnnouncementsAreTrue, AnnouncementsAreStored, ModifiedThreadsAreCurrent,
          EmptiedThreadsAreRemoved, Idle, Commit, ThreadRecord
  <2> QED
    BY <1>6, <2>2, <2>3 DEF UpdateRoomInfo, Finish
<1>7. ASSUME UpdateRoomInfoUnmapped
      PROVE  Collects' /\ SignalsHold'
  BY <1>7, NothingAnnounced, NothingCollected DEF UpdateRoomInfoUnmapped, Finish, Idle
<1> QED
  BY <1>1, <1>2, <1>3, <1>4, <1>5, <1>6, <1>7 DEF Request

LEMMA WriteSignals ==
    ASSUME TypeOK, Collects, SignalsHold, NEW e \in Events, NEW new \in BOOLEAN,
           \/ WriteTextRow(e, new) \/ WriteTextAttachments(e)
           \/ WriteTextCommit(e) \/ WriteVoiceEvent(e, new)
    PROVE  Collects' /\ SignalsHold'
<1> USE DEF TypeOK
<1>0. /\ job.op = "write" /\ job.todo # <<>> /\ e = Head(job.todo) /\ signals' = signals
      /\ job.created \cup job.modified \subseteq work.events
      /\ \A r \in job.seen : \/ work.threads[r.thread] = r.row
                             \/ job.stage # "row" /\ r.thread = ThreadOf[e]
  BY DEF WriteTextRow, WriteTextAttachments, WriteTextCommit, WriteVoiceEvent, Writing,
         Collects, WriteCollects
<1>1. SignalsHold'
  BY <1>0, NothingAnnounced DEF SignalsHold
<1>2. \A r \in job.seen : r.thread \in Threads
  BY DEF Jobs, ThreadRecords
<1>3. CASE WriteTextRow(e, new)
  <2>1. /\ job'.op = "write" /\ job'.todo = job.todo /\ job'.stage # "row"
        /\ job'.created = job.created /\ job'.modified = job.modified /\ job'.seen = job.seen
    BY <1>0, <1>3 DEF WriteTextRow, Jobs
  <2>2. work'.events = work.events \cup {e} /\ SameBut(work, work', ThreadOf[e])
    BY <1>3, PutEventThreads, PutEventLeaves DEF WriteTextRow
  <2>3. WriteCollects'
    BY <1>0, <1>2, <2>1, <2>2 DEF WriteCollects, SameBut
  <2> QED
    BY <1>1, <2>1, <2>3 DEF Collects, RemovalCollects, DropCollects, MarkCollects
<1>4. CASE WriteTextAttachments(e)
  <2>1. /\ job'.op = "write" /\ job'.todo = job.todo /\ job'.stage = "commit"
        /\ job'.created = job.created /\ job'.modified = job.modified /\ job'.seen = job.seen
    BY <1>0, <1>4 DEF WriteTextAttachments, Jobs
  <2>2. work'.events = work.events /\ work'.threads = work.threads
    BY <1>4 DEF WriteTextAttachments, Execute, PutAttachments, Database
  <2>3. e \in work.events
    BY <1>0, <1>4 DEF WriteTextAttachments, Writing, Collects, WriteCollects
  <2>4. WriteCollects'
    BY <1>0, <2>1, <2>2, <2>3 DEF WriteCollects
  <2> QED
    BY <1>1, <2>1, <2>4 DEF Collects, RemovalCollects, DropCollects, MarkCollects
<1>5. ASSUME e \in work'.events, work.events \subseteq work'.events,
             SameBut(work, work', ThreadOf[e]),
             NEW existed \in BOOLEAN, job' = Written(e, existed, work')
      PROVE  Collects'
  <2>1. /\ job'.op = "write" /\ job'.stage = "row"
        /\ job'.created \cup job'.modified = job.created \cup job.modified \cup {e}
        /\ job'.seen = {r \in job.seen : r.thread # ThreadOf[e]}
                          \cup {ThreadRecord(work', ThreadOf[e])}
    BY <1>0, <1>5 DEF Written, Jobs
  <2>2. \A r \in job'.seen : work'.threads[r.thread] = r.row
    BY <1>0, <1>2, <1>5, <2>1 DEF SameBut, ThreadRecord
  <2>3. job'.created \cup job'.modified \subseteq work'.events
    BY <1>0, <1>5, <2>1
  <2>4. WriteCollects'
    <3>1. job'.stage = "row"
      BY <2>1
    <3> QED
      BY <2>2, <2>3, <3>1 DEF WriteCollects
  <2> QED
    BY <2>1, <2>4 DEF Collects, RemovalCollects, DropCollects, MarkCollects
<1>6. CASE WriteTextCommit(e)
  <2>1. work' = work /\ job' = Written(e, job.existed, work') /\ job.existed \in BOOLEAN
    BY <1>6 DEF WriteTextCommit, Commit, Jobs
  <2>2. e \in work.events
    BY <1>0, <1>6 DEF WriteTextCommit, Writing, Collects, WriteCollects
  <2> QED
    BY <1>1, <1>5, <2>1, <2>2 DEF SameBut
<1>7. CASE WriteVoiceEvent(e, new)
  <2>1. work' = PutEvent(work, e, new) /\ job' = Written(e, e \in work.events, work')
    BY <1>7, Zenon DEF WriteVoiceEvent, Execute
  <2>2. work'.events = work.events \cup {e} /\ SameBut(work, work', ThreadOf[e])
    BY <2>1, PutEventThreads, PutEventLeaves
  <2>3. (e \in work.events) \in BOOLEAN
    OBVIOUS
  <2>4. e \in work'.events /\ work.events \subseteq work'.events
    BY <2>2
  <2> QED
    BY <1>1, <1>5, <2>1, <2>2, <2>3, <2>4, Zenon
<1> QED
  BY <1>3, <1>4, <1>6, <1>7

LEMMA RemovalSignals ==
    ASSUME TypeOK, Collects, SignalsHold, RemoveEvent \/ CollectThreads
    PROVE  Collects' /\ SignalsHold'
<1> USE DEF TypeOK
<1>0. /\ job.op = "removeEvents" /\ signals' = signals
      /\ \A e \in job.request \cap work.events : \E i \in DOMAIN job.todo : job.todo[i] = e
  BY DEF RemoveEvent, CollectThreads, Collects, RemovalCollects
<1>1. SignalsHold'
  BY <1>0, NothingAnnounced DEF SignalsHold
<1>2. CASE RemoveEvent
  <2>1. /\ job'.op = "removeEvents" /\ job'.todo = Tail(job.todo) /\ job'.request = job.request
    BY <1>0, <1>2 DEF RemoveEvent, Jobs
  <2>2. job.todo \in Seq(Events) /\ job.todo # <<>>
    BY <1>2 DEF RemoveEvent, Jobs
  <2>3. work'.events = work.events \ {Head(job.todo)}
    BY <1>2, <2>2, HeadTailProperties, DeleteEventThreads DEF RemoveEvent, Execute
  <2>4. ASSUME NEW e \in job.request \cap work'.events
        PROVE  \E i \in DOMAIN Tail(job.todo) : Tail(job.todo)[i] = e
    <3>1. PICK i \in DOMAIN job.todo : job.todo[i] = e
      BY <1>0, <2>3, <2>4
    <3>2. i # 1
      BY <2>2, <2>3, <2>4, <3>1
    <3>3. i - 1 \in DOMAIN Tail(job.todo) /\ Tail(job.todo)[i - 1] = e
      BY <2>2, <3>1, <3>2
    <3> QED
      BY <3>3
  <2> QED
    BY <1>1, <2>1, <2>4
    DEF Collects, WriteCollects, RemovalCollects, DropCollects, MarkCollects
<1>3. CASE CollectThreads
  <2> DEFINE touched == {t \in {ThreadOf[e] : e \in job.request} : work.threads[t] # NoThread}
             empty == {t \in touched : work.threads[t].count = 0}
  <2>1. /\ job'.op = "dropThreads" /\ job'.drop = empty /\ job'.removed = empty
        /\ job'.request = job.request
        /\ job'.seen = {ThreadRecord(work, t) : t \in touched \ empty}
        /\ work' = work
    BY <1>3 DEF CollectThreads, connection, Jobs
  <2>2. job.request \cap work.events = {}
    BY <1>0, <1>3 DEF CollectThreads
  <2>3. \A e \in job.request : ThreadOf[e] \in Threads
    BY EventAssumption DEF Jobs
  <2>4. \A e \in job.request : \/ ThreadOf[e] \in empty
                               \/ work.threads[ThreadOf[e]] = NoThread
                               \/ work.threads[ThreadOf[e]].count > 0
    <3>1. \A t \in Threads : work.threads[t] # NoThread => work.threads[t].count \in Nat
      BY DEF Database, ThreadRow
    <3> QED
      BY <2>3, <3>1
  <2>5. (\A r \in job'.seen : work'.threads[r.thread] = r.row) /\ \A r \in job'.seen : r.thread \notin empty
    BY <2>1 DEF ThreadRecord
  <2>6. DropCollects'
    BY <2>1, <2>2, <2>4, <2>5 DEF DropCollects, Current
  <2> QED
    BY <1>1, <2>1, <2>6 DEF Collects, WriteCollects, RemovalCollects, MarkCollects
<1> QED
  BY <1>2, <1>3

LEMMA DropSignals ==
    ASSUME TypeOK, Collects, SignalsHold, NEW t \in Threads, DropThread(t)
    PROVE  Collects' /\ SignalsHold'
<1> USE DEF TypeOK
<1>1. SignalsHold'
  BY NothingAnnounced DEF DropThread, SignalsHold
<1>2. /\ job.op = "dropThreads" /\ t \in job.drop /\ work' = DeleteThread(work, t)
      /\ job'.op = "dropThreads" /\ job'.drop = job.drop \ {t} /\ job'.removed = job.removed
      /\ job'.request = job.request /\ job'.seen = job.seen
  BY DEF DropThread, Execute, Jobs
<1>3. /\ SameBut(work, work', t) /\ work'.threads[t] = NoThread
      /\ work'.events \subseteq work.events
  BY <1>2, DeleteThreadLeaves
<1>4. /\ job.removed \subseteq Threads /\ \A r \in job.seen : r.thread \in Threads
      /\ \A e \in job.request : ThreadOf[e] \in Threads
  BY EventAssumption DEF Jobs, ThreadRecords
<1>5. DropCollects
  BY DEF Collects
<1>6. DropCollects'
  BY <1>2, <1>3, <1>4, <1>5 DEF DropCollects, Current, SameBut
<1> QED
  BY <1>1, <1>2, <1>6 DEF Collects, WriteCollects, RemovalCollects, MarkCollects

LEMMA MarkSignals ==
    ASSUME TypeOK, Collects, SignalsHold, NEW t \in Threads, NEW executed \in BOOLEAN,
           MarkThreadAsRead(t, executed)
    PROVE  Collects' /\ SignalsHold'
<1> USE DEF TypeOK
<1> DEFINE marked == /\ executed
                     /\ work.threads[t] # NoThread
                     /\ work.threads[t].unreadCount > 0
           db == IF marked THEN MarkEventsRead(work, t) ELSE work
<1>1. SignalsHold'
  BY NothingAnnounced DEF MarkThreadAsRead, SignalsHold
<1>2. /\ job.op = "markRead" /\ t \in job.drop /\ work' = db
      /\ job'.op = "markRead" /\ job'.drop = job.drop \ {t}
      /\ job'.seen = job.seen \/ job'.seen = job.seen \cup {ThreadRecord(db, t)}
  BY DEF MarkThreadAsRead, Commit, CommitFails, Jobs
<1>3. SameBut(work, work', t)
  BY <1>2, MarkEventsReadLeaves DEF SameBut
<1>4. \A r \in job.seen : r.thread \in Threads /\ r.thread # t /\ work.threads[r.thread] = r.row
                         /\ r.thread \notin job.drop
  BY <1>2 DEF Jobs, ThreadRecords, Collects, MarkCollects, Current
<1>5. MarkCollects'
  BY <1>2, <1>3, <1>4 DEF MarkCollects, Current, SameBut, ThreadRecord
<1> QED
  BY <1>1, <1>2, <1>5 DEF Collects, WriteCollects, RemovalCollects, DropCollects

\* The end of an operation hands over what it has collected.
LEMMA FinishSignals ==
    ASSUME TypeOK, Collects, SignalsHold,
           WriteFails \/ FinishWrite \/ RemovalFails \/ FinishRemoval \/ FinishMarkRead
    PROVE  Collects' /\ SignalsHold'
<1> USE DEF TypeOK
<1>0. job' = Idle /\ Collects'
  BY NothingCollected
  DEF WriteFails, FinishWrite, RemovalFails, FinishRemoval, FinishMarkRead, Finish, Idle
<1>1. CASE signals' = NoSignals
  BY <1>0, <1>1, NothingAnnounced
<1>2. CASE FinishWrite /\ signals' # NoSignals
  <2>1. /\ signals' = [NoSignals EXCEPT !.eventsAdded = job.created,
                                        !.eventsModified = job.modified,
                                        !.threadsModified = job.seen]
        /\ job.op = "write" /\ job.todo = <<>> /\ work' = work
        /\ commitFailed' = FALSE => disk' = work
    BY <1>2 DEF FinishWrite, Finish, Commit, CommitFails
  <2>2. /\ signals'.eventsAdded = job.created /\ signals'.eventsModified = job.modified
        /\ signals'.threadsModified = job.seen /\ signals'.threadsAdded = {}
        /\ signals'.threadsRemoved = {} /\ signals'.eventsRemoved = {}
    BY <2>1 DEF NoSignals
  <2>3. job.created \cup job.modified \subseteq work.events /\ Current(job.seen)
    BY <2>1 DEF Collects, WriteCollects, Current
  <2>4. commitFailed' \in BOOLEAN
    BY <1>2 DEF FinishWrite, Commit, CommitFails
  <2> QED
    BY <1>0, <2>1, <2>2, <2>3, <2>4
    DEF SignalsHold, AnnouncementsAreTrue, AnnouncementsAreStored, ModifiedThreadsAreCurrent,
        EmptiedThreadsAreRemoved, Current, Idle
<1>3. CASE FinishRemoval
  <2>1. /\ signals' = [NoSignals EXCEPT !.eventsRemoved = job.request,
                                        !.threadsRemoved = job.removed,
                                        !.threadsModified = job.seen]
        /\ job.op = "dropThreads" /\ job.drop = {} /\ work' = work
    BY <1>3 DEF FinishRemoval, Finish, Commit, CommitFails
  <2>2. /\ signals'.eventsAdded = {} /\ signals'.eventsModified = {}
        /\ signals'.threadsModified = job.seen /\ signals'.threadsAdded = {}
        /\ signals'.threadsRemoved = job.removed /\ signals'.eventsRemoved = job.request
    BY <2>1 DEF NoSignals
  <2>3. /\ job.request \cap work.events = {} /\ Current(job.seen)
        /\ \A t \in job.removed : work.threads[t] = NoThread
        /\ \A e \in job.request : \/ work.threads[ThreadOf[e]] = NoThread
                                  \/ work.threads[ThreadOf[e]].count > 0
    BY <2>1 DEF Collects, DropCollects
  <2> QED
    BY <1>0, <2>1, <2>2, <2>3
    DEF SignalsHold, AnnouncementsAreTrue, AnnouncementsAreStored, ModifiedThreadsAreCurrent,
        EmptiedThreadsAreRemoved, Current, Idle
<1>4. CASE FinishMarkRead
  <2>1. /\ signals' = [NoSignals EXCEPT !.threadsModified = job.seen]
        /\ job.op = "markRead" /\ work' = work
    BY <1>4 DEF FinishMarkRead, Finish, connection
  <2>2. /\ signals'.eventsAdded = {} /\ signals'.eventsModified = {}
        /\ signals'.threadsModified = job.seen /\ signals'.threadsAdded = {}
        /\ signals'.threadsRemoved = {} /\ signals'.eventsRemoved = {}
    BY <2>1 DEF NoSignals
  <2> QED
    BY <1>0, <2>1, <2>2
    DEF SignalsHold, AnnouncementsAreTrue, AnnouncementsAreStored, ModifiedThreadsAreCurrent,
        EmptiedThreadsAreRemoved, Current, Collects, MarkCollects, Idle
<1> QED
  BY <1>1, <1>2, <1>3, <1>4 DEF WriteFails, RemovalFails, Finish

\* Whatever an operation announces, also after it has committed half-way,
\* touched the same thread twice or failed to commit, is what the database
\* then holds; stale writers or not.
THEOREM AnnouncementsAlwaysTrue == Spec => [](AnnouncementsAreTrue /\ EmptiedThreadsAreRemoved)
<1>1. Init => Collects /\ SignalsHold
  BY DEF Init, Idle, Collects, WriteCollects, RemovalCollects, DropCollects, MarkCollects,
         SignalsHold, AnnouncementsAreTrue, AnnouncementsAreStored, ModifiedThreadsAreCurrent,
         EmptiedThreadsAreRemoved, NoSignals
<1>2. TypeOK /\ Collects /\ SignalsHold /\ [Next]_vars => Collects' /\ SignalsHold'
  <2> SUFFICES ASSUME TypeOK, Collects, SignalsHold, [Next]_vars
               PROVE  Collects' /\ SignalsHold'
    OBVIOUS
  <2>1. CASE Request
    BY <2>1, RequestSignals
  <2>2. CASE Step
    BY <2>2, WriteSignals, RemovalSignals, DropSignals, MarkSignals, FinishSignals DEF Step
  <2>3. CASE Crash
    BY <2>3, NothingAnnounced, NothingCollected DEF Crash, Down, Idle
  <2>4. CASE Restart
    BY <2>4, NothingAnnounced, NothingCollected DEF Restart, SignalsHold, Idle
  <2>5. CASE UNCHANGED vars
    BY <2>5 DEF vars, Collects, WriteCollects, RemovalCollects, DropCollects, MarkCollects, Current,
         SignalsHold, AnnouncementsAreTrue, AnnouncementsAreStored, ModifiedThreadsAreCurrent,
         EmptiedThreadsAreRemoved
  <2> QED
    BY <2>1, <2>2, <2>3, <2>4, <2>5 DEF Next
<1>3. SignalsHold => AnnouncementsAreTrue /\ EmptiedThreadsAreRemoved
  BY DEF SignalsHold
<1> QED
  BY <1>1, <1>2, <1>3, TypeCorrect, PTL DEF Spec

-----------------------------------------------------------------------------
(* Events, attachments and threads                                         *)

\* Between the row of a multipart event and its attachments the connection,
\* and only the connection, sees the event without them.
AttachmentsFollow ==
    /\ AttachmentsMatch(disk)
    /\ IF job.op = "write" /\ job.stage = "attachments"
       THEN /\ job.todo # <<>>
            /\ Head(job.todo) \in work.events \cap MultipartEvents
            /\ work.attachments \cup {Head(job.todo)} = work.events \cap MultipartEvents
       ELSE AttachmentsMatch(work)

\* A step outside writeTextEvent, and one that ends or undoes it.
LEMMA OtherAttachments ==
    ASSUME AttachmentsMatch(disk), AttachmentsMatch(work') \/ work' = disk,
           disk' = disk \/ disk' = work', job'.op # "write" \/ job'.stage # "attachments"
    PROVE  AttachmentsFollow'
BY DEF AttachmentsFollow, AttachmentsMatch

LEMMA WriteAttachments ==
    ASSUME TypeOK, AttachmentsFollow, NEW e \in Events, NEW new \in BOOLEAN,
           \/ WriteTextRow(e, new) \/ WriteTextAttachments(e)
           \/ WriteTextCommit(e) \/ WriteVoiceEvent(e, new)
    PROVE  AttachmentsFollow'
<1> USE DEF TypeOK
<1>0. job.op = "write" /\ job.todo # <<>> /\ e = Head(job.todo) /\ AttachmentsMatch(disk)
  BY DEF WriteTextRow, WriteTextAttachments, WriteTextCommit, WriteVoiceEvent, Writing,
         AttachmentsFollow
<1>1. CASE WriteTextRow(e, new)
  <2>1. /\ job'.op = "write" /\ job'.todo = job.todo
        /\ job'.stage = IF e \in MultipartEvents THEN "attachments" ELSE "commit"
        /\ disk' = disk /\ work' = PutEvent(work, e, new) /\ AttachmentsMatch(work)
    BY <1>0, <1>1 DEF WriteTextRow, Writing, Jobs, AttachmentsFollow
  <2>2. CASE e \in MultipartEvents
    <3>1. work'.events = work.events \cup {e} /\ work'.attachments = work.attachments
      BY <2>1, PutEventThreads, PutEventLeaves
    <3> QED
      BY <1>0, <2>1, <2>2, <3>1 DEF AttachmentsFollow, AttachmentsMatch
  <2>3. CASE e \notin MultipartEvents
    <3>1. AttachmentsMatch(work')
      BY <2>1, <2>3, AttachmentsKept
    <3> QED
      BY <1>0, <2>1, <2>3, <3>1, OtherAttachments
  <2> QED
    BY <2>2, <2>3
<1>2. CASE WriteTextAttachments(e)
  <2>1. /\ job'.stage = "commit" /\ (disk' = disk \/ disk' = work')
        /\ work'.events = work.events /\ work'.attachments = work.attachments \cup {e}
    BY <1>2 DEF WriteTextAttachments, Execute, PutAttachments, Jobs, Database
  <2>2. work.attachments \cup {e} = work.events \cap MultipartEvents
    BY <1>0, <1>2 DEF WriteTextAttachments, Writing, AttachmentsFollow
  <2>3. AttachmentsMatch(work')
    BY <2>1, <2>2 DEF AttachmentsMatch
  <2>4. job'.stage = "commit" /\ (disk' = disk \/ disk' = work')
    BY <1>2 DEF WriteTextAttachments, Execute, Jobs
  <2> QED
    BY <1>0, <2>3, <2>4, OtherAttachments
<1>3. CASE WriteTextCommit(e)
  <2>1. AttachmentsMatch(work) /\ work' = work /\ disk' = work'
    BY <1>3 DEF WriteTextCommit, Writing, Commit, AttachmentsFollow
  <2>2. job'.stage = "row"
    BY <1>3 DEF WriteTextCommit, Written, Jobs
  <2> QED
    BY <1>0, <2>1, <2>2, OtherAttachments
<1>4. CASE WriteVoiceEvent(e, new)
  <2>1. AttachmentsMatch(work) /\ work' = PutEvent(work, e, new) /\ (disk' = disk \/ disk' = work')
    BY <1>4 DEF WriteVoiceEvent, Writing, Execute, AttachmentsFollow
  <2>2. e \notin MultipartEvents
    BY <1>4, EventAssumption DEF WriteVoiceEvent
  <2>3. AttachmentsMatch(work')
    BY <2>1, <2>2, AttachmentsKept
  <2>4. job'.stage = "row"
    BY <1>4 DEF WriteVoiceEvent, Written, Jobs
  <2> QED
    BY <1>0, <2>1, <2>3, <2>4, OtherAttachments
<1> QED
  BY <1>1, <1>2, <1>3, <1>4

\* A request is taken when nothing else runs.
LEMMA RequestBegins ==
    ASSUME Request
    PROVE  /\ job.op = "idle"
           /\ job'.stage = "row"
           /\ job'.op = "dropThreads" => job'.request = {}
<1>1. ASSUME NEW es \in Requests, NEW notify \in BOOLEAN, RemoveEvents(es) \/ WriteEvents(es, notify)
      PROVE  job.op = "idle" /\ job'.stage = "row" /\ job'.op \in {"removeEvents", "write"}
  BY <1>1 DEF RemoveEvents, WriteEvents, StartJob, Idle
<1>2. ASSUME NEW ts \in SUBSET Threads, RemoveThreads(ts)
      PROVE  job.op = "idle" /\ job'.stage = "row" /\ job'.request = {}
  BY <1>2 DEF RemoveThreads, StartJob, Idle
<1>3. ASSUME NEW ts \in SUBSET TextThreads, MarkThreadsAsRead(ts)
      PROVE  job.op = "idle" /\ job'.stage = "row" /\ job'.op = "markRead"
  BY <1>3 DEF MarkThreadsAsRead, StartJob, Idle
<1>4. ASSUME \/ \E t \in Threads, now \in Stamps : CreateThread(t, now)
             \/ \E t \in TextThreads : UpdateRoomInfo(t)
             \/ UpdateRoomInfoUnmapped
      PROVE  job.op = "idle" /\ job'.stage = "row" /\ job'.op = "idle"
  BY <1>4 DEF CreateThread, UpdateRoomInfo, UpdateRoomInfoUnmapped, Finish, Idle
<1> QED
  BY <1>1, <1>2, <1>3, <1>4 DEF Request

LEMMA AttachmentsStep ==
    ASSUME TypeOK, AttachmentsFollow, [Next]_vars
    PROVE  AttachmentsFollow'
<1> USE DEF TypeOK
<1>0. AttachmentsMatch(disk)
  BY DEF AttachmentsFollow
<1>1. ASSUME job.op # "write" PROVE AttachmentsMatch(work)
  BY <1>1 DEF AttachmentsFollow
<1>2. CASE Request
  <2>0. job.op = "idle" /\ AttachmentsMatch(work)
    BY <1>1, <1>2, RequestBegins
  <2>1. job'.stage = "row"
    BY <1>2, RequestBegins
  <2>2. CASE \E t \in Threads, now \in Stamps : CreateThread(t, now)
    <3>1. \A t \in Threads, now \in Stamps : AttachmentsMatch(InsertThread(work, t, now))
      BY <2>0, AttachmentsKept
    <3>2. AttachmentsMatch(work') \/ work' = disk
      BY <2>2, <3>1 DEF CreateThread, Commit, CommitFails, Rollback
    <3>3. disk' = disk \/ disk' = work'
      BY <2>2 DEF CreateThread, Commit, CommitFails, Rollback
    <3> QED
      BY <1>0, <2>1, <3>2, <3>3, OtherAttachments
  <2>3. CASE ~ \E t \in Threads, now \in Stamps : CreateThread(t, now)
    <3>1. (work' = work \/ work' = disk) /\ (disk' = disk \/ disk' = work')
      BY <1>2, <2>3
      DEF Request, RemoveEvents, WriteEvents, RemoveThreads, MarkThreadsAsRead,
          UpdateRoomInfo, UpdateRoomInfoUnmapped, Begin, Commit, Rollback, connection
    <3> QED
      BY <1>0, <2>0, <2>1, <3>1, OtherAttachments
  <2> QED
    BY <2>2, <2>3
<1>3. CASE Step
  <2>1. CASE WriteFails \/ RemovalFails
    <3>1. work' = disk /\ disk' = disk /\ job'.op = "idle"
      BY <2>1 DEF WriteFails, RemovalFails, Rollback, Finish, Idle
    <3> QED
      BY <1>0, <3>1, OtherAttachments
  <2>2. CASE FinishWrite \/ FinishRemoval \/ FinishMarkRead
    <3>1. AttachmentsMatch(work)
      BY <2>2 DEF FinishWrite, FinishRemoval, FinishMarkRead, AttachmentsFollow
    <3>2. work' = work /\ (disk' = disk \/ disk' = work') /\ job'.op = "idle"
      BY <2>2 DEF FinishWrite, FinishRemoval, FinishMarkRead, Commit, CommitFails,
                  connection, Finish, Idle
    <3> QED
      BY <1>0, <3>1, <3>2, OtherAttachments
  <2>3. CASE RemoveEvent
    <3>1. Head(job.todo) \in Events /\ AttachmentsMatch(work)
      BY <1>1, <2>3, HeadTailProperties DEF RemoveEvent, Jobs
    <3>2. AttachmentsMatch(work') /\ (disk' = disk \/ disk' = work')
      BY <2>3, <3>1, AttachmentsKept DEF RemoveEvent, Execute
    <3>3. job'.op = "removeEvents"
      BY <2>3 DEF RemoveEvent, Jobs
    <3> QED
      BY <1>0, <3>2, <3>3, OtherAttachments
  <2>4. CASE CollectThreads
    <3>1. AttachmentsMatch(work) /\ work' = work /\ disk' = disk /\ job'.op = "dropThreads"
      BY <1>1, <2>4 DEF CollectThreads, connection, Jobs
    <3> QED
      BY <1>0, <3>1, OtherAttachments
  <2>5. ASSUME NEW t \in Threads, DropThread(t)
        PROVE  AttachmentsFollow'
    <3>1. AttachmentsMatch(work)
      BY <1>1, <2>5 DEF DropThread
    <3>2. AttachmentsMatch(work') /\ (disk' = disk \/ disk' = work')
      BY <2>5, <3>1, AttachmentsKept DEF DropThread, Execute
    <3>3. job'.op = "dropThreads"
      BY <2>5 DEF DropThread, Jobs
    <3> QED
      BY <1>0, <3>2, <3>3, OtherAttachments
  <2>6. ASSUME NEW t \in Threads, NEW executed \in BOOLEAN, MarkThreadAsRead(t, executed)
        PROVE  AttachmentsFollow'
    <3>1. AttachmentsMatch(work) /\ AttachmentsMatch(MarkEventsRead(work, t))
      BY <1>1, <2>6, AttachmentsKept DEF MarkThreadAsRead
    <3>2. AttachmentsMatch(work') /\ (disk' = disk \/ disk' = work')
      BY <2>6, <3>1 DEF MarkThreadAsRead, Commit, CommitFails
    <3>3. job'.op = "markRead"
      BY <2>6 DEF MarkThreadAsRead, Jobs
    <3> QED
      BY <1>0, <3>2, <3>3, OtherAttachments
  <2> QED
    BY <1>3, <2>1, <2>2, <2>3, <2>4, <2>5, <2>6, WriteAttachments DEF Step
<1>4. CASE Crash
  BY <1>0, <1>4, OtherAttachments DEF Crash, Rollback, Down, Idle
<1>5. CASE Restart
  BY <1>0, <1>1, <1>5, OtherAttachments DEF Restart, connection, Idle
<1>6. CASE UNCHANGED vars
  BY <1>6 DEF vars, AttachmentsFollow, AttachmentsMatch
<1> QED
  BY <1>2, <1>3, <1>4, <1>5, <1>6 DEF Next

\* The threads removeEvents is about to drop have no message left, since their
\* count says so and counts are exact.
LEMMA DroppedThreadsStep ==
    ASSUME TypeOK, ThreadSummariesExact, DroppedThreadsHaveNoMessages, [Next]_vars
    PROVE  DroppedThreadsHaveNoMessages'
<1> USE DEF TypeOK
<1> SUFFICES ASSUME job'.op = "dropThreads", job'.request # {}
             PROVE  \A t \in job'.drop : Counted(work', t) = {}
  BY DEF DroppedThreadsHaveNoMessages
<1>1. CASE Request
  BY <1>1, RequestBegins
<1>2. CASE CollectThreads
  <2>1. work' = work /\ job'.drop \subseteq {t \in Threads : /\ work.threads[t] # NoThread
                                                            /\ work.threads[t].count = 0}
    <3>1. \A e \in job.request : ThreadOf[e] \in Threads
      BY EventAssumption DEF Jobs
    <3>2. work' = work /\ job'.drop =
            {t \in {u \in {ThreadOf[e] : e \in job.request} : work.threads[u] # NoThread} :
                work.threads[t].count = 0}
      BY <1>2 DEF CollectThreads, connection, Jobs
    <3> QED
      BY <3>1, <3>2
  <2> QED
    BY <2>1, NothingCounted DEF ThreadSummariesExact, SummariesExact
<1>3. ASSUME NEW t \in Threads, DropThread(t)
      PROVE  \A u \in job'.drop : Counted(work', u) = {}
  <2>1. /\ job.op = "dropThreads" /\ job'.request = job.request
        /\ job'.drop \subseteq job.drop /\ work' = DeleteThread(work, t)
    BY <1>3 DEF DropThread, Execute, Jobs
  <2>2. work'.events \subseteq work.events
    BY <2>1, DeleteThreadLeaves
  <2> QED
    BY <2>1, <2>2 DEF DroppedThreadsHaveNoMessages, Counted, EventsOf
<1>4. CASE Step /\ ~CollectThreads /\ ~ \E t \in Threads : DropThread(t)
  <2>1. ASSUME NEW e \in Events, NEW new \in BOOLEAN,
               \/ WriteTextRow(e, new) \/ WriteTextAttachments(e)
               \/ WriteTextCommit(e) \/ WriteVoiceEvent(e, new)
        PROVE  job'.op = "write"
    BY <2>1 DEF Jobs, Writing, Written, WriteTextRow, WriteTextAttachments,
                WriteTextCommit, WriteVoiceEvent
  <2>2. CASE WriteFails \/ FinishWrite \/ RemovalFails \/ FinishRemoval \/ FinishMarkRead
    BY <2>2 DEF WriteFails, FinishWrite, RemovalFails, FinishRemoval, FinishMarkRead,
                Finish, Idle
  <2>3. CASE RemoveEvent
    BY <2>3 DEF RemoveEvent, Jobs
  <2>4. ASSUME NEW t \in Threads, NEW executed \in BOOLEAN, MarkThreadAsRead(t, executed)
        PROVE  job'.op = "markRead"
    BY <2>4 DEF MarkThreadAsRead, Jobs
  <2> QED
    BY <1>4, <2>1, <2>2, <2>3, <2>4 DEF Step
<1>5. CASE Crash \/ Restart
  BY <1>5 DEF Crash, Restart, Down, Idle
<1>6. CASE UNCHANGED vars
  BY <1>6 DEF vars, DroppedThreadsHaveNoMessages, Counted, EventsOf
<1> QED
  BY <1>1, <1>2, <1>3, <1>4, <1>5, <1>6 DEF Next

\* If no writer names a thread that is gone, no event outlives its thread, no
\* multipart event is committed without its attachments or they without it,
\* and removeEvents drops a thread when, and only when, it has no message left.
THEOREM RowsAlwaysBelongTogether ==
    ASSUME ~StaleWriters
    PROVE  Spec => []RowsBelongTogether
<1>1. Init => AttachmentsFollow /\ DroppedThreadsHaveNoMessages
  BY DEF Init, Idle, EmptyDatabase, AttachmentsFollow, AttachmentsMatch,
         DroppedThreadsHaveNoMessages
<1>2. TypeOK /\ AttachmentsFollow /\ [Next]_vars => AttachmentsFollow'
  BY AttachmentsStep
<1>3. TypeOK /\ ThreadSummariesExact /\ DroppedThreadsHaveNoMessages /\ [Next]_vars
          => DroppedThreadsHaveNoMessages'
  BY DroppedThreadsStep
<1>4. AttachmentsFollow => AttachmentsComplete
  BY DEF AttachmentsFollow, AttachmentsMatch, AttachmentsComplete
<1>5. AttachmentsComplete /\ NoOrphanEvents /\ EmptiedThreadsAreRemoved
          /\ DroppedThreadsHaveNoMessages => RowsBelongTogether
  BY DEF RowsBelongTogether
<1> QED
  BY <1>1, <1>2, <1>3, <1>4, <1>5, TypeCorrect, SummariesExactAlways, AnnouncementsAlwaysTrue, PTL
  DEF Spec

-----------------------------------------------------------------------------
(* HistoryStore implements EventLog: each statement is one change of the   *)
(* log, and transactions only decide when changes are saved.               *)

\* The log with the events of db, and the summaries that follow from them.
ExactLog(db) == Log!LogWith(Stored(db), db.events, db.newEvents)

\* The timestamp in a row is that of the last event it names.
LEMMA NewestIsLatest ==
    ASSUME NEW evts \in SUBSET Events
    PROVE  Log!NewestStamp(evts) = IF Latest(evts) = NoEvent THEN 0 ELSE Stamp[Latest(evts)]
<1> DEFINE newest == {e \in evts : \A f \in evts : Stamp[f] <= Stamp[e]}
<1>1. CASE newest = {}
  BY <1>1 DEF Log!NewestStamp, Latest
<1>2. CASE newest # {}
  <2>1. Latest(evts) = CHOOSE e \in newest : TRUE
    BY <1>2 DEF Latest
  <2>2. Latest(evts) \in Events
    BY <1>2, <2>1
  <2>3. Latest(evts) # NoEvent
    BY <2>2, MarkAssumption
  <2>4. Log!NewestStamp(evts) = Stamp[CHOOSE e \in newest : TRUE]
    BY <1>2 DEF Log!NewestStamp
  <2> QED
    BY <2>1, <2>3, <2>4
<1> QED
  BY <1>1, <1>2

\* A database with exact summaries is the log of its events.
LEMMA ExactSummariesMakeLog ==
    ASSUME NEW db \in Database, SummariesExact(db)
    PROVE  LogOf(db) = ExactLog(db)
<1> SUFFICES ASSUME NEW t \in Stored(db)
             PROVE  LogOf(db).summary[t] = ExactLog(db).summary[t]
  BY DEF LogOf, ExactLog, Log!LogWith
<1>1. t \in Threads /\ SummaryIsExact(db, t)
  BY DEF Stored, SummariesExact
<1>2. Counted(db, t) \in SUBSET Events
  BY DEF Counted, EventsOf, Database
<1>3. Counted(db, t) = {e \in db.events : ThreadOf[e] = t} \ InfoEvents
  BY DEF Counted, EventsOf
<1>4. ExactLog(db).summary[t] = Log!Summarize(Counted(db, t), db.newEvents)
  BY <1>3 DEF ExactLog, Log!LogWith
<1>5. /\ db.threads[t].count = Cardinality(Counted(db, t))
      /\ db.threads[t].unreadCount = Cardinality(Counted(db, t) \cap db.newEvents)
      /\ db.threads[t].lastEventId = Latest(Counted(db, t))
  BY <1>1 DEF SummaryIsExact, Summary
<1>6. LogOf(db).summary[t] =
          [count |-> db.threads[t].count, unread |-> db.threads[t].unreadCount,
           newest |-> IF db.threads[t].lastEventId = NoEvent THEN 0
                      ELSE Stamp[db.threads[t].lastEventId]]
  BY DEF LogOf
<1> QED
  BY <1>2, <1>4, <1>5, <1>6, NewestIsLatest DEF Log!Summarize, Log!Cardinality, Cardinality

-----------------------------------------------------------------------------
(* Statements are changes                                                  *)

\* What the triggers rewrite is no event.
LEMMA RefreshThreadEvents ==
    ASSUME NEW db \in Database, NEW t \in Threads
    PROVE  /\ Stored(RefreshThread(db, t)) = Stored(db)
           /\ RefreshThread(db, t).events = db.events
           /\ RefreshThread(db, t).newEvents = db.newEvents
<1>1. SameThreads(db, RefreshThread(db, t))
  BY RefreshThreadThreads
<1>2. Stored(RefreshThread(db, t)) = Stored(db)
  BY <1>1 DEF Stored, SameThreads
<1> QED
  BY <1>2 DEF RefreshThread, Database

LEMMA PutIsChange ==
    ASSUME NEW db \in Database, NEW e \in Events, NEW new \in BOOLEAN
    PROVE  ExactLog(PutEvent(db, e, new)) = Log!Put(ExactLog(db), e, new)
<1> DEFINE stored == [db EXCEPT !.events = @ \cup {e},
                                !.newEvents = IF new THEN @ \cup {e} ELSE @ \ {e}]
<1>1. stored \in Database /\ ThreadOf[e] \in Threads
  BY EventAssumption DEF Database
<1>2. /\ Stored(PutEvent(db, e, new)) = Stored(stored)
      /\ PutEvent(db, e, new).events = stored.events
      /\ PutEvent(db, e, new).newEvents = stored.newEvents
  BY <1>1, RefreshThreadEvents DEF PutEvent
<1>3. /\ Stored(stored) = Stored(db)
      /\ stored.events = db.events \cup {e}
      /\ stored.newEvents = IF new THEN db.newEvents \cup {e} ELSE db.newEvents \ {e}
  BY DEF Stored, Database
<1> QED
  BY <1>2, <1>3 DEF ExactLog, Log!Put, Log!LogWith

LEMMA DeleteIsChange ==
    ASSUME NEW db \in Database, NEW e \in db.events
    PROVE  ExactLog(DeleteEvent(db, e)) = Log!Remove(ExactLog(db), e)
<1> DEFINE deleted == [db EXCEPT !.events = @ \ {e}, !.newEvents = @ \ {e}]
           bare == [deleted EXCEPT !.attachments = @ \ {e}]
<1>1. bare \in Database /\ ThreadOf[e] \in Threads
  BY EventAssumption DEF Database
<1>2. /\ Stored(deleted) = Stored(db) /\ Stored(bare) = Stored(db)
      /\ deleted.events = db.events \ {e} /\ bare.events = db.events \ {e}
      /\ deleted.newEvents = db.newEvents \ {e} /\ bare.newEvents = db.newEvents \ {e}
  BY DEF Stored, Database
<1>3. /\ Stored(DeleteEvent(db, e)) = Stored(db)
      /\ DeleteEvent(db, e).events = db.events \ {e}
      /\ DeleteEvent(db, e).newEvents = db.newEvents \ {e}
  BY <1>1, <1>2, RefreshThreadEvents DEF DeleteEvent
<1> QED
  BY <1>3 DEF ExactLog, Log!Remove, Log!LogWith

LEMMA MarkReadIsChange ==
    ASSUME NEW db \in Database, NEW t \in Threads, db.newEvents \subseteq db.events
    PROVE  ExactLog(MarkEventsRead(db, t)) = Log!MarkRead(ExactLog(db), t)
<1> DEFINE read == [db EXCEPT !.newEvents = @ \ (EventsOf(db, t) \cap db.newEvents)]
<1>1. read \in Database
  BY DEF Database
<1>2. /\ Stored(read) = Stored(db) /\ read.events = db.events
      /\ read.newEvents = {e \in db.newEvents : ThreadOf[e] # t}
  BY DEF Stored, EventsOf, Database
<1>3. /\ Stored(MarkEventsRead(db, t)) = Stored(read)
      /\ MarkEventsRead(db, t).events = read.events
      /\ MarkEventsRead(db, t).newEvents = read.newEvents
  BY <1>1, RefreshThreadEvents DEF MarkEventsRead
<1> QED
  BY <1>2, <1>3 DEF ExactLog, Log!MarkRead, Log!LogWith

LEMMA DropIsChange ==
    ASSUME NEW db \in Database, NEW t \in Stored(db), db.newEvents \subseteq db.events
    PROVE  ExactLog(DeleteThread(db, t)) = Log!Drop(ExactLog(db), t)
<1>1. t \in Threads /\ db.threads[t] # NoThread
  BY DEF Stored
<1>2. /\ Stored(DeleteThread(db, t)) = Stored(db) \ {t}
      /\ DeleteThread(db, t).events = {e \in db.events : ThreadOf[e] # t}
      /\ DeleteThread(db, t).newEvents = {e \in db.newEvents : ThreadOf[e] # t}
  BY <1>1 DEF DeleteThread, Stored, EventsOf, Database
<1> QED
  BY <1>2 DEF ExactLog, Log!Drop, Log!LogWith

LEMMA InsertIsChange ==
    ASSUME NEW db \in Database, NEW t \in Threads, NEW now \in Stamps
    PROVE  ExactLog(InsertThread(db, t, now)) = Log!Open(ExactLog(db), t)
<1> DEFINE row == [count |-> 0, unreadCount |-> 0, lastEventId |-> NoEvent,
                   lastEventTimestamp |-> now]
<1>1. row # NoThread
  BY MarkAssumption
<1>2. /\ Stored(InsertThread(db, t, now)) = Stored(db) \cup {t}
      /\ InsertThread(db, t, now).events = db.events
      /\ InsertThread(db, t, now).newEvents = db.newEvents
  BY <1>1 DEF InsertThread, Stored, Database
<1> QED
  BY <1>2 DEF ExactLog, Log!Open, Log!LogWith

\* Only stored events are unread.
UnreadStored(db) == db.newEvents \subseteq db.events

\* A statement is one change of the log, or none.
LEMMA StatementIsChange ==
    ASSUME NEW db \in Database, NEW new, Statement(db, new), ~StaleWriters,
           EveryEventHasThread(db), UnreadStored(db)
    PROVE  /\ UnreadStored(new)
           /\ ExactLog(new) = ExactLog(db) \/ Log!Change(ExactLog(db), ExactLog(new))
<1> DEFINE old == ExactLog(db)
           Goal == UnreadStored(new) /\ (ExactLog(new) = old \/ Log!Change(old, ExactLog(new)))
<1>0. /\ old.threads = Stored(db) /\ old.events = db.events /\ old.unread = db.newEvents
      /\ ExactLog(new).events = new.events /\ ExactLog(new).unread = new.newEvents
      /\ Stored(db) \subseteq Threads
  BY DEF ExactLog, Log!LogWith, Stored
<1>1. ASSUME NEW e \in Events, NEW unread \in BOOLEAN, db.threads[ThreadOf[e]] # NoThread,
             new = PutEvent(db, e, unread)
      PROVE  Goal
  <2>1. ExactLog(new) = Log!Put(old, e, unread)
    BY <1>1, PutIsChange
  <2>2. ThreadOf[e] \in old.threads
    BY <1>0, <1>1, EventAssumption DEF Stored
  <2>3. UnreadStored(new)
    BY <1>0, <2>1 DEF UnreadStored, Log!Put, Log!LogWith
  <2> QED
    BY <2>1, <2>2, <2>3 DEF Log!Change
<1>2. ASSUME NEW e \in Events, new = PutAttachments(db, e)
      PROVE  Goal
  BY <1>2 DEF PutAttachments, ExactLog, Stored, UnreadStored, Database
<1>3. ASSUME NEW e \in Events, new = DeleteEvent(db, e)
      PROVE  Goal
  <2>1. CASE e \notin db.events
    BY <1>3, <2>1 DEF DeleteEvent
  <2>2. CASE e \in db.events
    <3>1. ExactLog(new) = Log!Remove(old, e)
      BY <1>3, <2>2, DeleteIsChange
    <3>2. UnreadStored(new)
      BY <1>0, <3>1 DEF UnreadStored, Log!Remove, Log!LogWith
    <3> QED
      BY <1>0, <2>2, <3>1, <3>2 DEF Log!Change
  <2> QED
    BY <2>1, <2>2
<1>4. ASSUME NEW t \in Threads, new = MarkEventsRead(db, t)
      PROVE  Goal
  <2>1. ExactLog(new) = Log!MarkRead(old, t)
    BY <1>4, MarkReadIsChange DEF UnreadStored
  <2>2. UnreadStored(new)
    BY <1>0, <2>1 DEF UnreadStored, Log!MarkRead, Log!LogWith
  <2>3. t \notin Stored(db) => {e \in db.newEvents : ThreadOf[e] # t} = db.newEvents
    BY DEF UnreadStored, EveryEventHasThread, Stored
  <2>4. t \notin Stored(db) => ExactLog(new) = old
    BY <1>0, <2>1, <2>3 DEF ExactLog, Log!MarkRead, Log!LogWith
  <2> QED
    BY <1>0, <2>1, <2>2, <2>4 DEF Log!Change
<1>5. ASSUME NEW t \in Threads, new = DeleteThread(db, t)
      PROVE  Goal
  <2>1. CASE t \notin Stored(db)
    BY <1>5, <2>1 DEF DeleteThread, Stored
  <2>2. CASE t \in Stored(db)
    <3>1. ExactLog(new) = Log!Drop(old, t)
      BY <1>5, <2>2, DropIsChange DEF UnreadStored
    <3>2. UnreadStored(new)
      BY <1>0, <3>1 DEF UnreadStored, Log!Drop, Log!LogWith
    <3> QED
      BY <1>0, <2>2, <3>1, <3>2 DEF Log!Change
  <2> QED
    BY <2>1, <2>2
<1>6. ASSUME NEW t \in Threads, NEW now \in Stamps, db.threads[t] = NoThread,
             new = InsertThread(db, t, now)
      PROVE  Goal
  <2>1. ExactLog(new) = Log!Open(old, t)
    BY <1>6, InsertIsChange
  <2>2. t \in Threads \ old.threads
    BY <1>0, <1>6 DEF Stored
  <2>3. UnreadStored(new)
    BY <1>0, <2>1 DEF UnreadStored, Log!Open, Log!LogWith
  <2> QED
    BY <2>1, <2>2, <2>3 DEF Log!Change
<1> QED
  BY <1>1, <1>2, <1>3, <1>4, <1>5, <1>6 DEF Statement

-----------------------------------------------------------------------------
(* Steps are steps of the log                                              *)

\* What the refinement needs of a database.
Exact(db) == db \in Database /\ SummariesExact(db) /\ EveryEventHasThread(db) /\ UnreadStored(db)

\* A step that executes one statement is a step of the log or leaves it alone.
LEMMA DatabaseStepIsLogStep ==
    ASSUME ~StaleWriters, DatabaseStep, Exact(work), Exact(disk), Exact(work'), Exact(disk')
    PROVE  [Log!Next]_Log!vars
<1>1. /\ LogOf(work) = ExactLog(work) /\ LogOf(disk) = ExactLog(disk)
      /\ LogOf(work') = ExactLog(work') /\ LogOf(disk') = ExactLog(disk')
  BY ExactSummariesMakeLog DEF Exact
<1>2. CASE work' = disk /\ disk' = disk
  BY <1>2 DEF Log!Next, Log!Revert
<1>3. CASE Statement(work, work') /\ ~(work' = disk /\ disk' = disk)
  <2>1. LogOf(work') = LogOf(work) \/ Log!Change(LogOf(work), LogOf(work'))
    BY <1>1, <1>3, StatementIsChange DEF Exact
  <2>2. LogOf(disk') = LogOf(disk) \/ LogOf(disk') = LogOf(work')
    BY DEF DatabaseStep
  <2>3. CASE Log!Change(LogOf(work), LogOf(work'))
    BY <2>2, <2>3 DEF Log!Next, Log!ChangeLog
  <2>4. CASE LogOf(work') = LogOf(work)
    BY <2>2, <2>4 DEF Log!Next, Log!Save, Log!vars
  <2> QED
    BY <2>1, <2>3, <2>4
<1> QED
  BY <1>2, <1>3 DEF DatabaseStep

LEMMA UnreadStoredStep ==
    ASSUME ~StaleWriters, DatabaseStep, Exact(work), Exact(disk)
    PROVE  UnreadStored(work') /\ UnreadStored(disk')
BY StatementIsChange DEF DatabaseStep, Exact

LEMMA EmptyDatabaseIsEmptyLog ==
    UnreadStored(EmptyDatabase) /\ LogOf(EmptyDatabase) = Log!EmptyLog
<1>1. Stored(EmptyDatabase) = {}
  BY DEF Stored, EmptyDatabase
<1> QED
  BY <1>1 DEF UnreadStored, LogOf, EmptyDatabase, Log!EmptyLog, Log!LogWith

\* The operations, their transactions, triggers and failures implement the
\* log: clients see it change by one event, one thread or one thread's read
\* marks, with the summaries that follow, and nothing but what was visible is
\* ever saved or returned to.
THEOREM StoreImplementsLog ==
    ASSUME ~StaleWriters
    PROVE  Spec => ImplementsEventLog
<1> DEFINE Unread == UnreadStored(work) /\ UnreadStored(disk)
           Inv == TypeOK /\ WritersThreadsExist /\ ThreadSummariesExact /\ NoOrphanEvents
<1>1. Init => Unread /\ Log!Init
  BY EmptyDatabaseIsEmptyLog DEF Init, Log!Init
<1>2. Inv /\ Unread /\ [Next]_vars => Unread'
  BY StepsAreStatements, UnreadStoredStep
  DEF Exact, TypeOK, ThreadSummariesExact, NoOrphanEvents
<1>3. Inv /\ Inv' /\ Unread /\ Unread' /\ [Next]_vars => [Log!Next]_Log!vars
  BY StepsAreStatements, DatabaseStepIsLogStep
  DEF Exact, TypeOK, ThreadSummariesExact, NoOrphanEvents
<1> QED
  BY <1>1, <1>2, <1>3, TypeCorrect, WritersThreadsExistAlways, SummariesExactAlways, PTL
  DEF Spec, ImplementsEventLog, Log!Spec

=============================================================================
