-------------------------- MODULE HistoryDatabase --------------------------
(***************************************************************************)
(* The tables of the SQLite plugin's database and the statements that      *)
(* change them, each with the triggers the schema fires for it.            *)
(*                                                                         *)
(* A database is a value (a record), not a state: HistoryStore keeps two   *)
(* of them, the committed one and the one its connection sees.  The text   *)
(* and the voice table have the same shape here; an event belongs to the   *)
(* table of its thread's type.  An event is reduced to what the triggers   *)
(* read: its thread, whether it is an information event, its timestamp and *)
(* its newEvent flag.                                                      *)
(***************************************************************************)
EXTENDS Integers, FiniteSets

CONSTANTS
    TextThreads,     \* threads with type = 0 in the threads table
    VoiceThreads,    \* threads with type = 1
    Events,          \* the (accountId, threadId, eventId) keys of both event tables
    ThreadOf,        \* the thread an event key names
    InfoEvents,      \* text events with messageType = 2 (information events)
    MultipartEvents, \* text events with messageType = 1: they carry attachments
    Stamp,           \* the timestamp of an event
    Stamps,          \* the timestamps there are
    NoEvent,         \* lastEventId IS NULL
    NoThread         \* the thread has no row

Threads == TextThreads \cup VoiceThreads
TextEvents == {e \in Events : ThreadOf[e] \in TextThreads}

ASSUME ThreadAssumption == TextThreads \cap VoiceThreads = {}

ASSUME EventAssumption ==
    /\ IsFiniteSet(Events)
    /\ ThreadOf \in [Events -> Threads]
    /\ InfoEvents \subseteq TextEvents
    /\ MultipartEvents \subseteq TextEvents \ InfoEvents
    /\ Stamps \subseteq Nat \ {0}
    /\ Stamp \in [Events -> Stamps]

\* The marks for NULL and for a missing row are no event and no row.
ASSUME MarkAssumption ==
    /\ NoEvent \notin Events
    /\ NoThread \notin [count : Nat, unreadCount : Nat,
                        lastEventId : Events \cup {NoEvent},
                        lastEventTimestamp : Stamps \cup {0}]

-----------------------------------------------------------------------------
(* The tables.                                                             *)

\* A row of the threads table. lastEventTimestamp = 0 stands for NULL.
ThreadRow == [count : Nat, unreadCount : Nat,
              lastEventId : Events \cup {NoEvent},
              lastEventTimestamp : Stamps \cup {0}]

\* events: the rows of text_events and voice_events; newEvents: those with
\* newEvent = 1; attachments: the events whose rows of text_event_attachments
\* are complete.
Database == [threads : [Threads -> ThreadRow \cup {NoThread}],
             events : SUBSET Events,
             newEvents : SUBSET Events,
             attachments : SUBSET Events]

EmptyDatabase == [threads |-> [t \in Threads |-> NoThread],
                  events |-> {}, newEvents |-> {}, attachments |-> {}]

EventsOf(db, t) == {e \in db.events : ThreadOf[e] = t}

\* Information events are stored but never counted (messageType != 2).
Counted(db, t) == EventsOf(db, t) \ InfoEvents

\* SELECT eventId ... ORDER BY timestamp DESC LIMIT 1: which of several
\* events with the same timestamp comes first is left open.
Latest(evts) ==
    LET newest == {e \in evts : \A f \in evts : Stamp[f] <= Stamp[e]}
    IN  IF newest = {} THEN NoEvent ELSE CHOOSE e \in newest : TRUE

\* What the four UPDATE statements of a trigger write in a thread's row.
Summary(db, t) ==
    LET counted == Counted(db, t)
        last == Latest(counted)
    IN  [count |-> Cardinality(counted),
         unreadCount |-> Cardinality(counted \cap db.newEvents),
         lastEventId |-> last,
         lastEventTimestamp |-> IF last = NoEvent THEN 0 ELSE Stamp[last]]

\* The triggers update WHERE accountId, threadId and type match: a thread
\* without a row stays without one.
RefreshThread(db, t) ==
    IF db.threads[t] = NoThread THEN db
    ELSE [db EXCEPT !.threads[t] = Summary(db, t)]

-----------------------------------------------------------------------------
(* The statements.                                                         *)

\* Mutant: no trigger on INSERT.
PutEventSilently(db, e, new) ==
    [db EXCEPT !.events = @ \cup {e},
               !.newEvents = IF new THEN @ \cup {e} ELSE @ \ {e}]

\* INSERT or UPDATE of an event row, with the trigger it fires.
PutEvent(db, e, new) ==
    LET stored == [db EXCEPT !.events = @ \cup {e},
                             !.newEvents = IF new THEN @ \cup {e} ELSE @ \ {e}]
    IN  IF e \in InfoEvents THEN stored ELSE RefreshThread(stored, ThreadOf[e])

\* DELETE of the event's previous attachments, then one INSERT for each.
PutAttachments(db, e) == [db EXCEPT !.attachments = @ \cup {e}]

\* Mutants: a trigger that lowers the count of any event's thread, as an
\* incremental trigger would; and one that forgets the attachments.
DeleteEventDecrementing(db, e) ==
    LET t == ThreadOf[e]
    IN  IF db.threads[t] = NoThread \/ e \notin db.events THEN db
        ELSE [db EXCEPT !.events = @ \ {e}, !.newEvents = @ \ {e},
                        !.attachments = @ \ {e}, !.threads[t].count = @ - 1]

DeleteEventKeepingAttachments(db, e) ==
    LET deleted == [db EXCEPT !.events = @ \ {e}, !.newEvents = @ \ {e}]
    IN  IF e \in InfoEvents \/ e \notin db.events THEN deleted
        ELSE RefreshThread(deleted, ThreadOf[e])

\* DELETE of an event row. The trigger, which also deletes the attachments,
\* does not fire for an information event or when there is no such row.
DeleteEvent(db, e) ==
    LET deleted == [db EXCEPT !.events = @ \ {e}, !.newEvents = @ \ {e}]
    IN  IF e \notin db.events THEN db
        ELSE IF e \in InfoEvents THEN deleted
        ELSE RefreshThread([deleted EXCEPT !.attachments = @ \ {e}], ThreadOf[e])

\* Mutant: no trigger on UPDATE.
MarkEventsReadSilently(db, t) == [db EXCEPT !.newEvents = @ \ EventsOf(db, t)]

\* UPDATE text_events SET newEvent=0 of a thread: information events too.
MarkEventsRead(db, t) ==
    LET unread == EventsOf(db, t) \cap db.newEvents
        read == [db EXCEPT !.newEvents = @ \ unread]
    IN  IF unread \subseteq InfoEvents THEN read ELSE RefreshThread(read, t)

\* INSERT INTO threads (count 0, unreadCount 0, lastEventTimestamp now).
InsertThread(db, t, now) ==
    [db EXCEPT !.threads[t] = [count |-> 0, unreadCount |-> 0,
                               lastEventId |-> NoEvent, lastEventTimestamp |-> now]]

\* Mutant: no cascade to the events.
DeleteThreadOnly(db, t) == [db EXCEPT !.threads[t] = NoThread]

\* DELETE of a thread row; its triggers delete the thread's events, and the
\* triggers of those their attachments. Nothing fires without a row.
DeleteThread(db, t) ==
    IF db.threads[t] = NoThread THEN db
    ELSE [threads |-> [db.threads EXCEPT ![t] = NoThread],
          events |-> db.events \ EventsOf(db, t),
          newEvents |-> db.newEvents \ EventsOf(db, t),
          attachments |-> db.attachments \ EventsOf(db, t)]

-----------------------------------------------------------------------------
(* What it means for the tables to agree.                                  *)

\* The row of t says what the counted events of t say.
SummaryIsExact(db, t) ==
    LET row == db.threads[t]
        exact == Summary(db, t)
    IN  /\ row.count = exact.count
        /\ row.unreadCount = exact.unreadCount
        /\ row.lastEventId = exact.lastEventId
        /\ row.lastEventId # NoEvent => row.lastEventTimestamp = exact.lastEventTimestamp

\* A row no trigger has touched since it was inserted.
IsFresh(row) == row.count = 0 /\ row.unreadCount = 0 /\ row.lastEventId = NoEvent

SummariesExact(db) ==
    \A t \in Threads : db.threads[t] # NoThread => SummaryIsExact(db, t)

SummariesExactOrFresh(db) ==
    \A t \in Threads :
        db.threads[t] # NoThread => SummaryIsExact(db, t) \/ IsFresh(db.threads[t])

EveryEventHasThread(db) == \A e \in db.events : db.threads[ThreadOf[e]] # NoThread

=============================================================================
