---------------------------- MODULE HistoryStore ----------------------------
(***************************************************************************)
(* The daemon's write operations over the SQLite plugin: writeEvents,      *)
(* removeEvents, removeThreads, markThreadsAsRead, the creation of a       *)
(* thread and updateRoomInfo, statement by statement, on one connection.   *)
(*                                                                         *)
(* SQLite has no nested transactions.  beginTransation() inside an open    *)
(* transaction fails and nobody looks at its result, so the COMMIT of an   *)
(* inner operation (writeTextEvent) commits the batch it runs in, and the  *)
(* statements after it commit one by one.  The module keeps both the       *)
(* committed database (disk) and the one the connection sees (work).       *)
(*                                                                         *)
(* The daemon is single-threaded: one operation runs at a time (job).  It  *)
(* can be killed between any two statements, any statement can fail, and a *)
(* COMMIT can fail and leave its transaction open (SQLITE_BUSY).           *)
(***************************************************************************)
EXTENDS HistoryDatabase, Sequences

CONSTANTS
    Requests,     \* the event lists clients and the daemon pass to one operation
    StaleWriters  \* may a writer name a thread that is gone (a stale client)?

ASSUME RequestAssumption ==
    /\ Requests \subseteq Seq(Events)
    /\ StaleWriters \in BOOLEAN

VARIABLES
    disk,         \* the committed database
    work,         \* the database as the connection sees it
    inTx,         \* is a transaction open?
    commitFailed, \* did the COMMIT of the open transaction fail?
    job,          \* the operation that runs, if any
    signals,      \* what the last operation handed to HistoryServiceDBus
    reply         \* what the last operation returned

connection == <<disk, work, inTx, commitFailed>>
vars == <<disk, work, inTx, commitFailed, job, signals, reply>>

-----------------------------------------------------------------------------
(* SQLiteDatabase: statements and transactions.                            *)

Execute(db) == /\ work' = db
               /\ disk' = IF inTx THEN disk ELSE db
               /\ UNCHANGED <<inTx, commitFailed>>

\* Inside a transaction BEGIN fails, and the transaction stays open.
Begin == /\ inTx' = TRUE
         /\ UNCHANGED <<disk, work, commitFailed>>

\* COMMIT of a transaction that has made the database db. Outside a
\* transaction it fails and changes nothing (then db = work = disk).
Commit(db) == /\ work' = db
              /\ disk' = db
              /\ inTx' = FALSE
              /\ commitFailed' = FALSE

\* A COMMIT that cannot write leaves its transaction open.
CommitFails(db) == /\ db # disk
                   /\ work' = db
                   /\ inTx' = TRUE
                   /\ commitFailed' = TRUE
                   /\ UNCHANGED disk

\* ROLLBACK; it fails and changes nothing outside a transaction.
Rollback == /\ work' = disk
            /\ inTx' = FALSE
            /\ commitFailed' = FALSE
            /\ UNCHANGED disk

-----------------------------------------------------------------------------
(* The running operation, its reply and its notifications.                 *)

\* todo: events still to handle; request: all of them; drop: threads still to
\* handle; removed: all of them; stage, existed: progress inside
\* writeTextEvent; created, modified, seen: the lists and the map of threads
\* the operation collects for its notifications; base: the committed database
\* when the operation began (history).
Idle == [op |-> "idle", todo |-> <<>>, request |-> {}, drop |-> {}, removed |-> {},
         stage |-> "row", existed |-> FALSE, created |-> {}, modified |-> {},
         seen |-> {}, notify |-> TRUE, base |-> EmptyDatabase]
Down == [Idle EXCEPT !.op = "down"]

NoSignals == [threadsAdded |-> {}, threadsModified |-> {}, threadsRemoved |-> {},
              eventsAdded |-> {}, eventsModified |-> {}, eventsRemoved |-> {}]

\* getSingleThread: the row of t, or no row (an empty map).
ThreadRecord(db, t) == [thread |-> t, row |-> db.threads[t]]

StartJob(j) == /\ job.op = "idle"
               /\ job' = [j EXCEPT !.base = disk]
               /\ signals' = NoSignals
               /\ reply' = "none"

Finish(result, sent) == /\ job' = Idle
                        /\ reply' = result
                        /\ signals' = sent

-----------------------------------------------------------------------------
(* writeEvents                                                             *)

WriteEvents(es, notify) ==
    /\ StaleWriters \/ \A i \in DOMAIN es : work.threads[ThreadOf[es[i]]] # NoThread
    /\ StartJob([Idle EXCEPT !.op = "write", !.todo = es, !.notify = notify])
    /\ Begin

Writing(e, stage) == /\ job.op = "write"
                     /\ job.todo # <<>>
                     /\ e = Head(job.todo)
                     /\ job.stage = stage

\* Mutant: the record of a thread is kept from its first event.
WrittenOnce(e, existed, db) ==
    LET t == ThreadOf[e]
    IN  [job EXCEPT !.todo = Tail(@), !.stage = "row",
                    !.created = IF existed THEN @ ELSE @ \cup {e},
                    !.modified = IF existed THEN @ \cup {e} ELSE @,
                    !.seen = IF \E r \in @ : r.thread = t THEN @
                             ELSE @ \cup {ThreadRecord(db, t)}]

\* The bookkeeping after a written event: threads[hash] = thread.
Written(e, existed, db) ==
    LET t == ThreadOf[e]
    IN  [job EXCEPT !.todo = Tail(@), !.stage = "row",
                    !.created = IF existed THEN @ ELSE @ \cup {e},
                    !.modified = IF existed THEN @ \cup {e} ELSE @,
                    !.seen = {r \in @ : r.thread # t} \cup {ThreadRecord(db, t)}]

\* writeTextEvent: its own BEGIN, then the INSERT or the UPDATE.
WriteTextRow(e, new) ==
    /\ Writing(e, "row")
    /\ e \in TextEvents
    /\ inTx' = TRUE
    /\ work' = PutEvent(work, e, new)
    /\ job' = [job EXCEPT !.existed = e \in work.events,
                          !.stage = IF e \in MultipartEvents
                                    THEN "attachments" ELSE "commit"]
    /\ UNCHANGED <<disk, commitFailed, signals, reply>>

WriteTextAttachments(e) ==
    /\ Writing(e, "attachments")
    /\ Execute(PutAttachments(work, e))
    /\ job' = [job EXCEPT !.stage = "commit"]
    /\ UNCHANGED <<signals, reply>>

\* writeTextEvent's COMMIT: it commits all of the batch up to here.
WriteTextCommit(e) ==
    /\ Writing(e, "commit")
    /\ Commit(work)
    /\ job' = Written(e, job.existed, work)
    /\ UNCHANGED <<signals, reply>>

\* Mutant: writeVoiceEvent commits, as writeTextEvent does.
WriteVoiceEventCommitting(e, new) ==
    /\ Writing(e, "row")
    /\ e \notin TextEvents
    /\ Commit(PutEvent(work, e, new))
    /\ job' = Written(e, e \in work.events, PutEvent(work, e, new))
    /\ UNCHANGED <<signals, reply>>

\* writeVoiceEvent has no transaction of its own.
WriteVoiceEvent(e, new) ==
    /\ Writing(e, "row")
    /\ e \notin TextEvents
    /\ Execute(PutEvent(work, e, new))
    /\ job' = Written(e, e \in work.events, PutEvent(work, e, new))
    /\ UNCHANGED <<signals, reply>>

\* Mutants: the failed write is not rolled back; it is, and what was written
\* before it is announced all the same.
WriteFailsOpen ==
    /\ job.op = "write"
    /\ job.todo # <<>>
    /\ UNCHANGED connection
    /\ Finish("false", NoSignals)

WriteFailsAnnounced ==
    /\ job.op = "write"
    /\ job.todo # <<>>
    /\ Rollback
    /\ Finish("false", [NoSignals EXCEPT !.eventsAdded = job.created])

\* A statement or writeTextEvent's COMMIT fails: EventWriteError. The plugin
\* or the daemon rolls back and writeEvents returns before it notifies.
WriteFails ==
    /\ job.op = "write"
    /\ job.todo # <<>>
    /\ Rollback
    /\ Finish("false", NoSignals)

\* endBatchOperation, its result ignored, and the notifications.
FinishWrite ==
    /\ job.op = "write"
    /\ job.todo = <<>>
    /\ Commit(work) \/ CommitFails(work)
    /\ Finish("true", IF job.notify
                      THEN [NoSignals EXCEPT !.eventsAdded = job.created,
                                             !.eventsModified = job.modified,
                                             !.threadsModified = job.seen]
                      ELSE NoSignals)

-----------------------------------------------------------------------------
(* removeEvents and removeThreads                                          *)

RemoveEvents(es) ==
    /\ StartJob([Idle EXCEPT !.op = "removeEvents", !.todo = es,
                             !.request = {es[i] : i \in DOMAIN es}])
    /\ Begin

\* removeTextEvent or removeVoiceEvent
RemoveEvent ==
    /\ job.op = "removeEvents"
    /\ job.todo # <<>>
    /\ Execute(DeleteEvent(work, Head(job.todo)))
    /\ job' = [job EXCEPT !.todo = Tail(@)]
    /\ UNCHANGED <<signals, reply>>

\* Mutant: only the text threads are looked at.
CollectTextThreads ==
    /\ job.op = "removeEvents"
    /\ job.todo = <<>>
    /\ LET touched == {t \in {ThreadOf[e] : e \in job.request} : work.threads[t] # NoThread}
           empty == {t \in touched \cap TextThreads : work.threads[t].count = 0}
       IN  job' = [job EXCEPT !.op = "dropThreads", !.drop = empty, !.removed = empty,
                              !.seen = {ThreadRecord(work, t) : t \in touched \ empty}]
    /\ UNCHANGED <<connection, signals, reply>>

\* The second loop: the threads that lost events and still exist are modified,
\* or removed when no counted event is left in them.
CollectThreads ==
    /\ job.op = "removeEvents"
    /\ job.todo = <<>>
    /\ LET touched == {t \in {ThreadOf[e] : e \in job.request} : work.threads[t] # NoThread}
           empty == {t \in touched : work.threads[t].count = 0}
       IN  job' = [job EXCEPT !.op = "dropThreads", !.drop = empty, !.removed = empty,
                              !.seen = {ThreadRecord(work, t) : t \in touched \ empty}]
    /\ UNCHANGED <<connection, signals, reply>>

RemoveThreads(ts) ==
    /\ StartJob([Idle EXCEPT !.op = "dropThreads", !.drop = ts, !.removed = ts])
    /\ Begin

\* removeThread
DropThread(t) ==
    /\ job.op = "dropThreads"
    /\ t \in job.drop
    /\ Execute(DeleteThread(work, t))
    /\ job' = [job EXCEPT !.drop = @ \ {t}]
    /\ UNCHANGED <<signals, reply>>

RemovalFails ==
    /\ \/ job.op = "removeEvents" /\ job.todo # <<>>
       \/ job.op = "dropThreads" /\ job.drop # {}
    /\ Rollback
    /\ Finish("false", NoSignals)

FinishRemoval ==
    /\ job.op = "dropThreads"
    /\ job.drop = {}
    /\ Commit(work) \/ CommitFails(work)
    /\ Finish("true", [NoSignals EXCEPT !.eventsRemoved = job.request,
                                        !.threadsRemoved = job.removed,
                                        !.threadsModified = job.seen])

-----------------------------------------------------------------------------
(* markThreadsAsRead                                                       *)

MarkThreadsAsRead(ts) ==
    /\ StartJob([Idle EXCEPT !.op = "markRead", !.drop = ts])
    /\ UNCHANGED connection

\* BEGIN, markThreadAsRead and COMMIT for one thread. The plugin changes
\* nothing if the thread is gone or has no unread event; if one of its
\* statements fails (executed = FALSE) the daemon commits all the same.
MarkThreadAsRead(t, executed) ==
    LET marked == /\ executed
                  /\ work.threads[t] # NoThread
                  /\ work.threads[t].unreadCount > 0
        db == IF marked THEN MarkEventsRead(work, t) ELSE work
    IN  /\ job.op = "markRead"
        /\ t \in job.drop
        /\ Commit(db) \/ CommitFails(db)
        /\ job' = [job EXCEPT !.drop = @ \ {t},
                              !.seen = IF marked THEN @ \cup {ThreadRecord(db, t)} ELSE @]
        /\ UNCHANGED <<signals, reply>>

FinishMarkRead ==
    /\ job.op = "markRead"
    /\ job.drop = {}
    /\ Finish("none", [NoSignals EXCEPT !.threadsModified = job.seen])
    /\ UNCHANGED connection

-----------------------------------------------------------------------------
(* threadForProperties(create = true) when there is no such thread         *)

CreateThread(t, now) ==
    /\ work.threads[t] = NoThread
    /\ job.op = "idle"
    /\ \/ /\ Commit(InsertThread(work, t, now))
          /\ Finish("true", [NoSignals EXCEPT !.threadsAdded = {t}])
       \/ /\ CommitFails(InsertThread(work, t, now))
          /\ Finish("false", NoSignals)
       \/ /\ Rollback
          /\ Finish("false", NoSignals)

-----------------------------------------------------------------------------
(* updateRoomInfo; the columns of chat_room_info are not modelled          *)

\* No property maps to a column: it returns inside the transaction it began.
UpdateRoomInfoUnmapped ==
    /\ job.op = "idle"
    /\ Begin
    /\ Finish("false", NoSignals)

UpdateRoomInfo(t) ==
    /\ job.op = "idle"
    /\ \/ /\ Commit(work)
          /\ Finish("true", [NoSignals EXCEPT !.threadsModified = {ThreadRecord(work, t)}])
       \/ /\ inTx' = TRUE \* the COMMIT fails
          /\ commitFailed' = TRUE
          /\ UNCHANGED <<disk, work>>
          /\ Finish("false", NoSignals)
       \/ /\ Rollback
          /\ Finish("false", NoSignals)

-----------------------------------------------------------------------------
(* The daemon is killed and started again                                  *)

Crash ==
    /\ job.op # "down"
    /\ Rollback
    /\ job' = Down
    /\ signals' = NoSignals
    /\ reply' = "none"

Restart ==
    /\ job.op = "down"
    /\ job' = Idle
    /\ UNCHANGED <<connection, signals, reply>>

-----------------------------------------------------------------------------
Init == /\ disk = EmptyDatabase
        /\ work = EmptyDatabase
        /\ inTx = FALSE
        /\ commitFailed = FALSE
        /\ job = Idle
        /\ signals = NoSignals
        /\ reply = "none"

\* What clients and the Telepathy handlers ask for
Request ==
    \/ \E es \in Requests : RemoveEvents(es) \/ \E notify \in BOOLEAN : WriteEvents(es, notify)
    \/ \E ts \in SUBSET Threads : ts # {} /\ RemoveThreads(ts)
    \/ \E ts \in SUBSET TextThreads : ts # {} /\ MarkThreadsAsRead(ts)
    \/ \E t \in Threads, now \in Stamps : CreateThread(t, now)
    \/ \E t \in TextThreads : UpdateRoomInfo(t)
    \/ UpdateRoomInfoUnmapped

\* The next statement of the running operation
Step ==
    \/ \E e \in Events :
         \/ WriteTextAttachments(e)
         \/ WriteTextCommit(e)
         \/ \E new \in BOOLEAN : WriteTextRow(e, new) \/ WriteVoiceEvent(e, new)
    \/ WriteFails
    \/ FinishWrite
    \/ RemoveEvent
    \/ CollectThreads
    \/ \E t \in Threads : DropThread(t)
    \/ RemovalFails
    \/ FinishRemoval
    \/ \E t \in Threads, executed \in BOOLEAN : MarkThreadAsRead(t, executed)
    \/ FinishMarkRead

Next == Request \/ Step \/ Crash \/ Restart

Spec == Init /\ [][Next]_vars

-----------------------------------------------------------------------------
(* Properties                                                              *)

Operations == {"down", "idle", "write", "removeEvents", "dropThreads", "markRead"}
ThreadRecords == [thread : Threads, row : ThreadRow \cup {NoThread}]
Jobs == [op : Operations, todo : Seq(Events), request : SUBSET Events,
         drop : SUBSET Threads, removed : SUBSET Threads,
         stage : {"row", "attachments", "commit"}, existed : BOOLEAN,
         created : SUBSET Events, modified : SUBSET Events,
         seen : SUBSET ThreadRecords, notify : BOOLEAN, base : Database]
Signals == [threadsAdded : SUBSET Threads, threadsModified : SUBSET ThreadRecords,
            threadsRemoved : SUBSET Threads, eventsAdded : SUBSET Events,
            eventsModified : SUBSET Events, eventsRemoved : SUBSET Events]

\* The type of the state.
TypeOK == /\ disk \in Database
          /\ work \in Database
          /\ inTx \in BOOLEAN
          /\ commitFailed \in BOOLEAN
          /\ job \in Jobs
          /\ signals \in Signals
          /\ reply \in {"none", "true", "false"}

\* In both databases every thread's count, unread count and last event agree
\* with its events, information events left out, whatever failed or crashed
\* in between (the triggers of schema v8 and v14, and the cascades of v18).
ThreadSummariesExact == SummariesExact(disk) /\ SummariesExact(work)

\* The same when writers may be stale: the only other row there can be is one
\* created for a thread whose events had been written before it.
ThreadSummariesExactOrFresh == SummariesExactOrFresh(disk) /\ SummariesExactOrFresh(work)

\* No event outlives its thread: the cascades, the order of the two loops of
\* removeEvents and every rollback leave none behind.
NoOrphanEvents == EveryEventHasThread(disk) /\ EveryEventHasThread(work)

\* The committed database never has a multipart event without its attachments
\* or attachments without their event (writeTextEvent's transaction).
AttachmentsComplete == disk.attachments = disk.events \cap MultipartEvents

\* Between operations nothing waits for a COMMIT, unless a COMMIT has failed:
\* every operation closes the transaction it writes in, also when it fails and
\* also when updateRoomInfo has left one open before it.
NothingPendingWhenIdle == job.op = "idle" /\ ~commitFailed => work = disk

\* Until its end an operation that has written no text event has changed
\* nothing on the disk: a batch of voice events, removeEvents and
\* removeThreads happen entirely or not at all, whatever fails or crashes.
BatchInvisibleUntilEnd ==
    job.op \in {"write", "removeEvents", "dropThreads"}
        /\ (job.created \cup job.modified) \cap TextEvents = {}
    => disk = job.base

\* When an operation has handed its signals over, the events it announces as
\* added or modified are stored (and durable, unless the COMMIT failed), and
\* what it announces as removed is gone.
AnnouncementsAreStored ==
    /\ signals.eventsAdded \cup signals.eventsModified \subseteq work.events
    /\ signals.eventsRemoved \cap work.events = {}
    /\ \A t \in signals.threadsRemoved : work.threads[t] = NoThread
    /\ \A t \in signals.threadsAdded : work.threads[t] # NoThread
    /\ ~commitFailed => signals.eventsAdded \cup signals.eventsModified \subseteq disk.events

\* ThreadsModified carries the threads as they are when the operation ends,
\* also when it touched the same thread several times.
ModifiedThreadsAreCurrent ==
    \A r \in signals.threadsModified : work.threads[r.thread] = r.row

\* After a successful removeEvents no thread it touched is left without
\* counted events.
EmptiedThreadsAreRemoved ==
    \A e \in signals.eventsRemoved :
        LET row == work.threads[ThreadOf[e]] IN row # NoThread => row.count > 0

\* removeEvents drops a thread for its count column: a thread it drops really
\* has no message or call left, so no event is deleted that nobody named.
DroppedThreadsHaveNoMessages ==
    job.op = "dropThreads" /\ job.request # {} => \A t \in job.drop : Counted(work, t) = {}

\* What an operation announces is stored, gone or current as it says.
AnnouncementsAreTrue == AnnouncementsAreStored /\ ModifiedThreadsAreCurrent

\* Events, attachments and threads belong together: none is left without the
\* others, and a thread goes when, and only when, its messages are gone.
RowsBelongTogether ==
    /\ NoOrphanEvents
    /\ AttachmentsComplete
    /\ EmptiedThreadsAreRemoved
    /\ DroppedThreadsHaveNoMessages

\* What SqlitePluginTest::testRollback says of a batch: after
\* rollbackBatchOperation the steps of the batch are reverted.
RollbackRevertsBatch ==
    [][job.op = "write" /\ reply' = "false" => disk' = job.base]_vars

-----------------------------------------------------------------------------
(* What the operations implement                                           *)

Stored(db) == {t \in Threads : db.threads[t] # NoThread}

\* A database as a log: the summaries are those of the threads' rows.
LogOf(db) ==
    [threads |-> Stored(db), events |-> db.events, unread |-> db.newEvents,
     summary |-> [t \in Stored(db) |->
         LET row == db.threads[t]
         IN  [count |-> row.count, unread |-> row.unreadCount,
              newest |-> IF row.lastEventId = NoEvent THEN 0 ELSE Stamp[row.lastEventId]]]]

Log == INSTANCE EventLog WITH Uncounted <- InfoEvents,
                              visible <- LogOf(work), saved <- LogOf(disk)

\* Seen from outside, every operation is a series of changes to single events
\* and threads whose summaries follow from the events; what is on the disk is
\* always what was visible, and a failure returns to it. (Writers must name
\* threads that are there.)
ImplementsEventLog == Log!Spec
=============================================================================
