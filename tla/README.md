# history-service: a verification development

history-service keeps the history of text conversations and calls of a phone. A
daemon listens to Telepathy, stores what happens in an SQLite database and tells
its clients over D-Bus; a client library and QML models show the history and ask
the daemon to change it. This directory holds TLA+ modules that model the code
under `src/`, the TLC configurations that check them on small instances, and
theorems about them with proofs for TLAPS. `PROJECT.json` maps every definition
to the source lines it stands for.

    cd tla
    tlc -workers 2 -config MCHistoryStore.cfg MCHistoryStore    # any run below
    tlapm HistoryStoreProofs.tla                                # any proof module

Paths below are relative to the repository (`src/` is its root here, so the
library's own directory appears as `src/src/`).

## 1. Inventory

### How the parts interact

    Telepathy --(channels, messages, members, roles)--> observers --> HistoryDaemon
    clients --(D-Bus calls)--> HistoryServiceDBus --> HistoryDaemon --> SQLiteHistoryPlugin --> SQLite
    HistoryDaemon --(notify...)--> HistoryServiceDBus --(signals, 100 ms later)--> ManagerDBus --> Manager
    Manager --(signals)--> EventView / ThreadView --> QML models --> user interface
    QML models --(views: NextPage; write queues: WriteEvents)--> HistoryServiceDBus

The daemon is one thread with a Qt event loop: handlers and D-Bus calls do not
overlap, but each is a sequence of SQL statements of which any can fail, and the
process can be killed between two. Clients are processes of their own; the bus
keeps the order of the messages of one sender.

### Components

| Component | State | Operations | What is hard | What makes it correct | Module |
|---|---|---|---|---|---|
| Tables and triggers (`plugins/sqlite/schema`) | threads, events, attachments, participants, room info | the statements, with their triggers | triggers recompute summaries, cascade removals, skip information events | a thread's counts and last event agree with its events | HistoryDatabase |
| Connection (`sqlitedatabase.cpp`) | open transaction | BEGIN, COMMIT, ROLLBACK | no nested transactions, results ignored | what a batch does happens entirely or not at all | HistoryStore, SchemaUpgrade |
| Write operations (`historydaemon.cpp`, `sqlitehistoryplugin.cpp`) | the running operation, its lists of threads and events | writeEvents, removeEvents, removeThreads, markThreadsAsRead, createThreadForProperties, updateRoomInfo | failures and kills between statements | nothing half done on the disk; announced only what is stored | HistoryStore |
| Conversation cache (`sqlitehistoryplugin.cpp`) | two maps: key to conversation, thread to key | add, update, remove, rebuild | conversations move between keys, rollbacks, restarts, voice threads with the same key | maps agree, newest thread displayed, cache equals table | ConversationCache |
| Signal queue (`historyservicedbus.cpp`) | six lists and a timer | notify, timer, send | debounce, regrouping, loss at a kill | nothing stranded | SignalQueue |
| Client library (`manager.cpp`, `managerdbus.cpp`, `eventview.cpp`, `threadview.cpp`) | service status, validity of views | signals in, pages, invalidation | signals of other times than the snapshot, dead daemon | see the models | ClientModel (events), GroupedThreads (threads) |
| Plugin views (`sqlitehistoryeventview.cpp`, `sqlitehistorythreadview.cpp`) | temporary table, offset | NextPage | a snapshot beside a moving table | pages cover the snapshot | ClientModel, GroupedThreads |
| QML event model (`historyeventmodel.cpp`, `historymodel.cpp`) | rows, view, timers, write queues | updateQuery, fetchMore, signal handlers, markEventAsRead | snapshot against signals, binary search, delayed writes | the rows converge to the database, marks are written | ClientModel, RowOrder, MessageFlow (write queues) |
| QML thread models (`historythreadmodel.cpp`, `historygroupedthreadsmodel.cpp`) | rows, groups, pending participant requests | as the event model, GetSingleThread for every thread, participants fetched asynchronously | answers about another state than the signal | rows are the daemon's conversations | GroupedThreads |
| Grouped event model (`historygroupedeventsmodel.cpp`) | groups of rows | merge and split | removal inside a group | groups partition the events | not modelled |
| Message handlers (`historydaemon.cpp`) | none but the tables | received, sent, delivery reports, superseded messages | reports in any order, replays after a restart | nothing is missed, Read is not reverted, what was removed stays removed | MessageFlow |
| Room handlers (`historydaemon.cpp`) | members, roles, room info | channel available/invalidated, members, roles, properties changed | several handlers write the same thread while the room changes | stored members, roles and subject are the room's | RoomState |
| Thread lookup (`sqlitehistoryplugin.cpp`, `utils.cpp`, `phoneutils.cpp`) | none but the tables | threadForParticipants, createThreadForProperties | a similarity that is not transitive, no key in the tables | right people, no thread twice | ThreadLookup |
| Calls (`callchannelobserver.cpp`, `historydaemon.cpp`) | last state of each call, two times | state changed, ended | missed against answered, calls that end early, restarts | one true event for a call | CallFlow |
| Channel observers (`channelobserver.cpp`, `textchannelobserver.cpp`) | channels not yet ready, contexts to finish | ready, failed, invalidated, pending messages | messages pending, arriving and coming back while a channel becomes ready | no gap, every context finished | MessageFlow (text), CallFlow (contexts) |
| Schema creation and upgrade (`sqlitedatabase.cpp`, `plugins/sqlite/schema`) | the file, its version, its triggers and data | createOrUpdateDatabase | statements that fail, kills, data converted once | a start leads to the newest schema | SchemaUpgrade |
| Contact matcher (`contactmatcher.cpp`) | map of contacts, requests | match, watch, contact changes | answers older than the change, handlers that call back | entries and rows are what the book says | ContactMatcher |
| Filters, sort orders | none | match(), toString() | client's match against the SQL | they agree | not modelled |
| Value types, Telepathy helper, roles proxies, plugin manager, tools | plain data or none | conversions, lookups | nothing stateful | | not modelled: no logic of their own |

`PROJECT.json` lists under `hazards` what in this code is hard to test, line by
line, with the properties that cover it; where a property excludes a case because
the code does not meet it there, the hazard's note says which.

## 2. The modules

    HistoryDatabase  <-- HistoryStore      <-- MCHistoryStore
                             ^      \
                             |       \--(implements)--> EventLog
                     HistoryStoreProofs
    ConversationCache <-- MCConversationCache
    ConversationCache, SignalQueue, RowOrder <-- GroupedThreads <-- MCGroupedThreads
    SignalQueue, RowOrder <-- ClientModel <-- MCClientModel
    MessageFlow           <-- MCMessageFlow
    ThreadLookup          <-- CallFlow       <-- MCCallFlow
        ^--------------------------------------- MCThreadLookup
    RoomState, SchemaUpgrade, ContactMatcher, each with its MC module
    MessageFlow, RoomState, SchemaUpgrade, ClientModel, ContactMatcher, CallFlow with
    ThreadLookup, GroupedThreads with ConversationCache, each with a module of its proofs:
    MessageFlowProofs, ..., GroupedThreadsProofs

### HistoryDatabase: tables and triggers

The database is a record: thread rows (`count`, `unreadCount`, `lastEventId`,
`lastEventTimestamp`), stored events, those with `newEvent = 1`, those whose
attachments are complete. The statements are operators from database to database,
each with what its triggers do: `PutEvent` and `DeleteEvent` (v14, v8 for calls),
`MarkEventsRead` (the UPDATE of `newEvent`), `InsertThread`, `DeleteThread` with the
cascades of v18. A trigger only updates a row that exists, and never counts an
information event (`messageType = 2`); those are the two conditions everything
about summaries turns on.

Text and voice events have one shape here; the event's thread decides the table.
An event of type Null, which the code skips with a warning, is left out. The
order of equal timestamps in `ORDER BY timestamp DESC LIMIT 1` is left to
`CHOOSE`: SQLite picks one of them, and the same as long as the rows are the same.

### HistoryStore: the write operations

`disk` is the committed database, `work` the one the connection sees. `job` is the
operation that runs: one action starts it (`WriteEvents`, `RemoveEvents`,
`RemoveThreads`, `MarkThreadsAsRead`, ...), one action is one statement or one
loop of C++ between two statements (`WriteTextRow`, `WriteTextAttachments`,
`WriteTextCommit`, `WriteVoiceEvent`, `RemoveEvent`, `CollectThreads`, `DropThread`,
`MarkThreadAsRead`), one ends it (`FinishWrite`, `FinishRemoval`, `FinishMarkRead`)
and one makes it fail (`WriteFails`, `RemovalFails`). `Crash` can come between any
two. `signals` is what the operation hands to HistoryServiceDBus, `reply` what it
returns.

The interesting part is SQLite's transactions. `beginTransation()` inside a
transaction fails and the code ignores that; `writeTextEvent`'s own COMMIT then
commits the whole batch up to it, and what follows commits statement by statement.
`updateRoomInfo` returns inside the transaction it began when no property maps to
a column, so that a later operation runs inside it. `endBatchOperation`'s result is
ignored, and a COMMIT that fails with SQLITE_BUSY leaves its transaction open
(`commitFailed`): `CommitFails` is that outcome, and the operation notifies all the
same. A failed statement has no effect of its own.

`StaleWriters` tells whether a caller may name a thread that is gone. The code
checks nothing; a client can have read the thread before another removed it. The
run is about writers that name existing threads; what remains true of the others is
a theorem (section 4).

### EventLog: what the write operations promise

The abstract specification of the storage. A log is a set of threads, a set of
events and the unread ones among them; the summaries are not state, they follow
from these (`LogWith`). A step changes one event, one thread or the read marks of
one thread (`Change`) in what clients see (`visible`), and saves at once everything
visible or nothing; `Save` makes a finished batch durable; `Revert` is every
failure, rollback and crash: back to what was saved, and to nothing else. There
are no triggers, no statements, no transactions and no operations in it.

`HistoryStore` maps to it with `LogOf`, the threads as a query reads them: `visible`
is `LogOf(work)`, `saved` is `LogOf(disk)`, and the summaries are the stored columns
(the timestamp that of the last event; a thread that has had none carries the time
of its creation, which is not part of a summary). `ImplementsEventLog` therefore
also says that every trigger has left the right numbers at every statement.

### ConversationCache

`conversations` and `keys` are the plugin's two maps, `stored` the threads table
reduced to the timestamps. `Add` and `Remove` are `addThreadsToCache` and
`removeThreadFromCache` with all their branches; `UpdateThread`, `CreateThread`,
`RemoveThread` stand for the writers that call them, `UpdateRolledBack` and
`RemovalRolledBack` for those whose batch is rolled back afterwards (the cache is
not), `RemoveVoiceThread` for the removal of a voice thread whose key is a text
thread's, `Restart` and `LoadThread` for `generateContactCache`.

Choices: a restart adds the threads in any order (the code: in the order of their
last messages); `QMap::remove` and `value` called with a reference into the node
that has just been removed are taken as calls with a key that is not there; the
key, accountId and threadId put together, is taken as unambiguous; the history
variables `lost`, `stale` and `before` remember what rollbacks have broken, and
`torn` that the removal of a voice thread took a text conversation out of the cache,
so that the properties can say precisely what is left intact. Bounds in the guards:
one such removal until the next restart, and one thread at a time whose copy a
rollback has left outdated.

### SignalQueue and ClientModel

`SignalQueue` is HistoryServiceDBus: six `pending` lists, a `timer` that every
notification restarts, and `ProcessSignals`, which sends the lists in a fixed order
into `inbox`, the bus to one client. `ClientModel` puts a QML event model for one
thread beside a daemon reduced to the events it stores. A version is the number of
the operation that wrote an event, so that an old copy can be told from a new one.
`UpdateQuery` is `updateQuery` with the first `fetchMore` (the view's snapshot and
its pages), `FetchMore` scrolls, `OnEventsAdded`, `OnEventsModified`,
`OnEventsRemoved` and `OnThreadsRemoved` are the slots, with the binary search of
`positionForItem`; `OnServiceRunningChanged` comes from Manager's service watcher;
`Crash` loses what is pending.

Choices: the model's filter selects one thread and its order is descending
timestamps; the component is complete before the first query; a call to a daemon
that is down either fails or D-Bus activates it first (`Restart`), so a view is
made by a daemon that runs. `crossed` holds the events whose own signals will be sent
in another order than they happened (an event written again while its removal is
pending, a thread removed while its new events are pending); the convergence
property excludes them, since for those the order of `processSignals` is what
decides. `view.whole` remembers whether the
snapshot fitted on one page: with more, a later page can bring an event twice or
out of order (section 5). A view may find any of `Snapshots`, the stored events in the
order of the query: events of one time come in any order. The three slots are one loop
over the events of a signal (`HandleAll`) with three bodies (`AddRow`, `ReplaceRow`,
`RemoveRow`). The binary search is `PositionForItem` of RowOrder, which the thread model
shares.

### MessageFlow

One text channel, the daemon that observes it and a client that marks messages as
read. `queue` is the channel's queue of messages and delivery reports that its
handler, another program, has not acknowledged; `inbox` is what the daemon has been
told and not handled. `ChannelReady` is `onTextChannelAvailable`, which handles the
queue before the signals; `IgnoreRescued`, `HandleMessage`, `DeliveryReport` and
`RemoveSuperseded` are the ways through `onMessageReceived`, `HandleSent` is
`onMessageSent`. A kill falls between the write of a message and the removal of the
one it supersedes, and after a `Restart` the dispatcher hands the channel over again
(the observer is registered with recovery), so that whatever is not acknowledged is
handled once more: the event is written with its first status and as unread.

`MarkEventAsRead` and `WriteMarks` are the model's queue of copies and its 500 ms
timer, `MarkThreadsAsRead`, `CallMarkThreadsAsRead` and `HandleThreadMark` the queue
of threads, its timer and the daemon's end of the call, which is asynchronous and
lost with the daemon.

Choices: the thread exists (writers of lost threads are HistoryStore's subject);
every message has a token; a report without an original token, which the code
stores as a message, does not occur; nor does a sent message the channel says is not to be
stored (`textchannelobserver.cpp:76`), or a multipart one for whose attachments no
directory can be made, which is not stored (`historydaemon.cpp:1097`); a copy that a client shows late and marks late
is one that is marked at once and written late. `settled`, `removed`, `disturbed` and
`writeFailed` are history: `disturbed` holds the events that are as they are because
of an outdated copy, an item handled again or a removal that failed or was
interrupted. Those do revert statuses and revive removed events in this code (see
Findings); the properties say that nothing else does.

### RoomState

One chat room with three views of it: the room's own service (`service`, external),
TelepathyQt's copy of its members in the daemon (`channel`), and the tables (`info`
is the row of `chat_room_info`, `rows` tells of each row of `thread_participants` how
many there are).
A handler of the daemon is a sequence of steps (`at`) between which the daemon may be
killed and the service may change, because the handler waits for D-Bus calls:
`TextChannelAvailable`, `InitialParticipants`, `SelfJoined`, `SetJoined`,
`MonitorProperties`, `ConnectChannel` are `onTextChannelAvailable`;
`GroupMembersChanged`, `SelfLeaving`, `SetLeft`, `RefreshMembers` are
`onGroupMembersChanged`; `RolesChanged` with `RefreshRoles`, `RoomPropertiesChanged`
and `TextChannelInvalidated` are the others. `told` is the thread as it was last
announced.

`ConnectChannel` is one step for the three writes of lines 762 to 783 (the title, the
properties, the participants). A kill between them differs from one before them only in the
title event, of which there may be two, since the handler runs again after the restart;
`NoEventRepeated` leaves titles out.

What the properties exclude, because the code does not meet it:
a change of roles between `getRoles` (`historydaemon.cpp:732`, `905`) and the
connection of `RolesChanged` (778) is lost (`lost`); the participants of a thread that
is known are not rewritten when its channel comes back (736), and stay what they were
until the next change (`fresh`); our own leaving is written by the change of members and
again when the channel is closed (697); a thread removed while its room is open gets
its rows anew from the next handler, and after a message a thread that says it is not joined (`torn`).
The announcements of single members to a fetched list are part of GroupedThreads.

### ThreadLookup

The two tables threads are found in, in the order of their rows. `threadForParticipants`
and `compareNormalizedParticipants` are translated with their order of candidates
(`Candidates` are places in the table, `First` the one that is taken) and their greedy
matching (`Partners`: each of one list takes the first of the other that is the same and
not taken, as the loop at `utils.cpp:117` does); that two phone numbers are the same is libphonenumber's answer,
a relation given by the constants, which is not transitive (`SimilarNumbers`). The
callers are the actions: a client (`ClientAsks`, `ThreadForParticipants`), the handlers
of a channel (`ChannelAsks`), a received message (`MessageReceived`), and `RemoveThread`.

Choices: thread ids are injective in what they are made of (the code: names joined or
their MD5); a chat with a contact has one participant; a candidate is looked up by
account, type and id (the subselect of the code, which leaves out the account, finds
the same rows because ids are injective). The properties exclude what the code gets
wrong: a conversation without participants is created again each time; the daemon does
not compare numbers of a SIP account (`historydaemon.cpp:151`), the library does
(`utils.cpp`); `compareNormalizedParticipants` does not take out what it has matched
when it does not compare numbers (`utils.cpp:139`); and the greedy matching can miss a
pairing. If a short number `b` is the same as two long ones, `a` and `c`, the group
`<<b, a, c>>` asked for as `<<c, b, a>>` lets `b` take `c`, and then nobody is left for
`c`: the group is not found, and a second conversation is created. `ConversationsAreUnique`
speaks of lists in which to be the same is transitive (`NumbersAgree`); without that guard
TLC finds the case.

### CallFlow

Extends ThreadLookup by the calls. `ObserveChannels`, `Ready` and `checkContextFinished`
are ChannelObserver with its contexts; `ChangeState` is Telepathy and, if the call is
followed, `onCallStateChanged` in the same step; `onCallEnded` finds or creates the
thread and writes the event. `Kill` forgets everything but the tables; the channels that
still exist are observed again.

Choices: time is in seconds as in the events' ids; Telepathy's states before a call rings
are one, `Initialising`, and a call that ends in it is missed only if the reason says so
(`callchannelobserver.cpp:57`, `62`); a call ends for one of two reasons
(no answer or another). Not met by the code and excluded: a call that ends before its
channel is ready, or whose connection drops, is in no history and stays in
`mCallStates`; two calls of a thread in the same second are one event
(`historydaemon.cpp:668`); a restart makes a duration too short; a batch of flash
messages only is never finished.

### SchemaUpgrade

`createOrUpdateDatabase` step by step: `Open`, `ReadVersion`, `CreateTables`,
`RunFile` (one of the files still in `statements`, in their order), `StoreVersion`, `ConvertData`, `Commit`. A database
is its version, its columns, for every trigger the version that defined it, and one
thread whose values are what the triggers and the writers of the older release made of
it; it may have a `twin`, a thread of the other type with the same account and id, which
the conversion of groups to rooms does not keep apart from it. `Adds` and `Replaces` say what each of the 19 files does to columns and triggers, `Apply` what it does to the data; a file that adds
a column that is there fails, as in SQLite. `StatementFails`, `CommitFails` and `Kill`
are the faults; after a COMMIT that failed the daemon works inside the upgrade's
transaction until an operation ends it (`LaterCommit`, `LaterRollback`).

Left out: how a file is split into statements (`parseSchemaFile`). Seen here and not a
property: a daemon killed while it creates the tables leaves an empty file, for which
every later start fails (`sqlitedatabase.cpp:216`); the count of a thread that has
only information events from before version 9 stays what the old triggers made it;
version 17 sets the information type of all events.

### RowOrder and GroupedThreads

RowOrder is `HistoryModel::positionForItem`, the binary search both models use.
GroupedThreads extends ConversationCache (the daemon's plugin with restarts) and SignalQueue and
puts the grouped thread model beside them: `Create`, `Update` and `Delete` are the cache's actions with
their signals. For each thread of a page or a signal
the model asks the daemon with GetSingleThread (`calls`), and the answer is about the
cache as it is then; no signal is handled meanwhile. `groups` are the rows, `fetched`
the rooms whose participants were asked for; member changes (`ThreadParticipantsChanged`)
are sent at once and do not wait for the signals.

A row keeps the threads of the answer it was made from; rows are searched by the first thread they
share with an answer, and compared by the thread they show (`IndexOf`). A thread that is created
again before its removal has been handled (`returned`) breaks that: its removal is handled for the
thread that is there now, and its contact can be left with two rows (section 5). The properties say that this
reaches nothing but the rows of the same contact (`Disturbed`), and not the order of the rows
unless it happened; a new query starts afresh. `skipped` are the threads of a conversation that was
removed from before it was on the model: the row it moved to may have been passed.

What is excluded or not shown: an empty page ends the list (finding 2); removals from a fetched list of participants do not work, since the changes carry no
account id and participants are compared with it (`participant.cpp:133`), so
`FetchedListsMissNobody` speaks of members that are missing only. The daemon is not
killed while it loads its cache, and there is no voice thread here. The plain
HistoryThreadModel shares the query, the pages and the participants; its own handlers of
rows are not modelled.

### ContactMatcher

`matcher` holds ContactMatcher's maps and the rows of a model that shows its contacts,
because a change is announced, and read again, inside the handler. `book` is the
address book, `inbox` its signals and answers in the order it sends them, `asked` the
requests it has not answered. Each function is for a set of identifiers, those the code
calls it for in a loop over its map: a call changes only the entry and the rows of its
identifier. The handlers are those of the class; `ShowRow`,
`SynchronousInfo` and `watchIdentifier` its readers; `onSetupReady` the accounts.

`excused` and `stale` are history: entries never asked for or whose request failed (a
synchronous reader before the accounts are ready is never answered), and rows whose
entry was forgotten without an announcement, which is what `onContactsChanged` does
with an identifier that no longer matches its contact (`contactmatcher.cpp:211`): if
nobody else has the number the row keeps the wrong name.

## 3. Runs

| Run | Question | Bounds | Result |
|---|---|---|---|
| `store` | do the write operations keep the tables consistent, announce only what they did and implement EventLog? | a text thread with a multipart message, a plain one and an information event, a call in a voice thread; 2 timestamps; 5 requests of one or two events; no bound on operations and faults | holds |
| `rollback` | is a failed batch reverted? | as `store` | violated |
| `cache` | does the cache group, display, promote and forget consistently, and what survives the removal of a voice thread with the same key? | 3 threads of one number, one of them with a voice thread beside it, and one of another chat type; 2 timestamps; restarts anywhere | holds |
| `client` | does a model converge to the database, and is an event hidden between two pages? | 3 events, two of them equally old, pages of 2; 4 operations, requeries and kills together | holds |
| `message_flow` | does everything reach the database, and what undoes removals, statuses and marks? | a sent message with 2 reports, a message that supersedes it; 3 marks, removals and faults (kills, closures, failed calls) together | holds |
| `rooms` | do the tables and the clients follow the room? | one other person, two subjects, three protocols; the channel opened twice; 3 moves, changes, kills or removals | holds |
| `lookup` | does a lookup return the right people's thread, always the same, and never make a second one? | two accounts; a short number like two long ones, a long one written in two ways; 11 lists, two of them one group in two orders; 2 threads at a time | holds |
| `calls` | is every call that is followed stored once and truly, and every context finished? | an incoming and an outgoing call, a text channel and a flash message in two batches; 3 instants; one kill | holds |
| `upgrade` | does every start lead to the newest schema, with the data converted once? | versions 1 to 19, a later one, no database; 2 events and participants, with and without a twin; 2 faults | holds |
| `groups` | do the rows of the grouped model become the daemon's conversations? | two SIM cards with one number, a room with one member; pages of 2; 3 operations, requeries and deaths | holds |
| `short_list` | is an empty page the end of the list? | as `groups`, pages of 1 | violated |
| `contacts` | are the matcher and the rows right once the book is quiet? | 3 identifiers, two of which normalize to one, one without address; 2 contacts (symmetric); 3 operations | holds |

Why the bounds are enough. In `store` the interesting cases are pairs: a committed
text event before a failing one, a text and a voice event in one batch, an
information event beside a counted one, the same event twice, two threads in one
removal. All are in the requests, any sequence of operations of any length follows,
and every statement may fail and every COMMIT too.
In `cache` three threads of one number are the least with which a conversation
keeps two after one leaves; the fourth tests that a thread of another chat type
stays out. In `client` four operations are enough for write, remove, kill and
write again around one query, and three events make a second page. In `message_flow` two
reports are needed to revert a status, two marks to queue an event twice, a mark and a
removal to bring an event back, two faults for a write that fails before a restart,
each with one more beside it; acknowledgements fall anywhere. In `rooms` every step of the longest handler can see one change
before, inside and after it, and a second channel finds the thread of the first. In
`lookup` two threads are what a duplicate needs, and three similar numbers what a
relation that is not transitive needs. In `calls` two calls are in different batches,
one of which can become finished in any order, and a kill falls between any two steps. `upgrade`
has one thread because the conversions treat each by itself, but for the rows of
`chat_room_info`, which is what the twin is for; two faults make a fault in
the start after a fault. In `groups` the smallest conversation that regroups has
two threads, and one operation each may fall before, inside and after a page. In `contacts` a
number can pass from one contact to the other while its request is under way.

`CHECK_DEADLOCK FALSE` in `client`, `message_flow`, `rooms`, `groups` and `short_list`: once the
bounded operations are done and everything is received the system rests. In `upgrade`
the daemon that is up, and has no faults left, rests too. The others check deadlock.

### What the properties say

Several runs check a conjunction of named parts; each part is stated with its
comment in the module.

- `store`: `ThreadSummariesExact`: every row's counts and last event are those of its
  events, on the disk and on the connection. `RowsBelongTogether`: removal leaves nothing behind and
  takes nothing it should not, and attachments are complete. `NothingPendingWhenIdle`: no operation
  leaves writes uncommitted, even after `updateRoomInfo` has left its transaction
  open, because the next COMMIT or ROLLBACK closes it. `BatchInvisibleUntilEnd`:
  batches without text events are atomic. `AnnouncementsAreTrue`: clients are told
  what is in the database when the operation ends. `ImplementsEventLog`: the refinement.
- `cache`: `CacheIsWellFormed` (the maps agree, the newest thread is displayed),
  `ConversationsAreComplete`, `CacheMirrorsTable`, `RestartKeepsConversations`,
  `RemovalPromotesOthers`.
- `client`: `SignalsAreServed`, `ModelFollowsDatabase`, `RowsSorted`, `EventuallyQuiet`.
- `message_flow`: `NothingMissed`, `RemovedStayRemoved`, `StatusesAreKept`,
  `QueuesAreServed`, `EventuallySettled`.
- `rooms`: `TablesFollowRoom` (participants, roles, subject and the Joined flag are
  the room's), `ClientsKnowRoom` (what was announced last is what is stored),
  `NoEventRepeated` (the conversation does not say the same thing twice in a row).
- `lookup`: `AnswersMatch` (against a reference pairing), `NoThreadTwice`,
  `ConversationsStay` (a new thread never takes over the conversations of another).
- `calls`: `CallsAreFollowed`, `CallsAreRecorded`, `FinishedMeansReady`, `ContextsAreFinished`.
- `upgrade`: `UpgradeIsAtomic`, `ContentsAreConverted` (times once, counts as the new
  triggers keep them, a text thread is a room if and only if `chat_room_info` has a row for
  it, never more rows than threads with its ids),
  `VersionNeverDecreases`, `UpgradeEnds`.
- `groups`: `RowsFollowService`, `FetchedListsMissNobody`, `EverythingIsShown`.
- `contacts`: `MatcherFollowsBook`, `ShownMatchesBook`.

### Fairness

Only weak fairness is assumed, of what an event loop or the service manager does. `ClientModel`:
a timer that is due is handled and a message that has arrived is received, since both
processes run their event loops; the update timer of the model fires (`UpdateQuery`); a
killed daemon is activated again by D-Bus (`Restart`). `MessageFlow`: handlers run, the
channel becomes ready, timers fire and the daemon is started again by the bus or the
channel dispatcher, both of which have a service file for it. `CallFlow`: preparing a
channel ends, well or not, also when the channel is gone, which is TelepathyQt's promise
for a pending operation. `SchemaUpgrade`: the daemon is started again and the function,
which waits for nothing, goes on. Nothing is assumed of Telepathy, users and writers:
none has to scroll, write or stop. They stop because their number of operations is
bounded, which is the premise of `EventuallyQuiet`; while operations come more often
than every 100 ms the daemon sends nothing, and no property claims otherwise.

## 4. Proofs

TLC checks the instances of section 3; the theorems below hold for every value of the
constants: any number of threads, events, messages, people, channels, kills and faults.
Each proof module extends the component it is about.

| Theorem | Statement | Module |
|---|---|---|
| `TypeCorrect` | `[]TypeOK` | HistoryStoreProofs |
| `NothingStaysPending` | `[]NothingPendingWhenIdle` | |
| `SummariesExactOrFreshAlways` | `[]ThreadSummariesExactOrFresh` | |
| `SummariesExactAlways` | `[](ThreadSummariesExact /\ NoOrphanEvents)`, if `~StaleWriters` | |
| `BatchesAreAtomic` | `[]BatchInvisibleUntilEnd` | |
| `AnnouncementsAlwaysTrue` | `[](AnnouncementsAreTrue /\ EmptiedThreadsAreRemoved)` | |
| `RowsAlwaysBelongTogether` | `[]RowsBelongTogether`, if `~StaleWriters` | |
| `StoreImplementsLog` | `ImplementsEventLog`, if `~StaleWriters` | |
| `CacheIsAlwaysWellFormed` | `[]CacheIsWellFormed` | GroupedThreadsProofs |
| `CacheAlwaysMirrorsTable` | `[]CacheMirrorsTable` | |
| `ConversationsAreAlwaysComplete` | `[]ConversationsAreComplete`, if `NumbersMatch` | |
| `RestartsKeepConversations` | `RestartKeepsConversations`, if `NumbersMatch` | |
| `RemovalsPromoteOthers` | `RemovalPromotesOthers` | |
| `GroupedTypeInvariant` | `[]TInv`: types, and rows that are never empty | |
| `FetchedListsAlwaysMissNobody` | `[]FetchedListsMissNobody` | |
| `RowsAlwaysFollow` | `[]FollowInv`, if `NumbersMatch` | |
| `RowsAlwaysFollowService` | `[]RowsFollowService`, if `NumbersMatch` | |
| `EverythingIsAlwaysShown` | `[]EverythingIsShown`, if `NumbersMatch` | |
| `NothingIsEverMissed` | `[]NothingMissed` | MessageFlowProofs |
| `RemovedMessagesStayRemoved` | `[]RemovedStayRemoved` | |
| `QueuesAreAlwaysServed` | `[]QueuesAreServed` | |
| `StatusesAreAlwaysKept` | `StatusesAreKept` | |
| `TablesAlwaysFollowRoom` | `[]TablesFollowRoom` | RoomStateProofs |
| `ClientsAlwaysKnowRoom` | `[]ClientsKnowRoom` | |
| `NoEventEverRepeated` | `[]NoEventRepeated` | |
| `UpgradesAreAtomic` | `[]UpgradeIsAtomic` | SchemaUpgradeProofs |
| `VersionsNeverDecrease` | `VersionNeverDecreases` | |
| `ContentsAreAlwaysConverted` | `[]ContentsAreConverted` | |
| `LookupInvariant` | `[]LInv` | CallFlowProofs |
| `NoThreadEverTwice` | `[]NoThreadTwice` | |
| `AnswersAlwaysMatch` | `[]AnswersMatch` | |
| `ConversationsAlwaysStay` | `ConversationsStay` | |
| `CallsAreAlwaysFollowed` | `[]CallsAreFollowed` | |
| `ContextsWaitForChannels` | `[]FinishedMeansReady` | |
| `DurationsAreAlwaysTrue` | `DurationsAreTrue` | |
| `CallsAreAlwaysRecorded` | `CallsAreRecorded` | |
| `PositionKeepsOrder` | the place `PositionForItem` finds keeps rows in order | ClientModelProofs |
| `SignalsAlwaysServed` | `[]SignalsAreServed` | |
| `RowsAlwaysSorted` | `[]RowsSorted` | |
| `ModelAlwaysFollowsDatabase` | `[]ModelFollowsDatabase` | |
| `MatcherAlwaysFollowsBook` | `[]MatcherFollowsBook` | ContactMatcherProofs |
| `ShownAlwaysMatchesBook` | `[]ShownMatchesBook` | |

Each is a theorem of its component's specification (`Spec`, `LookupSpec`, `CallSpec`,
`GroupedSpec`).

### What they assume

The constants' assumptions are those the components declare; TLC evaluates them in every
run. They say what sets and functions the constants are, and no more of the world than
this: text and voice threads are different, information and multipart events are text
events, timestamps are positive, the schema has 19 versions, a call channel is a
voice conversation with somebody and not with a room, the normal form of an identifier is
one of the same account and its own normal form. Two hypotheses go beyond
that, and stand in the theorems that need them:

- `~StaleWriters`: writers name threads that exist (section 2). Without it the theorems
  are false, and `SummariesExactOrFreshAlways` is what is left.
- `NumbersMatch`: among the threads that are grouped by phone number, having the same
  number is symmetric and transitive. libphonenumber's answer need not be (a short
  number matches several long ones); then which threads are grouped depends on the order
  in which they come, and `ConversationsAreComplete` and `RestartKeepsConversations` can
  fail, and the rows of the grouped model with them. `CacheIsWellFormed`, `CacheMirrorsTable` and `RemovalPromotesOthers` need no such
  thing and hold for any relation, and so does `FetchedListsMissNobody`.

### The arguments

**HistoryStore.** `HistoryStoreProofs` first treats the statements as functions: each
maps a database to a database, and each keeps the summaries of all threads, either
because it changes no counted event of a thread or because its trigger rewrites
that thread's row (`RefreshThread`). It then shows that every
step of the specification leaves `work` and `disk` as they were or executes one
statement, commits or rolls back (`StepsAreStatements`), so a property of single
databases that all statements keep is an invariant of both.

- `NothingPendingWhenIdle` is not inductive: a job that has just ended must not
  have left anything. `NothingPending` adds the two other states in which the
  connection is between transactions, a daemon that is down and
  `markThreadsAsRead` between two threads.
- For exact summaries without stale writers, an event must be written into a thread
  that still exists. `WritersThreadsExist` carries that from the start of a batch
  to its last event: nothing a batch of writes does removes a thread, and it can
  only fail by ending.
- `BatchInvisibleUntilEnd` needs the reason: `BatchOpen` says the batch's transaction
  is open and the disk is as it was at its start, and `CommitsText` that a COMMIT
  inside a batch belongs to a text event.
- `AnnouncementsAreTrue` speaks of the end of an operation; what it has done so far is
  the invariant: the events before the current one are stored (or gone), and
  no later statement of the same operation undoes that.
- `StoreImplementsLog`: a database with exact summaries is the
  log of its events (`ExactSummariesMakeLog`), each statement makes one change of
  that log or none (`PutIsChange`, `DeleteIsChange`, ... `StatementIsChange`), and a
  step that executes one statement, commits or rolls back is then `ChangeLog`,
  `Save`, `Revert` or a stutter. It rests on the invariants above and on one more,
  `UnreadStored`: only stored events are unread.

**ConversationCache.** The invariant has a part that every call keeps whatever happens
(`Kept`: each conversation is shown under its newest thread, and a thread that cannot
be grouped is alone), one that holds until the removal of a voice thread tears a
conversation (`Agree`: the two maps are inverse to each other; `Mirrored`: the copies
are the table's), and one for numbers that match as they should (`Alike`: the threads of
a conversation belong together; `Whole`: threads that belong together are in one).
`Agree` alone is not inductive: `addThreadsToCache` moves a conversation to a new key
when its newest thread changes, and the key it moves to must not be taken, which is
`Shown`. Both `Add` and `Remove` end in the same regrouping, so what it does to a
cache is stated once (`Regrouped`) and used by all callers. A restart rebuilds the
same conversations because, once everything is loaded, `Alike` and `Whole` leave no
choice: they are the classes of the stored threads, whatever the order.

**GroupedThreads.** Everything here is about one list of rows that many handlers change, so
the proof first says of each function of the model what it does to rows in general: what
`processThreadGrouping` and `removeThreadFromGroup` add to or take from which rows
(`PlacedAt`, `LessBy`, `Reshown`), that `updateDisplayedThread` and the binary search move a row and
lose none (`Permuted`, `ShowNewestSorts`), and that a list of removed threads, taken out one
by one, is a course of such steps (`IsCourse`). No property below looks at positions again,
but for the order.

- `TInv` is the types, with two facts that every handler needs: a row has at least one thread,
  each once, and shows one of them. The first thread of a row could not be found otherwise.
- `FetchedListsMissNobody` speaks of the end. Until then, `FInv` says of every member that is
  missing from a fetched list that a message in the inbox says that they have come,
  and no later one that they have left (`JoinKept`); the same is said of an answer that has not arrived, of
  what comes behind it. That is why it does no harm that the answer is older than a change: the
  change is handled after it. Of those on a list, one whom an answer put there is never taken off
  (section 2), one whom a change put there only by a message that is not in the inbox (`NoLeave`).
- `RowsFollowService` and `EverythingIsShown` are what is left of `FollowInv` when nothing is on its
  way. Before, its four parts say: what a row has and the service has not is announced as removed (`Gone`); what
  the service has of a row's conversation is in the row, as it is, or will be asked for, because of a
  signal, an answer or a page in hand (`Current`, `Due`); two rows are two conversations, or one of them
  has only threads that are gone (`Single`); and what is stored has a row, will be asked for, or is on
  a page that was not (`Reached`). `Single` is not inductive by itself: an answer could bring a
  thread that a second row has. That it does not is `Gone` together with `NumbersMatch`, and where it
  does, the thread came back before its removal was handled: it and its conversation
  are `Disturbed`, and the four parts speak of the others. It is also where the proof failed until the
  model said so (section 5).
- The four hold while the model is `Attuned`, that is, between a query and the next loss of the daemon;
  a query has no rows and everything on its pages, which is where they begin.

**MessageFlow.** `NothingMissed` is about the end, when all queues are empty. `NothingLost`
says where each message and report is until then: settled, in the daemon's inbox, or,
if the daemon does not observe the channel, in the channel's queue, which is why
acknowledging an item that is still in the inbox, or closing the channel, loses nothing.
`InOrder` is what `RemovedStayRemoved` turns on: a message that supersedes another is
handled after it, although items are acknowledged in any order and handled again after
a restart (`QueueInOrder`: the older one is settled, waits before it, or was
acknowledged while it still waits in the daemon). `StatusesAreKept` is an action property; it
follows from the invariant step by step, since each write of a status either comes from
a report, which cannot revert Read, or from a copy or a message handled again, which the
property names.

**RoomState.** A handler of the daemon has seen a part of the room's changes, depending on
where it stands (`at`) and which signals it has connected (`Control`). The invariant says
for each kind of knowledge when it is right: `RolesKnown` (the roles in memory are the
service's, or a signal that says so is on its way, or the change fell into the gap of
`lost`), `Signalled` (a signal that is no longer true is followed by a newer one),
`SubjectKnown`, `RowsKnown` (the participants' rows are those of the channel with the roles in memory, and
while the roles handler runs, with some roles), `JoinedKnown` (the Joined flag, step by step of each
handler). `Conversation` is the history's part: what was last written about somebody
is what they are (`ContactEventsTrue`, `SelfEventsTrue`), so that the next change of the room
writes something else.

**SchemaUpgrade.** `disk` is always what the older release left, or an upgraded database
(`Upgraded`); the connection's view of it runs through `Stages`. `Reached(db, n)` says that the
columns, the triggers and the counts are those of version n: file n + 1 takes a database
from there to the next version, and `sentTime`, which `upgradeNeeded` looks at and
file 19 adds, is the one column that may be ahead. `Unconverted` has what
`ConvertData` and the files relied on: that times were converted once if the
release was at least 10, and that nothing is a room below version 13, so that
`ToRooms` finds no rows of `chat_room_info` and leaves as many as there are threads with
these ids (`RoomIs`).

**ThreadLookup.** `LInv` has what the properties rest on, in terms of the tables alone: every
participant's row has a thread, the rows of a thread that is not a room are the people in
its id, in their order (`PeopleAreListed`), and any two threads differ (`ThreadsDiffer`).
With it a lookup can be said without queries (`LookupMeans`): it returns the thread of the first row that
fits, and nothing only if none does. Creation keeps the invariant because it
follows a lookup that has found nothing: were the new thread like an old one, the old
one's row would have fitted (`NotFound`), since a list matches itself, and, where to be
the same is transitive, matches itself in any other order (`OrderDoesNotMatter`: among `n` who are
the same there are as many in one list as in the other, so the greedy loop cannot
run out). The converse, `ComparedLists`, gives `AnswersMatch`: a greedy matching that succeeds is a
pairing. `ConversationsStay` is about the order of rows: a creation adds rows
behind all others and a removal takes none of a thread that stays, so the first row that
fits is of the same thread after either (`FirstRowDecides`).

Two things about sequences carry all this. What a query selects, or a DELETE leaves,
is `Selected(rows, places)`, the rows at some places in their order; `OrderExists` and
`SelectedInOrder` say that it has an order-preserving enumeration. What the loop over
participants computes is a recursive function, `Partners`, which
`PairingExists` and `PartnersDef` show to be defined for lists of any length.

**CallFlow.** The calls' invariant orders the times that three actors note: `Timed` says that
Telepathy's answer is no later than the time the observer saw the call active, which is no
later than now, and `FollowedCallsAreCurrent` that the observer's state of a call that is
not dropped is its state. Durations and missed calls follow from these two, and that a call
is stored in a thread of its people from the lookup's lemmas (`AnswerStep`), whether the thread was
found or created. Contexts need only that no channel of a finished context is prepared,
that contexts in use are contexts, and that a context that is finished is not handed over again.

**ClientModel.** What the client will hear of is in two places, the messages in its inbox
and the six lists that wait in the daemon. `Line` is both in the order in which they will
arrive: the inbox up to 0, the lists from 1 to 6. Of it, only what comes after the last
news of the service counts (`Live`): at that the model makes its query again. The invariant
says of each event whose signals have not crossed

- what the line tells of it (`Told`): the last message about a stored event is its last write
  and nothing removes the event later; one that is not stored is removed last; between a
  message that adds it and a later `eventsAdded` something removes it; before a last
  `eventsModified` it is added, or nothing removes it;
- what the rows show while that line is still to come (`Ready`): with no message left,
  what is stored; before a last `eventsAdded` that is not preceded by a removal, nothing
  else than what is stored; before such an `eventsModified`, something.

`ModelFollowsDatabase` is both with an empty line. An operation of the daemon puts
one event into one list, which may be anywhere in the line: `Told` then holds because the lists that
come later, or earlier, hold nothing of that event, unless it has crossed. A timer moves the lists
into the inbox, which changes the places and not the order (`ToldMoved`). A message
that is received is the head of the line, and `Ready` follows from what its handler does with
one event among any number of others (`AddRowsEffect`, `ReplaceRowsEffect`,
`RemoveRowsEffect`). `ServiceKnown` carries that the client learns of every kill.

The binary search is a recursive function on its bounds; `BoundsShrink` says that each
step makes them narrower, and what the search finds is proved for the narrowest bounds that
would be a counterexample. `RowsSorted` is then a question of three facts: a row is put at a
place found so, replaced by one with its time, or taken out.

**ContactMatcher.** Of each entry that was asked for the invariant says that what comes mends
it: if it has nobody, there is a request for it, or it is kept until the accounts are ready,
or each contact with the number is announced in the inbox; if it has a contact, that contact
has this number in this version, or a signal is on its way that makes the matcher look again. The
same is said of an answer in the inbox, of what comes behind it: this is why an answer that is
older than a change does no harm, the change comes after it. So an operation of the book
adds, for whatever it makes untrue, the signal that mends it
(`OperationKeeps`), and a signal that is handled leaves nothing that it alone
announced (`EntryStays` and one lemma for each handler). An answered request is the only
one for its identifier, because requests and unanswered questions are counted
(`OneAnswerMore`, `OneAnswerLess`). Only numbers of the book
ever have a contact (`Unmatchable`), so an entry that loses its contact is its own normal
form, and the rows that are announced are all that show it. A row
that is not stale shows its entry (`RowsOK`).

Sequences are treated with the library's theorems where it has them. Induction over
data, which would need a theorem with an operator parameter, is done with the
least counterexample: a set of naturals that is not empty has a smallest element.
That is how the recursive functions of the models are shown to be defined, and to do
what they do, for lists of any length.

### Only model-checked, and why

- Liveness (`EventuallyQuiet`, `EventuallySettled`, `ContextsAreFinished`, `UpgradeEnds`):
  fairness and ENABLED are out of the prover's reach.
- What findings 1 and 2 quote is violated: a counterexample is a run, not a theorem.

Every other property of the passing runs is a theorem. The instances satisfy the hypotheses
of section 4 (`StaleWriters = FALSE` in `store`, one number in `cache` and `groups`).

## 5. Findings

1. `rollback`: `writeTextEvent` commits inside a batch (`sqlitehistoryplugin.cpp:1056`),
   so `rollbackBatchOperation` cannot revert the text events before the failure;
   the clients are not told of them.
2. `short_list`: a page whose threads are all shown under other threads is returned as an
   empty list (`sqlitehistoryplugin.cpp:1252`), and the grouped model takes it for the
   last one (`historygroupedthreadsmodel.cpp:102`); the conversations behind it are not
   shown.

Known and not a run of its own. The properties exclude these cases by name, or
by the history variables given in section 2:

- A contact can have two rows (`historygroupedthreadsmodel.cpp:135`, `302`;
  `HistoryGroupedThreadsModelTest.cpp:131` expects one). A row shows the SIM card whose thread was
  removed, the removal not handled yet; an answer about the other SIM card shares no thread with
  it and makes a second row; the first thread is created again. Now both rows share
  threads with every answer, only the first of them is brought up to date, and the removal takes one thread
  from it at most. Both stay until the next query. TLC finds it with two threads and four operations when
  asked for `OneRowPerConversation`; three operations are not enough, which is why an earlier form
  of `RowsFollowService` held there and could not be proved.
- A new thread is cached and returned without the timestamp its row gets
  (`sqlitehistoryplugin.cpp:943`; the comment at 893 says otherwise).
- Removing a voice thread takes the text conversation with the same key out of the
  cache (`sqlitehistoryplugin.cpp:188`, `195`). With three threads of one number a later
  update can then show a thread in two conversations, or keep one that is removed,
  until the daemon is started again.
- `fetchMore` appends a page without looking at the rows that signals have added before
  (`historyeventmodel.cpp:238`), so an event can have two rows; a page of an old snapshot
  can also show an event that is removed (`historyeventmodel.cpp:396` and the comment at
  443).
- `ThreadsRemoved` is sent before the `EventsAdded` of the same 100 ms
  (`historyservicedbus.cpp:215`, `historyeventmodel.cpp:450`), so an event of a removed
  thread stays in the model.
- An event written into a thread that is gone is stored without a thread; if a thread
  is created over it, its row says 0 until the next trigger fires.
- `markEventAsRead` keeps a copy of the whole event and writes it back 500 ms later
  (`historymodel.cpp:550`): a report that came in between is undone, also a Read status
  that the daemon itself would not revert (`historydaemon.cpp:1068`: "don't allow
  reverting the status"), and an event removed in between is stored again.
- A message that is not acknowledged when the daemon restarts is written again as
  unread and with its first status, also after it was removed.
- A write-back that fails stays queued without a timer until the next mark
  (`historymodel.cpp:443`).
- `convertOfonoGroupChatToRoom` turns text and voice threads of an ofono account into rooms
  (`sqlitedatabase.cpp:454`), but inserts every row of `chat_room_info` as type text (477),
  where the comment at 463 says "now insert a row in chat_room_info for each room". A
  voice thread that became a room has no row that is read, updated or removed with it
  (`sqlitehistoryplugin.cpp:1311`, `761`; `v13.sql:40`), and a text thread whose twin became one
  as well has two. `RoomsHaveInfo` speaks of text threads, and of the number of rows.
- The cache does not follow a rollback: it forgets a thread whose removal is rolled
  back (`sqlitehistoryplugin.cpp:971`).
- The D-Bus method `ThreadForParticipants` (`historyservicedbus.cpp:117`) hands its
  participants over under a name the plugin does not read, so it never finds a thread;
  asked to create one it adds another row for a conversation without participants each
  time.
- A group with a short number that two of its long numbers match is not found when it is
  named in another order, and gets a second conversation (`utils.cpp:129`).
- Those listed with RoomState, ThreadLookup, CallFlow, SchemaUpgrade, GroupedThreads
  and ContactMatcher in section 2.

## 6. Plan

What is left, in order of what matters most. A dozen runs, one for each
question, is what the project keeps: a new property takes the place of one whose answer is
plain by then.

1. EventLog composed with SignalQueue: what reaches the bus as a function of what was
   stored.
2. The plain thread model's handlers and the grouped event model.

### Not modelled, and why

- The filters and sort orders (`filter.cpp`, `sort.cpp`, `intersectionfilter.cpp`, ...):
  predicates without state, and the SQL that is built from them, which would be a model of SQL.
- The grouped event model (`historygroupedeventsmodel.cpp`), a second presentation of
  the rows ClientModel has, and the plain thread model's handlers.
- Messages without a token (`historydaemon.cpp:1048`): they are stored under the time they
  are handled, and there is nothing to recognise a replay by.
- The split of a schema file into statements, the custom SQL functions.
- Conversions to and from property maps, formatting, settings, plugin loading, the
  Telepathy helper and the command line tools: no state of their own.
- Telepathy, the address book, libphonenumber and the user interface are external and
  appear as the callers of handlers or as relations among the constants.
