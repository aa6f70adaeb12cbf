----------------------------- MODULE ClientModel -----------------------------
(***************************************************************************)
(* A QML event model (HistoryEventModel over EventView over Manager) that  *)
(* shows the events of one thread, beside the daemon: the events it        *)
(* stores, the signals it sends about them (SignalQueue) and the rows of   *)
(* the model.                                                              *)
(*                                                                         *)
(* The model reads a snapshot of the database page by page and keeps it up *)
(* to date with the signals, which come later, grouped by kind, and not at *)
(* all if the daemon is killed before it sends them.                       *)
(***************************************************************************)
EXTENDS Integers, FiniteSets, SignalQueue, RowOrder

CONSTANTS
    Items,         \* the event keys
    Thread,        \* their thread
    Time,          \* their timestamps
    PageSize,      \* mPageSize
    MaxOperations  \* bound: operations, requeries and crashes of the daemon

ASSUME ClientAssumption ==
    /\ IsFiniteSet(Items)
    /\ Thread \notin Items
    /\ Time \in [Items -> Nat]
    /\ PageSize \in Nat \ {0}
    /\ MaxOperations \in Nat

VARIABLES
    stored,     \* the event rows: the operation that wrote them last, or 0
    operations, \* how many operations there have been
    up,         \* does the daemon run?
    running,    \* Manager's serviceRunning
    view,       \* mView, with the snapshot's rows that are not loaded yet
    rows,       \* mEvents
    more,       \* mCanFetchMore
    update,     \* mUpdateTimer runs
    crossed     \* items whose signals are sent in another order than they happened (history)

client == <<running, view, rows, more, update>>
vars == <<pending, timer, inbox, stored, operations, up, running, view, rows, more, update, crossed>>

Row == [item : Items, version : 1..MaxOperations]
Notice == [item : Items \cup {Thread}, version : 1..MaxOperations]
Versioned(item, version) == [item |-> item, version |-> version]
ItemsOf(list) == {list[i].item : i \in DOMAIN list}

-----------------------------------------------------------------------------
(* The rows of the model, newest first.                                    *)

\* lessThan(item, posItem) with the roles swapped: the order is descending.
Before(item, other) == Time[item] > Time[other]

TimesOf(list) == [i \in DOMAIN list |-> Time[list[i].item]]

\* onEventsAdded skips what the model has already.
AddRow(list, row) ==
    IF row.item \in ItemsOf(list) THEN list
    ELSE InsertAt(list, PositionForItem(TimesOf(list), Time[row.item]) + 1, row)

FirstRow(list, item) == CHOOSE i \in DOMAIN list :
    list[i].item = item /\ \A j \in 1..(i - 1) : list[j].item # item

ReplaceRow(list, row) ==
    IF row.item \in ItemsOf(list) THEN [list EXCEPT ![FirstRow(list, row.item)] = row] ELSE list

RemoveRow(list, row) ==
    IF row.item \in ItemsOf(list) THEN RemoveAt(list, FirstRow(list, row.item)) ELSE list

Handle(change, list, row) == CASE change = "add"     -> AddRow(list, row)
                               [] change = "replace" -> ReplaceRow(list, row)
                               [] change = "remove"  -> RemoveRow(list, row)

\* The rows after all events of a signal; `after` its first k.
HandleAll(change, list, items) ==
    LET after[k \in 0..Len(items)] ==
            IF k = 0 THEN list ELSE Handle(change, after[k - 1], items[k])
    IN  after[Len(items)]

AddRows(list, added) == HandleAll("add", list, added)

\* onEventsModified replaces the rows it finds and adds the others after that.
ModifyRows(list, modified) == AddRows(HandleAll("replace", list, modified), modified)

\* onEventsRemoved
RemoveRows(list, removed) == HandleAll("remove", list, removed)

-----------------------------------------------------------------------------
(* The daemon: each operation writes the database and notifies.            *)

StoredItems == {item \in Items : stored[item] # 0}
Lists(name, items) == [NothingPending EXCEPT ![name] = items]

Operate == /\ operations < MaxOperations
           /\ operations' = operations + 1

DaemonOperation == up /\ Operate /\ UNCHANGED <<up, client>>

\* writeEvents of one event. Its signal overtakes a removal that is pending.
WriteEvent(item) ==
    /\ DaemonOperation
    /\ stored' = [stored EXCEPT ![item] = operations']
    /\ Notify(Lists(IF stored[item] = 0 THEN "eventsAdded" ELSE "eventsModified",
                    <<Versioned(item, operations')>>))
    /\ crossed' = IF item \in ItemsOf(pending["eventsRemoved"])
                  THEN crossed \cup {item} ELSE crossed

\* removeEvents of one event; with its last event the thread is removed too.
RemoveEvent(item) ==
    /\ DaemonOperation
    /\ item \in StoredItems
    /\ stored' = [stored EXCEPT ![item] = 0]
    /\ Notify([Lists("eventsRemoved", <<Versioned(item, operations')>>) EXCEPT
                 !["threadsRemoved"] = IF StoredItems = {item}
                                       THEN <<Versioned(Thread, operations')>> ELSE <<>>])
    /\ UNCHANGED crossed

\* removeThreads: the cascades remove the events, only the thread is notified.
\* Its signal overtakes those of the events that are pending.
RemoveThread ==
    /\ DaemonOperation
    /\ StoredItems # {}
    /\ stored' = [item \in Items |-> 0]
    /\ Notify(Lists("threadsRemoved", <<Versioned(Thread, operations')>>))
    /\ crossed' = crossed \cup ItemsOf(pending["eventsAdded"]) \cup ItemsOf(pending["eventsModified"])

\* The daemon is killed: the database stays, what it has not sent is lost.
Crash ==
    /\ up
    /\ Operate
    /\ up' = FALSE
    /\ view' = [view EXCEPT !.alive = FALSE]
    /\ LoseSignals
    /\ UNCHANGED <<stored, running, rows, more, update, crossed>>

\* D-Bus activation starts it again.
Restart ==
    /\ ~up
    /\ up' = TRUE
    /\ RegisterService
    /\ UNCHANGED <<stored, operations, client, crossed>>

-----------------------------------------------------------------------------
(* The client.                                                             *)

\* connected: the model gets the signals through the view; valid: d->valid;
\* alive: its object exists in the daemon; rest: the snapshot's other rows;
\* whole: the snapshot had one page (history).
NoView == [connected |-> FALSE, valid |-> FALSE, alive |-> FALSE, rest |-> <<>>, whole |-> TRUE]

\* Lists of rows, one for each of these items, in the order of the query.
Listings(items) ==
    {list \in [1..Cardinality(items) -> {Versioned(item, stored[item]) : item \in items}] :
        \A i, j \in DOMAIN list :
            i < j => list[i].item # list[j].item /\ ~Before(list[j].item, list[i].item)}

\* Mutant: the query has no condition.
UnfilteredSnapshots == Listings(Items)

\* What the view may find: equally old events come in any order.
Snapshots == Listings(StoredItems)
FirstPage(list) == SubSeq(list, 1, IF Len(list) < PageSize THEN Len(list) ELSE PageSize)

\* Mutant: the offset moves one row too far.
OtherPagesSkipping(list) == SubSeq(list, PageSize + 2, Len(list))

OtherPages(list) == SubSeq(list, PageSize + 1, Len(list))

\* updateQuery: it clears the rows, creates a view and fetches its first page.
\* Without a service the view is not valid and stays empty.
UpdateQuery ==
    /\ update
    /\ update' = FALSE
    /\ \/ /\ running /\ up
          /\ \E snapshot \in Snapshots :
               /\ rows' = FirstPage(snapshot)
               /\ view' = [connected |-> TRUE, valid |-> TRUE, alive |-> TRUE,
                           rest |-> OtherPages(snapshot), whole |-> OtherPages(snapshot) = <<>>]
               /\ more' = (snapshot # <<>>)
       \/ /\ ~(running /\ up)
          /\ rows' = <<>>
          /\ view' = NoView
          /\ more' = FALSE
    /\ crossed' = IF pending = NothingPending /\ inbox = <<>> THEN {} ELSE crossed
    /\ UNCHANGED <<pending, timer, inbox, stored, operations, up, running>>

\* fetchMore: the next page is appended. The view of a dead daemon turns
\* invalid and asks for a new query.
FetchMore ==
    /\ more
    /\ view.connected
    /\ IF view.valid /\ view.alive
       THEN /\ rows' = rows \o FirstPage(view.rest)
            /\ view' = [view EXCEPT !.rest = OtherPages(@)]
            /\ more' = (view.rest # <<>>)
            /\ UNCHANGED update
       ELSE /\ view' = [view EXCEPT !.valid = FALSE]
            /\ more' = FALSE
            /\ update' = (update \/ view.valid)
            /\ UNCHANGED rows
    /\ UNCHANGED <<pending, timer, inbox, stored, operations, up, running, crossed>>

\* setFilter, setSort or setType: the query is made again.
ChangeQuery ==
    /\ Operate
    /\ update' = TRUE
    /\ UNCHANGED <<pending, timer, inbox, stored, up, running, view, rows, more, crossed>>

\* The next message of the bus.
Receive(signal) ==
    /\ inbox # <<>>
    /\ Head(inbox).signal = signal
    /\ inbox' = Tail(inbox)
    /\ UNCHANGED <<pending, timer, stored, operations, up, view, more, crossed>>

ReceiveEvents(signal, changed) ==
    /\ Receive(signal)
    /\ rows' = IF view.connected THEN changed ELSE rows
    /\ UNCHANGED <<running, update>>

OnEventsAdded == ReceiveEvents("eventsAdded", AddRows(rows, Head(inbox).items))
OnEventsModified == ReceiveEvents("eventsModified", ModifyRows(rows, Head(inbox).items))
OnEventsRemoved == ReceiveEvents("eventsRemoved", RemoveRows(rows, Head(inbox).items))

\* Mutant: the removal of a thread is left to its events' signals.
OnThreadsRemovedIgnored ==
    /\ Receive("threadsRemoved")
    /\ UNCHANGED <<running, rows, update>>

\* The events of a removed thread are not announced: the query is made again,
\* if one of them is on the model.
OnThreadsRemoved ==
    /\ Receive("threadsRemoved")
    /\ update' = (update \/ (view.connected /\ rows # <<>>))
    /\ UNCHANGED <<running, rows>>

\* serviceRunningChanged
OnServiceRunningChanged ==
    /\ \/ Receive("serviceRegistered") /\ running' = TRUE
       \/ Receive("serviceUnregistered") /\ running' = FALSE
    /\ update' = TRUE
    /\ UNCHANGED rows

-----------------------------------------------------------------------------
Init == /\ SignalQueueInit
        /\ stored = [item \in Items |-> 0]
        /\ operations = 0
        /\ up = TRUE
        /\ running = TRUE
        /\ view = NoView
        /\ rows = <<>>
        /\ more = TRUE
        /\ update = TRUE
        /\ crossed = {}

SendSignals == (Expire \/ ProcessSignals) /\ UNCHANGED <<stored, operations, up, client, crossed>>

ReceiveNext == \/ OnEventsAdded
               \/ OnEventsModified
               \/ OnEventsRemoved
               \/ OnThreadsRemoved
               \/ OnServiceRunningChanged

Next ==
    \/ \E item \in Items : WriteEvent(item) \/ RemoveEvent(item)
    \/ RemoveThread
    \/ Crash
    \/ Restart
    \/ SendSignals
    \/ UpdateQuery
    \/ FetchMore
    \/ ChangeQuery
    \/ ReceiveNext

\* Both processes run their event loops, so timers that are due fire and
\* messages arrive; a daemon that was killed is activated again. Nobody has to
\* scroll, and nobody has to write.
Fairness == /\ WF_vars(SendSignals)
            /\ WF_vars(UpdateQuery)
            /\ WF_vars(ReceiveNext)
            /\ WF_vars(Restart)

Spec == Init /\ [][Next]_vars /\ Fairness

-----------------------------------------------------------------------------
(* Properties                                                              *)

TypeOK == /\ pending \in [SignalNames -> Seq(Notice)]
          /\ timer \in {"off", "running", "due"}
          /\ \A i \in DOMAIN inbox : inbox[i].items \in Seq(Notice)
          /\ stored \in [Items -> 0..MaxOperations]
          /\ operations \in 0..MaxOperations
          /\ {up, running, more, update} \subseteq BOOLEAN
          /\ view \in [connected : BOOLEAN, valid : BOOLEAN, alive : BOOLEAN, rest : Seq(Row),
                       whole : BOOLEAN]
          /\ rows \in Seq(Row)
          /\ crossed \subseteq Items

\* Nothing is on its way to the client and no timer runs.
Quiet == up /\ timer = "off" /\ inbox = <<>> /\ ~update

Shown(item) == {rows[i].version : i \in {j \in DOMAIN rows : rows[j].item = item}}

\* A model that has loaded its only page and has heard everything shows the
\* database: each stored event as it was last written, and no other, whatever
\* was written while it made its query, whatever the signals' lists reordered
\* and whether or not the daemon was killed before it sent them. The exception
\* is an event whose own signals have crossed.
ModelShowsDatabase ==
    Quiet /\ view.whole => \A item \in Items \ crossed :
        Shown(item) = IF stored[item] = 0 THEN {} ELSE {stored[item]}

\* A model that has loaded all pages shows every stored event (in some version),
\* unless the event's signals have crossed: what a signal inserts does not keep
\* a page from being loaded, and no event is hidden between two pages.
StoredEventsAreShown == Quiet /\ ~more => StoredItems \ crossed \subseteq ItemsOf(rows)

\* The rows are in the order of their timestamps, and no event has two: signals
\* and the binary search keep it, also for equal timestamps, if the snapshot
\* had one page. (A second page is appended to whatever the signals have made
\* of the rows.)
RowsSorted ==
    view.whole => \A i, j \in DOMAIN rows :
        i < j => ~Before(rows[j].item, rows[i].item) /\ rows[i].item # rows[j].item

\* When the writers stop, everything has been sent, received and queried at
\* some time: no timer is stopped for good and no message waits for ever.
EventuallyQuiet == <>[]Quiet

\* No signal waits without a timer.
SignalsAreServed == TypeOK /\ NothingStranded

\* The model shows the database: exactly when it has one page, and nothing
\* stored is hidden when it has several.
ModelFollowsDatabase == ModelShowsDatabase /\ StoredEventsAreShown
=============================================================================
