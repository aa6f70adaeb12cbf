--------------------------- MODULE GroupedThreads ---------------------------
(***************************************************************************)
(* The list of conversations (HistoryGroupedThreadsModel over ThreadView   *)
(* over Manager) beside the daemon, whose plugin groups the threads        *)
(* (ConversationCache) and whose service sends the signals (SignalQueue).  *)
(*                                                                         *)
(* Neither a page of threads nor a signal says how the threads are grouped *)
(* now: for each of them the model asks the daemon, which may have gone on *)
(* since, and while it waits for the answer no signal is handled.  Lists   *)
(* of participants are kept by the model only; for large rooms they are    *)
(* fetched on demand, and member changes come as messages that do not wait *)
(* for the signals.                                                        *)
(***************************************************************************)
EXTENDS ConversationCache, SignalQueue, RowOrder

CONSTANTS
    Rooms,          \* irc rooms: their threads never carry participants
    Members,        \* people in them
    InitialStores,  \* what is stored when the model is created
    PageSize,       \* mPageSize
    MaxOperations   \* bound: operations, deaths of the daemon and requeries

VARIABLES
    members,    \* thread_participants of the rooms
    daemon,     \* "up", "down", or "starting"
    operations, \* how many operations there have been
    requests,   \* ParticipantsForThreads calls on their way
    running,    \* Manager's serviceRunning
    view,       \* mThreadView, with the snapshot's rows that are not loaded yet
    groups,     \* mGroups
    more,       \* mCanFetchMore
    update,     \* mUpdateTimer runs
    paging,     \* the model waits for NextPage
    calls,      \* the threads it has still to ask for with GetSingleThread
    returned,   \* threads created again before their removal was handled (history)
    skipped,    \* threads the pages may have left out, see Delete (history)
    fetched     \* rooms on the model whose participants were fetched (history)

service == <<vars, members, daemon>>
model == <<running, view, groups, more, update, paging, calls, fetched>>
groupedVars == <<service, signalQueue, operations, requests, model, returned, skipped>>

ASSUME GroupedThreadsAssumption ==
    /\ Rooms \subseteq Threads \ Grouping
    /\ InitialStores \subseteq [Threads -> Stamps \cup {0}]
    /\ PageSize \in Nat \ {0}
    /\ MaxOperations \in Nat

-----------------------------------------------------------------------------
(* The daemon.                                                             *)

Operate == operations < MaxOperations /\ operations' = operations + 1
Works == daemon = "up" /\ Operate /\ UNCHANGED <<daemon, requests, model>>
Lists(name, t) == [NothingPending EXCEPT ![name] = <<t>>]

\* The threads in the rows of the model.
OnModel(gs) == UNION {ThreadsIn(gs[i].threads) : i \in DOMAIN gs}

\* The threads of which a signal with this name is still to be handled.
Announced(name) ==
    Range(pending[name])
        \cup UNION {Range(inbox[i].items) : i \in {j \in DOMAIN inbox : inbox[j].signal = name}}

\* A new thread. Its signal may overtake that of an earlier removal.
Create(t, time) ==
    /\ Works
    /\ CreateThread(t, time)
    /\ Notify(Lists("threadsAdded", t))
    /\ returned' = IF t \in Announced("threadsRemoved") THEN returned \cup {t} ELSE returned
    /\ UNCHANGED <<members, skipped>>

\* Events written, removed or read.
Update(t, time) ==
    /\ Works
    /\ UpdateThread(t, time)
    /\ Notify(Lists("threadsModified", t))
    /\ UNCHANGED <<members, returned, skipped>>

\* removeThreads; the cascades remove the participants. A conversation that is
\* removed from before it is on the model may be left out: its new row has been
\* passed, or the old one is being asked for.
Delete(t) ==
    /\ Works
    /\ RemoveThread(t)
    /\ Notify(Lists("threadsRemoved", t))
    /\ members' = IF t \in Rooms THEN [members EXCEPT ![t] = {}] ELSE members
    /\ skipped' = IF t \in OnModel(groups) THEN skipped
                  ELSE skipped \cup (ThreadsIn(conversations[keys[t]]) \ {t})
    /\ UNCHANGED returned

\* A list of participants is a set of pairs: the identifier, and whether the
\* entry names the account, as the plugin's do and the daemon's changes do not.
\* Two entries that differ in it are different participants.
Change(t, added, removed, modified) ==
    [signal |-> "participantsChanged",
     items |-> <<[thread |-> t, added |-> added, removed |-> removed, modified |-> modified]>>]

\* onGroupMembersChanged: the change is announced at once.
JoinRoom(t, m) ==
    /\ Works
    /\ t \in Stored
    /\ m \notin members[t]
    /\ members' = [members EXCEPT ![t] = @ \cup {m}]
    /\ inbox' = Append(inbox, Change(t, {<<m, FALSE>>}, {}, {}))
    /\ UNCHANGED <<vars, pending, timer, returned, skipped>>

LeaveRoom(t, m) ==
    /\ Works
    /\ t \in Stored
    /\ m \in members[t]
    /\ members' = [members EXCEPT ![t] = @ \ {m}]
    /\ inbox' = Append(inbox, Change(t, {}, {<<m, FALSE>>}, {}))
    /\ UNCHANGED <<vars, pending, timer, returned, skipped>>

\* participantsForThreads; what it finds is handled as modified participants.
AnswerParticipants ==
    /\ daemon = "up"
    /\ requests # <<>>
    /\ inbox' = Append(inbox, Change(Head(requests), {}, {}, members[Head(requests)] \X {TRUE}))
    /\ requests' = Tail(requests)
    /\ UNCHANGED <<service, pending, timer, operations, model, returned, skipped>>

\* The daemon is killed; a request that fails is answered with nothing.
Kill ==
    /\ daemon = "up"
    /\ Operate
    /\ daemon' = "down"
    /\ LoseSignals
    /\ requests' = <<>>
    /\ view' = [view EXCEPT !.alive = FALSE]
    /\ UNCHANGED <<vars, members, running, groups, more, update, paging, calls, fetched, returned, skipped>>

\* Activated again, it loads its cache before it appears on the bus.
Start ==
    /\ daemon = "down"
    /\ daemon' = "starting"
    /\ Restart
    /\ UNCHANGED <<signalQueue, members, operations, requests, model, returned, skipped>>

Load(t) ==
    /\ daemon = "starting"
    /\ LoadThread(t)
    /\ UNCHANGED <<signalQueue, members, daemon, operations, requests, model, returned, skipped>>

Register ==
    /\ daemon = "starting"
    /\ Ready
    /\ daemon' = "up"
    /\ RegisterService
    /\ UNCHANGED <<vars, members, operations, requests, model, returned, skipped>>

-----------------------------------------------------------------------------
(* The rows of the model: each a group of copies of threads, shown by one  *)
(* of them.                                                                *)

Times(gs) == [i \in DOMAIN gs |-> gs[i].shown.time]

\* The first row, if any, that shares a thread with ts.
Rows(gs, ts) == {i \in DOMAIN gs : ThreadsIn(gs[i].threads) \cap ts # {}}
First(rows) == CHOOSE i \in rows : \A j \in rows : i <= j

\* mGroups.indexOf: rows are compared by the threads they show, so what is found
\* need not be row i.
IndexOf(gs, i) == First({j \in DOMAIN gs : gs[j].shown.thread = gs[i].shown.thread})

\* Mutant: the row stays where it is.
ShowNewestInPlace(gs, i) ==
    LET copies == gs[i].threads
    IN  [gs EXCEPT ![i].shown = copies[Newest(copies)]]

\* updateDisplayedThread: the newest thread is shown. The position is searched
\* among the rows as they were, and may be the one after the row's own.
ShowNewest(gs, i) ==
    LET copies == gs[i].threads
        newest == copies[Newest(copies)]
        from == IndexOf(gs, i)
        position == PositionForItem(Times(gs), newest.time) + 1
        target == IF position > from THEN position - 1 ELSE position
        shown == [gs EXCEPT ![i].shown = newest]
    IN  InsertAt(RemoveAt(shown, from), target, shown[from])

\* Mutant: the row goes on showing the thread.
RemoveFromThreads(gs, t, related) ==
    LET i == First(Rows(gs, related))
    IN  IF Rows(gs, related) = {} THEN gs
        ELSE [gs EXCEPT ![i].threads = RemoveAll(@, t)]

\* removeThreadFromGroup: with its last thread a row goes. related: the
\* threads it was grouped with when it was read.
RemoveFromGroup(gs, t, related) ==
    LET i == First(Rows(gs, related))
        rest == RemoveAll(gs[i].threads, t)
    IN  IF Rows(gs, related) = {} THEN gs
        ELSE IF rest = <<>> THEN RemoveAt(gs, IndexOf(gs, i))
        ELSE ShowNewest([gs EXCEPT ![i].threads = rest], i)

\* The copies of a conversation as the service sends them: rooms without people.
Sent(copies) ==
    [i \in DOMAIN copies |-> [thread |-> copies[i].thread, time |-> copies[i].time, people |-> {}]]

\* Mutant: the query does not say that the threads are grouped.
Alone(t) ==
    LET copies == IF keys[t] = NoKey THEN <<>> ELSE At(Cache, keys[t])
    IN  Sent(InOrder(copies, {i \in DOMAIN copies : copies[i].thread = t}))

\* getSingleThread, grouped: the copies in the conversation of t.
Conversation(t) == Sent(IF keys[t] = NoKey THEN <<>> ELSE At(Cache, keys[t]))

\* Mutant: the lists of participants are not kept.
ForgetParticipants(old, new) == new

\* restoreParticipants
RestoreParticipants(old, new) ==
    [i \in DOMAIN new |->
        LET known == {j \in DOMAIN old : old[j].thread = new[i].thread}
        IN  IF known = {} THEN new[i] ELSE [new[i] EXCEPT !.people = old[First(known)].people]]

\* Mutant: a thread gets a row of its own, unless it has one.
PlaceAlone(gs, t, copies) ==
    LET asked == CHOOSE copy \in Range(copies) : copy.thread = t
        rows == Rows(gs, {t})
    IN  IF rows = {}
        THEN InsertAt(gs, PositionForItem(Times(gs), asked.time) + 1,
                      [shown |-> asked, threads |-> copies])
        ELSE ShowNewest([gs EXCEPT ![First(rows)].threads =
                            RestoreParticipants(gs[First(rows)].threads, copies)], First(rows))

\* What processThreadGrouping does with the conversation of t: a new row shows
\* the thread that was asked for.
Place(gs, t, copies) ==
    LET asked == CHOOSE copy \in Range(copies) : copy.thread = t
        rows == Rows(gs, ThreadsIn(copies))
    IN  IF rows = {}
        THEN InsertAt(gs, PositionForItem(Times(gs), asked.time) + 1,
                      [shown |-> asked, threads |-> copies])
        ELSE ShowNewest([gs EXCEPT ![First(rows)].threads =
                            RestoreParticipants(gs[First(rows)].threads, copies)], First(rows))

\* The rows become gs.
Show(gs) == groups' = gs /\ fetched' = fetched \cap OnModel(gs)

-----------------------------------------------------------------------------
(* The client.                                                             *)

NoView == [connected |-> FALSE, valid |-> FALSE, alive |-> FALSE, rest |-> <<>>]

\* The handlers and timers of the model run one after the other.
Idle == calls = <<>> /\ ~paging
Undisturbed == UNCHANGED <<service, pending, timer, requests>>

\* What the view's query may find: newest first, equally old threads in any order.
Snapshots ==
    {list \in [1..Cardinality(Stored) -> Stored] :
        \A i, j \in DOMAIN list : i < j => list[i] # list[j] /\ stored[list[i]] >= stored[list[j]]}

\* updateQuery: without a service the view is empty.
UpdateQuery ==
    /\ Idle
    /\ update
    /\ update' = FALSE
    /\ Show(<<>>)
    /\ \/ /\ running /\ daemon = "up"
          /\ \E snapshot \in Snapshots :
               view' = [connected |-> TRUE, valid |-> TRUE, alive |-> TRUE, rest |-> snapshot]
          /\ more' = TRUE
          /\ paging' = TRUE
       \/ /\ ~running \/ daemon # "up"
          /\ view' = NoView
          /\ more' = FALSE
          /\ UNCHANGED paging
    /\ returned' = returned \cap Announced("threadsRemoved")
    /\ skipped' = {}
    /\ Undisturbed
    /\ UNCHANGED <<inbox, operations, running, calls>>

\* The view (a QML list) asks for more.
FetchMore ==
    /\ Idle
    /\ more
    /\ paging' = TRUE
    /\ Undisturbed
    /\ UNCHANGED <<inbox, operations, running, view, groups, more, update, calls, fetched, returned, skipped>>

FirstPage(rest) == SubSeq(rest, 1, IF Len(rest) < PageSize THEN Len(rest) ELSE PageSize)

\* Mutant: a row is skipped unless its thread is the only one of its conversation.
PageOfSingles(rest) ==
    InOrder(FirstPage(rest), {i \in DOMAIN FirstPage(rest) : Len(At(Cache, rest[i])) = 1})

\* parseThreadResults skips the threads that are not displayed now.
Page(rest) ==
    InOrder(FirstPage(rest), {i \in DOMAIN FirstPage(rest) : conversations[rest[i]] # NoConversation})

\* NextPage: an empty page is the last; a dead view asks for a new query.
NextPage ==
    /\ paging
    /\ paging' = FALSE
    /\ IF view.valid /\ view.alive
       THEN LET page == Page(view.rest)
            IN  /\ view' = [view EXCEPT !.rest = SubSeq(@, PageSize + 1, Len(@))]
                /\ calls' = [i \in DOMAIN page |->
                                [thread |-> page[i], related |-> ThreadsIn(conversations[page[i]])]]
                /\ more' = (page # <<>>)
                /\ UNCHANGED update
       ELSE /\ view' = [view EXCEPT !.valid = FALSE]
            /\ more' = FALSE
            /\ update' = (update \/ view.valid)
            /\ UNCHANGED calls
    /\ Undisturbed
    /\ UNCHANGED <<inbox, operations, running, groups, fetched, returned, skipped>>

\* processThreadGrouping of the next thread: GetSingleThread is answered by the
\* daemon as it is now, or fails because the daemon died, as if the thread
\* did not exist.
ProcessThreadGrouping ==
    /\ calls # <<>>
    /\ calls' = Tail(calls)
    /\ LET call == Head(calls)
           copies == Conversation(call.thread)
       IN  \/ /\ daemon = "up"
              /\ copies # <<>>
              /\ Show(Place(groups, call.thread, copies))
           \/ /\ daemon # "up" \/ copies = <<>>
              /\ Show(RemoveFromGroup(groups, call.thread, call.related))
    /\ Undisturbed
    /\ UNCHANGED <<inbox, operations, running, view, more, update, paging, returned, skipped>>

\* The application asks for the participants of a room without any.
RequestParticipants(t) ==
    /\ Idle
    /\ Operate
    /\ \E i \in DOMAIN groups : groups[i].shown.thread = t /\ groups[i].shown.people = {}
    /\ requests' = Append(requests, t)
    /\ UNCHANGED <<service, signalQueue, model, returned, skipped>>

\* setFilter, setSort, setGroupingProperty
ChangeQuery ==
    /\ Operate
    /\ update' = TRUE
    /\ Undisturbed
    /\ UNCHANGED <<inbox, running, view, groups, more, paging, calls, fetched, returned, skipped>>

\* The next message of the bus.
Receive(signal) ==
    /\ Idle
    /\ inbox # <<>>
    /\ Head(inbox).signal = signal
    /\ inbox' = Tail(inbox)
    /\ Undisturbed
    /\ UNCHANGED <<operations, view, more, paging, returned, skipped>>

OnThreadsChanged ==
    /\ \/ Receive("threadsAdded")
       \/ Receive("threadsModified")
    /\ calls' = IF view.connected
                THEN [i \in DOMAIN Head(inbox).items |->
                         [thread |-> Head(inbox).items[i], related |-> {Head(inbox).items[i]}]]
                ELSE <<>>
    /\ UNCHANGED <<running, groups, update, fetched>>

\* The rows after all removals of a signal; `after` its first k.
RemoveEach(gs, removed) ==
    LET after[k \in 0..Len(removed)] ==
            IF k = 0 THEN gs ELSE RemoveFromGroup(after[k - 1], removed[k], {removed[k]})
    IN  after[Len(removed)]

OnThreadsRemoved ==
    /\ Receive("threadsRemoved")
    /\ Show(IF view.connected THEN RemoveEach(groups, Head(inbox).items) ELSE groups)
    /\ UNCHANGED <<running, update, calls>>

Changed(copy, change) ==
    IF copy.thread = change.thread
    THEN [copy EXCEPT !.people = ((@ \ change.removed) \ change.modified)
                                     \cup change.added \cup change.modified]
    ELSE copy

\* onThreadParticipantsChanged: the copy is also moved to the end of its group.
OnThreadParticipantsChanged ==
    /\ Receive("participantsChanged")
    /\ LET change == Head(inbox).items[1]
           i == First(Rows(groups, {change.thread}))
           others == RemoveAll(groups[i].threads, change.thread)
           mine == CHOOSE copy \in Range(groups[i].threads) : copy.thread = change.thread
       IN  IF view.connected /\ Rows(groups, {change.thread}) # {}
           THEN /\ groups' = [groups EXCEPT
                                 ![i] = [shown |-> Changed(@.shown, change),
                                         threads |-> Append(others, Changed(mine, change))]]
                /\ fetched' = IF change.added = {} /\ change.removed = {}
                              THEN fetched \cup {change.thread} ELSE fetched
           ELSE UNCHANGED <<groups, fetched>>
    /\ UNCHANGED <<running, update, calls>>

\* serviceRunningChanged
OnServiceRunningChanged ==
    /\ \/ Receive("serviceRegistered") /\ running' = TRUE
       \/ Receive("serviceUnregistered") /\ running' = FALSE
    /\ update' = TRUE
    /\ UNCHANGED <<groups, calls, fetched>>

-----------------------------------------------------------------------------
\* The application is started while the service is, or after it: nothing happens to
\* the model before the service is there.
GroupedInit ==
    /\ stored \in InitialStores
    /\ conversations = [t \in Threads |-> NoConversation]
    /\ keys = [t \in Threads |-> NoKey]
    /\ loading = Stored
    /\ lost = {}
    /\ stale = {}
    /\ before = {}
    /\ torn = FALSE
    /\ members = [t \in Rooms |-> IF stored[t] = 0 THEN {} ELSE Members]
    /\ daemon = "starting"
    /\ operations = 0
    /\ requests = <<>>
    /\ SignalQueueInit
    /\ running = FALSE
    /\ view = NoView
    /\ groups = <<>>
    /\ more = TRUE
    /\ update = TRUE
    /\ paging = FALSE
    /\ calls = <<>>
    /\ returned = {}
    /\ skipped = {}
    /\ fetched = {}

SendSignals == /\ Expire \/ ProcessSignals
               /\ UNCHANGED <<service, operations, requests, model, returned, skipped>>

GroupedNext ==
    \/ \E t \in Threads :
         \/ \E time \in Stamps : Create(t, time) \/ Update(t, time)
         \/ Delete(t)
         \/ Load(t)
    \/ \E t \in Rooms :
         \/ \E m \in Members : JoinRoom(t, m) \/ LeaveRoom(t, m)
         \/ RequestParticipants(t)
    \/ AnswerParticipants
    \/ Kill
    \/ Start
    \/ Register
    \/ SendSignals
    \/ UpdateQuery
    \/ FetchMore
    \/ NextPage
    \/ ProcessThreadGrouping
    \/ ChangeQuery
    \/ OnThreadsChanged
    \/ OnThreadsRemoved
    \/ OnThreadParticipantsChanged
    \/ OnServiceRunningChanged

GroupedSpec == GroupedInit /\ [][GroupedNext]_groupedVars

-----------------------------------------------------------------------------
(* Properties                                                              *)

Copies == [thread : Threads, time : Stamps \cup {0}, people : SUBSET (Members \X BOOLEAN)]

\* No row is without threads, and what it shows has the key of one of them.
GroupedTypeOK ==
    /\ TypeOK
    /\ members \in [Rooms -> SUBSET Members]
    /\ daemon \in {"up", "down", "starting"}
    /\ operations \in 0..MaxOperations
    /\ requests \in Seq(Rooms)
    /\ view.rest \in Seq(Threads)
    /\ groups \in Seq([shown : Copies, threads : Seq(Copies) \ {<<>>}])
    /\ \A i \in DOMAIN groups : groups[i].shown.thread \in ThreadsIn(groups[i].threads)
    /\ {running, more, update, paging} \subseteq BOOLEAN
    /\ returned \subseteq Threads /\ skipped \subseteq Threads
    /\ fetched \subseteq Rooms

\* The model follows the service it made its query with.
Attuned ==
    /\ daemon = "up" /\ view.connected /\ ~update
    /\ \A i \in DOMAIN inbox : inbox[i].signal \notin {"serviceRegistered", "serviceUnregistered"}

\* Nothing is on its way and the model is up to date with the service.
Quiet == /\ Attuned
         /\ running /\ view.alive
         /\ pending = NothingPending /\ inbox = <<>> /\ requests = <<>>
         /\ Idle

\* The threads of a contact one of whose threads was created again before the model
\* had handled its removal, since the rows were last queried. The contact may have
\* had two rows then, see OneRowPerConversation.
Disturbed == {t \in Threads : \E u \in returned : SameConversation(t, u)}

\* When everything has been handled each row is a conversation of the daemon's
\* cache, with the same threads and times and no thread less, although the rows
\* were made from answers about different states of it.
RowsAreConversations ==
    Quiet => \A i \in DOMAIN groups :
        LET copies == Range(groups[i].threads)
            k == keys[groups[i].shown.thread]
        IN  groups[i].shown.thread \notin Disturbed =>
                /\ k # NoKey
                /\ {[thread |-> copy.thread, time |-> copy.time] : copy \in copies}
                       = Range(conversations[k])

\* No thread has two rows, not even while a change is being handled.
RowsAreDisjoint ==
    Attuned => \A i, j \in DOMAIN groups :
        i # j => ThreadsIn(groups[i].threads) \cap ThreadsIn(groups[j].threads) \subseteq Disturbed

\* The rows are in the order of what they show.
RowsSorted ==
    Attuned /\ returned = {} =>
        \A i, j \in DOMAIN groups : i < j => groups[i].shown.time >= groups[j].shown.time

\* What one would want and does not hold (nor does a run check it): the threads of one
\* conversation are in one row. existingPositionForEntry finds the first row only.
OneRowPerConversation ==
    Quiet => \A i, j \in DOMAIN groups :
        (\E t \in ThreadsIn(groups[i].threads), u \in ThreadsIn(groups[j].threads) : keys[t] = keys[u])
            => i = j

\* A list of participants that was fetched misses no member of the room, in
\* whatever order the answer and the changes came, and however often the
\* thread's row was replaced since.
FetchedListsMissNobody ==
    Quiet => \A i \in DOMAIN groups : \A copy \in Range(groups[i].threads) :
        copy.thread \in fetched =>
            members[copy.thread] \subseteq {person[1] : person \in copy.people}

\* "If an empty list is returned, it means the end of results was reached":
\* when the model stops asking a view for pages nothing is left of it.
EmptyPageIsTheEnd ==
    Idle /\ view.connected /\ view.valid /\ ~more => view.rest = <<>>

\* Once every page was asked for every conversation has a row, unless it was
\* removed from before it had one.
EverythingIsShown ==
    Quiet /\ view.rest = <<>> => Stored \ (skipped \cup Disturbed) \subseteq OnModel(groups)

\* The rows are conversations of the service, no thread is in two of them, and
\* they are sorted (processThreadGrouping, updateDisplayedThread).
RowsFollowService == GroupedTypeOK /\ RowsAreConversations /\ RowsAreDisjoint /\ RowsSorted
=============================================================================
