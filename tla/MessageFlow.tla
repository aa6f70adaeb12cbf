---------------------------- MODULE MessageFlow ----------------------------
(***************************************************************************)
(* Text messages of one conversation between Telepathy, the daemon and a   *)
(* client that marks them as read.                                         *)
(*                                                                         *)
(* The daemon only observes the channel: messages and delivery reports     *)
(* stay in the channel's queue until its handler, another program,         *)
(* acknowledges them.  A daemon that starts while the channel exists is    *)
(* given it again and handles what is in the queue once more.              *)
(*                                                                         *)
(* The client's model keeps copies of the events it shows.  Marking one as *)
(* read queues its copy, and 500 ms later the whole event is written back. *)
(***************************************************************************)
EXTENDS Naturals, FiniteSets, Sequences, SequencesExt

CONSTANTS
    Received,      \* tokens of the messages that arrive
    OwnReceived,   \* those the user has sent from another device
    Sent,          \* tokens of the messages sent from this device
    Supersedes,    \* the message a received message replaces, or NoMessage
    SentStatus,    \* what a sent message starts with: "Unknown" if reports will come
    Reported,      \* the messages there can be delivery reports for
    Reports,       \* the statuses delivery reports bring
    NoMessage,
    NoRow,         \* no such event in text_events
    MaxReports,    \* bounds: delivery reports,
    MaxHappenings  \* faults (kills, closures of the channel, failed calls) and
                   \* requests of the user (marks, removals) together

Messages == Received \cup Sent
Statuses == Reports \cup {"Unknown", "Accepted", "Delivered", "Read"}
Rows == [status : Statuses, new : BOOLEAN]

ASSUME MessageAssumption ==
    /\ Received \cap Sent = {}
    /\ OwnReceived \subseteq Received /\ Reported \subseteq Sent \cup OwnReceived
    /\ Supersedes \in [Received -> Messages \cup {NoMessage}]
    /\ NoMessage \notin Messages
    /\ NoMessage \notin Statuses
    /\ SentStatus \in {"Unknown", "Accepted"}
    /\ MaxReports \in Nat /\ MaxHappenings \in Nat

ASSUME NoRowAssumption == NoRow \notin Rows

VARIABLES
    queue,       \* Telepathy: what arrived and is not acknowledged
    arrived,     \* how many items there have been about each message
    observer,    \* the daemon: "down", "preparing" (the channel) or "observing"
    inbox,       \* what the daemon has been told and has still to handle
    superseding, \* the message the running handler has still to remove
    rows,        \* the events of the conversation in text_events
    markQueue,   \* mEventWritingQueue: copies to be written back
    markTimer,   \* mEventWritingTimer runs
    threadTimer, \* the conversation is in mThreadWritingQueue, its timer runs
    threadCalls, \* MarkThreadsAsRead calls the daemon has not handled
    reports, faults, requests, \* how many so far
    settled,     \* history: the items about each message that were stored,
                 \* skipped, or lost where nothing could be done
    removed,     \* history: messages the user or a newer message has removed
    disturbed,   \* history: events that an outdated copy, an item handled
                 \* again or a removal that failed has left as they are
    writeFailed  \* history: did the client's last WriteEvents fail?

telepathy == <<queue, arrived, reports>>
client == <<markQueue, markTimer, threadTimer, threadCalls>>
vars == <<telepathy, observer, inbox, superseding, rows, client, faults, requests,
          settled, removed, disturbed, writeFailed>>

\* A bound, of the model only.
Happens == faults + requests < MaxHappenings
Fault == Happens /\ faults' = faults + 1

-----------------------------------------------------------------------------
(* Telepathy (external)                                                    *)

\* status = NoMessage: the message itself; a delivery report otherwise.
Item(m, id, status) == [token |-> m, id |-> id, status |-> status, rescued |-> FALSE]

Settled(items) ==
    settled' = [m \in Messages |-> settled[m] \cup {i.id : i \in {j \in items : j.token = m}}]

Arrive(item) ==
    /\ queue' = Append(queue, item)
    /\ arrived' = [arrived EXCEPT ![item.token] = item.id]
    /\ inbox' = IF observer = "observing" THEN Append(inbox, item) ELSE inbox
    /\ UNCHANGED <<observer, superseding, rows, client, faults, requests,
                   settled, removed, disturbed, writeFailed>>

ReceiveMessage(m) ==
    /\ m \in Received /\ arrived[m] = 0
    /\ Supersedes[m] # NoMessage => arrived[Supersedes[m]] > 0
    /\ Arrive(Item(m, 1, NoMessage))
    /\ UNCHANGED reports

ReceiveReport(m, status) ==
    /\ m \in Reported /\ arrived[m] > 0
    /\ reports < MaxReports
    /\ reports' = reports + 1
    /\ Arrive(Item(m, arrived[m] + 1, status))

\* A sent message is signalled and never queued.
SendMessage(m) ==
    /\ m \in Sent /\ arrived[m] = 0
    /\ arrived' = [arrived EXCEPT ![m] = 1]
    /\ IF observer = "observing"
       THEN inbox' = Append(inbox, Item(m, 1, NoMessage)) /\ UNCHANGED settled
       ELSE Settled({Item(m, 1, NoMessage)}) /\ UNCHANGED inbox
    /\ UNCHANGED <<queue, reports, observer, superseding, rows, client, faults, requests,
                   removed, disturbed, writeFailed>>

\* The handler acknowledges in any order, also while the daemon is down.
Acknowledge(i) ==
    /\ queue' = RemoveAt(queue, i)
    /\ Settled({queue[i]} \ ToSet(inbox))
    /\ UNCHANGED <<arrived, reports, observer, inbox, superseding, rows, client, faults,
                   requests, removed, disturbed, writeFailed>>

\* The channel is closed with messages in it: they come back as rescued in a
\* new channel. (What had been signalled before is handled before.)
CloseChannel ==
    /\ queue # <<>> /\ inbox = <<>> /\ superseding = NoMessage
    /\ Fault
    /\ queue' = [i \in DOMAIN queue |-> [queue[i] EXCEPT !.rescued = TRUE]]
    /\ observer' = IF observer = "down" THEN "down" ELSE "preparing"
    /\ UNCHANGED <<arrived, reports, inbox, superseding, rows, client, requests,
                   settled, removed, disturbed, writeFailed>>

-----------------------------------------------------------------------------
(* The daemon                                                              *)

\* Mutant: messages that are already pending are not handled.
ChannelReadyForNew ==
    /\ observer = "preparing"
    /\ observer' = "observing"
    /\ UNCHANGED <<telepathy, inbox, superseding, rows, client, faults, requests,
                   settled, removed, disturbed, writeFailed>>

\* onTextChannelReady and onTextChannelAvailable: the messages that are
\* already pending in the channel are handled first.
ChannelReady ==
    /\ observer = "preparing"
    /\ observer' = "observing"
    /\ inbox' = queue
    /\ UNCHANGED <<telepathy, superseding, rows, client, faults, requests,
                   settled, removed, disturbed, writeFailed>>

Handling(item) == /\ observer = "observing"
                  /\ superseding = NoMessage
                  /\ inbox # <<>>
                  /\ item = Head(inbox)
                  /\ inbox' = Tail(inbox)

Again(item) == \E id \in settled[item.token] : id >= item.id

\* writeEvents; the handlers go on if it fails.
Write(item, row) ==
    LET m == item.token
    IN  /\ Settled({item})
        /\ \/ /\ rows' = [rows EXCEPT ![m] = row]
              /\ disturbed' = IF Again(item) THEN disturbed \cup {m}
                              ELSE IF item.id = 1 THEN disturbed \ {m} ELSE disturbed
              /\ UNCHANGED faults
           \/ Fault /\ UNCHANGED <<rows, disturbed>>

\* onMessageReceived: a rescued message is ignored.
IgnoreRescued(item) ==
    /\ Handling(item)
    /\ item.rescued
    /\ Settled({item})
    /\ UNCHANGED <<telepathy, observer, superseding, rows, client, faults, requests,
                   removed, disturbed, writeFailed>>

\* onMessageReceived: the new message is written; a message it replaces is
\* removed afterwards, whether that has failed or not.
HandleMessage(item) ==
    /\ Handling(item)
    /\ ~item.rescued /\ item.status = NoMessage /\ item.token \in Received
    /\ Write(item, [status |-> IF item.token \in OwnReceived THEN "Delivered" ELSE "Unknown",
                    new |-> TRUE])
    /\ superseding' = Supersedes[item.token]
    /\ UNCHANGED <<telepathy, observer, client, requests, removed, writeFailed>>

\* onMessageSent
HandleSent(item) ==
    /\ Handling(item)
    /\ item.token \in Sent /\ item.status = NoMessage
    /\ Write(item, [status |-> SentStatus, new |-> FALSE])
    /\ UNCHANGED <<telepathy, observer, superseding, client, requests,
                   removed, writeFailed>>

\* getSingleEvent: what is stored about the message a report is for
Reporting(item) ==
    /\ Handling(item)
    /\ ~item.rescued /\ item.status # NoMessage
    /\ UNCHANGED <<telepathy, observer, superseding, client, requests,
                   removed, writeFailed>>

IsRead(row) == row # NoRow /\ row.status = "Read"
IsSeen(row) == row # NoRow /\ ~row.new

Skip(item) == Settled({item}) /\ UNCHANGED <<rows, faults, disturbed>>

\* Mutants of DeliveryReport: a report is stored as a new event if there is
\* none; the Read status is not looked at; the event becomes unread again.
DeliveryReportInserting(item) ==
    /\ Reporting(item)
    /\ Write(item, [status |-> item.status, new |-> FALSE])

DeliveryReportReverting(item) ==
    /\ Reporting(item)
    /\ \/ rows[item.token] = NoRow /\ Skip(item)
       \/ /\ rows[item.token] # NoRow
          /\ Write(item, [rows[item.token] EXCEPT !.status = item.status])

DeliveryReportUnseen(item) ==
    /\ Reporting(item)
    /\ \/ (rows[item.token] = NoRow \/ IsRead(rows[item.token])) /\ Skip(item)
       \/ /\ rows[item.token] # NoRow /\ ~IsRead(rows[item.token])
          /\ Write(item, [status |-> item.status, new |-> TRUE])

\* onMessageReceived: a delivery report changes the event's status, unless
\* there is no event or it has been read.
DeliveryReport(item) ==
    /\ Reporting(item)
    /\ \/ (rows[item.token] = NoRow \/ IsRead(rows[item.token])) /\ Skip(item)
       \/ /\ rows[item.token] # NoRow /\ ~IsRead(rows[item.token])
          /\ Write(item, [rows[item.token] EXCEPT !.status = item.status])

\* Mutant: the handler waits for an event to remove.
RemoveSupersededPresent ==
    /\ superseding # NoMessage
    /\ rows[superseding] # NoRow
    /\ rows' = [rows EXCEPT ![superseding] = NoRow]
    /\ disturbed' = disturbed \ {superseding}
    /\ removed' = removed \cup {superseding}
    /\ superseding' = NoMessage
    /\ UNCHANGED <<telepathy, observer, inbox, client, faults, requests,
                   settled, writeFailed>>

\* The end of onMessageReceived; the result of removeEvents is ignored.
RemoveSuperseded ==
    /\ superseding # NoMessage
    /\ \/ /\ rows' = [rows EXCEPT ![superseding] = NoRow]
          /\ disturbed' = disturbed \ {superseding}
          /\ UNCHANGED faults
       \/ /\ Fault
          /\ disturbed' = disturbed \cup {superseding}
          /\ UNCHANGED rows
    /\ removed' = removed \cup {superseding}
    /\ superseding' = NoMessage
    /\ UNCHANGED <<telepathy, observer, inbox, client, requests,
                   settled, writeFailed>>

\* MarkThreadsAsRead; an UPDATE that fails changes nothing.
HandleThreadMark ==
    /\ observer # "down" /\ superseding = NoMessage
    /\ threadCalls > 0
    /\ threadCalls' = threadCalls - 1
    /\ \/ /\ rows' = [m \in Messages |-> IF rows[m] = NoRow THEN NoRow
                                         ELSE [rows[m] EXCEPT !.new = FALSE]]
          /\ UNCHANGED faults
       \/ Fault /\ UNCHANGED rows
    /\ UNCHANGED <<telepathy, observer, inbox, superseding, markQueue, markTimer,
                   threadTimer, requests, settled, removed, disturbed, writeFailed>>

\* RemoveEvents, called for the user.
RemoveMessage(m) ==
    /\ observer # "down" /\ superseding = NoMessage
    /\ Happens
    /\ requests' = requests + 1
    /\ rows[m] # NoRow
    /\ rows' = [rows EXCEPT ![m] = NoRow]
    /\ removed' = removed \cup {m}
    /\ disturbed' = disturbed \ {m}
    /\ UNCHANGED <<telepathy, observer, inbox, superseding, client, faults,
                   settled, writeFailed>>

\* The process ends: what it was told is gone, also calls that wait in its
\* connection, and the rest of the running handler.
Crash ==
    /\ observer # "down"
    /\ Fault
    /\ observer' = "down"
    /\ inbox' = <<>>
    /\ Settled(ToSet(inbox) \ ToSet(queue))
    /\ superseding' = NoMessage
    /\ removed' = removed \cup ({superseding} \ {NoMessage})
    /\ disturbed' = disturbed \cup ({superseding} \ {NoMessage})
    /\ threadCalls' = 0
    /\ UNCHANGED <<telepathy, rows, markQueue, markTimer, threadTimer, requests,
                   writeFailed>>

\* The bus activates the daemon; the dispatcher gives it the channels that
\* exist, since it observes with recovery.
Restart ==
    /\ observer = "down"
    /\ observer' = "preparing"
    /\ UNCHANGED <<telepathy, inbox, superseding, rows, client, faults, requests,
                   settled, removed, disturbed, writeFailed>>

-----------------------------------------------------------------------------
(* The client                                                              *)

others == <<telepathy, observer, inbox, superseding, settled, removed>>

\* The client's copies change with signals and queries. A copy that is marked
\* late is here one that is marked at once and written late.
Copy(m) == [token |-> m, status |-> rows[m].status]
Marked == {copy.token : copy \in ToSet(markQueue)}

Mark(m, queued, timer) ==
    /\ Happens
    /\ requests' = requests + 1
    /\ rows[m] # NoRow
    /\ markQueue' = queued
    /\ markTimer' = timer
    /\ UNCHANGED <<others, rows, threadTimer, threadCalls, faults, disturbed, writeFailed>>

\* Mutants: the copies of one event pile up; the timer of an event that is
\* queued already is stopped and not started again.
MarkEventAsReadTwice(m) == Mark(m, Append(markQueue, Copy(m)), TRUE)

MarkEventAsReadStopping(m) ==
    IF m \in Marked THEN Mark(m, markQueue, FALSE)
    ELSE Mark(m, Append(markQueue, Copy(m)), TRUE)

\* markEventAsRead: of repeated events the last is kept (removeOne takes the
\* first out); the timer starts anew.
MarkEventAsRead(m) ==
    \/ m \notin Marked /\ Mark(m, Append(markQueue, Copy(m)), TRUE)
    \/ \E i \in DOMAIN markQueue :
          /\ markQueue[i].token = m
          /\ \A j \in 1 .. i - 1 : markQueue[j].token # m
          /\ Mark(m, Append(RemoveAt(markQueue, i), Copy(m)), TRUE)

\* timerEvent and the call of WriteEvents: each copy is committed by itself,
\* and the first that fails ends the call.
WriteMarks ==
    /\ markTimer
    /\ markTimer' = FALSE
    /\ \E n \in 0 .. Len(markQueue) :
          LET written == SubSeq(markQueue, 1, n)
              Written(m) == \E copy \in ToSet(written) : copy.token = m
              StatusOf(m) == (CHOOSE copy \in ToSet(written) : copy.token = m).status
          IN  /\ n > 0 => observer # "down" /\ superseding = NoMessage
              /\ rows' = [m \in Messages |->
                            IF Written(m) THEN [status |-> StatusOf(m), new |-> FALSE]
                            ELSE rows[m]]
              /\ disturbed' = disturbed \cup
                    {m \in Messages : Written(m) /\ (rows[m] # NoRow => rows[m].status # StatusOf(m))}
              /\ writeFailed' = (n < Len(markQueue))
              /\ IF n < Len(markQueue) THEN Fault ELSE UNCHANGED faults
              /\ markQueue' = IF n < Len(markQueue) THEN markQueue ELSE <<>>
    /\ UNCHANGED <<others, threadTimer, threadCalls, requests>>

\* markThreadsAsRead, and its timer
MarkThreadsAsRead ==
    /\ Happens
    /\ requests' = requests + 1
    /\ threadTimer' = TRUE
    /\ UNCHANGED <<others, rows, markQueue, markTimer, threadCalls, faults, disturbed,
                   writeFailed>>

CallMarkThreadsAsRead ==
    /\ threadTimer
    /\ threadTimer' = FALSE
    /\ threadCalls' = threadCalls + 1
    /\ UNCHANGED <<others, rows, markQueue, markTimer, faults, requests, disturbed,
                   writeFailed>>

-----------------------------------------------------------------------------
Init ==
    /\ queue = <<>> /\ arrived = [m \in Messages |-> 0]
    /\ observer = "preparing" /\ inbox = <<>> /\ superseding = NoMessage
    /\ rows = [m \in Messages |-> NoRow]
    /\ markQueue = <<>> /\ markTimer = FALSE
    /\ threadTimer = FALSE /\ threadCalls = 0
    /\ reports = 0 /\ faults = 0 /\ requests = 0
    /\ settled = [m \in Messages |-> {}] /\ removed = {} /\ disturbed = {} /\ writeFailed = FALSE

Telepathy ==
    \/ \E m \in Messages : ReceiveMessage(m)
    \/ \E m \in Messages : SendMessage(m)
    \/ \E m \in Messages, status \in Reports : ReceiveReport(m, status)
    \/ \E i \in DOMAIN queue : Acknowledge(i)
    \/ CloseChannel

Handle ==
    \/ \E item \in ToSet(inbox) : IgnoreRescued(item)
    \/ \E item \in ToSet(inbox) : HandleMessage(item)
    \/ \E item \in ToSet(inbox) : HandleSent(item)
    \/ \E item \in ToSet(inbox) : DeliveryReport(item)
    \/ RemoveSuperseded

User ==
    \/ \E m \in Messages : MarkEventAsRead(m)
    \/ MarkThreadsAsRead
    \/ \E m \in Messages : RemoveMessage(m)

Next ==
    \/ Telepathy \/ User \/ Handle
    \/ ChannelReady \/ Restart \/ Crash
    \/ WriteMarks \/ CallMarkThreadsAsRead \/ HandleThreadMark

\* Event loops handle what has arrived, timers fire, the bus starts a daemon
\* that is down. Nothing is assumed of Telepathy and the user.
Fairness ==
    /\ WF_vars(Handle) /\ WF_vars(ChannelReady) /\ WF_vars(Restart)
    /\ WF_vars(WriteMarks) /\ WF_vars(CallMarkThreadsAsRead) /\ WF_vars(HandleThreadMark)

Spec == Init /\ [][Next]_vars /\ Fairness

-----------------------------------------------------------------------------
(* Properties                                                              *)

\* At most one copy of an event waits to be written back; a handler that has
\* something to remove runs in a daemon that observes.
TypeOK ==
    /\ observer \in {"down", "preparing", "observing"}
    /\ superseding \in Messages \cup {NoMessage}
    /\ superseding # NoMessage => observer = "observing"
    /\ inbox # <<>> => observer = "observing"
    /\ rows \in [Messages -> Rows \cup {NoRow}]
    /\ \A item \in ToSet(queue) \cup ToSet(inbox) :
          item.token \in Messages /\ item.id \in 1 .. arrived[item.token]
    /\ \A i, j \in DOMAIN markQueue : markQueue[i].token = markQueue[j].token => i = j
    /\ Marked \subseteq Messages
    /\ markTimer \in BOOLEAN /\ threadTimer \in BOOLEAN /\ threadCalls \in Nat
    /\ settled \in [Messages -> SUBSET Nat]
    /\ removed \subseteq Messages /\ disturbed \subseteq Messages

\* When the daemon has handled all it was told, every message and report that
\* ever arrived has been dealt with, except those whose write failed, that
\* came back rescued, or that were acknowledged or sent behind its back: no
\* gap between the pending messages and the signals (onTextChannelAvailable).
NothingMissed ==
    observer = "observing" /\ inbox = <<>> =>
        \A m \in Messages : 1 .. arrived[m] \subseteq settled[m]

\* The Read status goes back only through a copy a client had kept or a message
\* handled again (onMessageReceived: "don't allow reverting the status").
ReadStatusKept ==
    [][\A m \in Messages :
          IsRead(rows[m]) /\ rows'[m] # NoRow => IsRead(rows'[m]) \/ m \in disturbed']_vars

\* What has been seen becomes unseen only when the message is handled again:
\* neither reports nor late marks undo it.
SeenStaysSeen ==
    [][\A m \in Messages :
          IsSeen(rows[m]) /\ rows'[m] # NoRow => IsSeen(rows'[m]) \/ m \in disturbed']_vars

\* A message the user or a newer message has removed has no event, unless an
\* old copy or a message handled again brings it back or its removal failed:
\* reports that come late do not.
RemovedStayRemoved == \A m \in removed : rows[m] = NoRow \/ m \in disturbed

\* Copies wait with a timer running, unless the last write failed: such copies
\* wait for the next mark (timerEvent starts no timer again).
MarksAreNotStranded == markQueue # <<>> => markTimer \/ writeFailed

\* The daemon comes back and handles all there is, whatever fails on the way,
\* and the client's timers stop.
EventuallySettled ==
    <>[](/\ observer = "observing" /\ inbox = <<>> /\ superseding = NoMessage
         /\ ~markTimer /\ ~threadTimer /\ threadCalls = 0)

\* A status neither loses its Read nor becomes unseen again by reports that come
\* in another order, by late marks or by their retries (onMessageReceived).
StatusesAreKept == ReadStatusKept /\ SeenStaysSeen

\* The queues and handlers are well-formed, and no mark is left in a queue that
\* nothing will write (HistoryModel's markQueue and its timer).
QueuesAreServed == TypeOK /\ MarksAreNotStranded
=============================================================================
