------------------------------ MODULE EventLog ------------------------------
(***************************************************************************)
(* What the daemon's storage promises: a log of events in threads that     *)
(* changes by one event, one thread or the read marks of one thread at a   *)
(* time, whose summaries always follow from its events, and which a crash  *)
(* or a failure can only take back to what was saved.                      *)
(*                                                                         *)
(* HistoryStore implements it with stored summaries that triggers keep,    *)
(* statements, transactions and batches.                                   *)
(***************************************************************************)
EXTENDS Integers, FiniteSets

CONSTANTS
    Events,    \* the events there can be
    Threads,   \* the threads there can be
    ThreadOf,  \* the thread of an event
    Uncounted, \* events that do not count in a summary
    Stamp      \* the timestamp of an event

VARIABLES
    visible,   \* the log clients see
    saved      \* the log that survives a crash

vars == <<visible, saved>>

-----------------------------------------------------------------------------
\* The newest timestamp, or 0 without an event.
NewestStamp(events) ==
    LET newest == {e \in events : \A f \in events : Stamp[f] <= Stamp[e]}
    IN  IF newest = {} THEN 0 ELSE Stamp[CHOOSE e \in newest : TRUE]

Summarize(counted, unread) ==
    [count |-> Cardinality(counted),
     unread |-> Cardinality(counted \cap unread),
     newest |-> NewestStamp(counted)]

\* A log is its threads, events and unread events; the rest follows.
LogWith(threads, events, unread) ==
    [threads |-> threads, events |-> events, unread |-> unread,
     summary |-> [t \in threads |->
                     Summarize({e \in events : ThreadOf[e] = t} \ Uncounted, unread)]]

EmptyLog == LogWith({}, {}, {})

-----------------------------------------------------------------------------
(* The changes                                                             *)

\* An event is added or replaced, in a thread that is there.
Put(log, e, new) ==
    LogWith(log.threads, log.events \cup {e},
            IF new THEN log.unread \cup {e} ELSE log.unread \ {e})

Remove(log, e) == LogWith(log.threads, log.events \ {e}, log.unread \ {e})

MarkRead(log, t) ==
    LogWith(log.threads, log.events, {e \in log.unread : ThreadOf[e] # t})

Open(log, t) == LogWith(log.threads \cup {t}, log.events, log.unread)

\* A thread goes with its events.
Drop(log, t) ==
    LogWith(log.threads \ {t}, {e \in log.events : ThreadOf[e] # t},
            {e \in log.unread : ThreadOf[e] # t})

Change(old, new) ==
    \/ \E e \in old.events : new = Remove(old, e)
    \/ \E e \in Events, unread \in BOOLEAN : ThreadOf[e] \in old.threads /\ new = Put(old, e, unread)
    \/ \E t \in old.threads : new = MarkRead(old, t) \/ new = Drop(old, t)
    \/ \E t \in Threads \ old.threads : new = Open(old, t)

-----------------------------------------------------------------------------
Init == visible = EmptyLog /\ saved = EmptyLog

\* One change; it is saved at once, with all that was not, or not yet.
ChangeLog == /\ Change(visible, visible')
             /\ saved' \in {saved, visible'}

Save == saved' = visible /\ UNCHANGED visible

\* A failure or a crash.
Revert == visible' = saved /\ UNCHANGED saved

Next == ChangeLog \/ Save \/ Revert

Spec == Init /\ [][Next]_vars
=============================================================================
