----------------------------- MODULE SignalQueue -----------------------------
(***************************************************************************)
(* HistoryServiceDBus collects what the daemon's operations notify in six  *)
(* lists and sends them when nothing has been notified for 100 ms: always  *)
(* the threads before the events, and of each what was added, then         *)
(* modified, then removed, whatever order it happened in.                  *)
(***************************************************************************)
EXTENDS Sequences, SequencesExt

VARIABLES
    pending, \* mThreadsAdded .. mEventsRemoved
    timer,   \* mSignalsTimer: "off", "running" or "due" (its event is waiting)
    inbox    \* the messages on their way to the client, in the bus's order

signalQueue == <<pending, timer, inbox>>

SignalNames == {"threadsAdded", "threadsModified", "threadsRemoved",
                "eventsAdded", "eventsModified", "eventsRemoved"}

NothingPending == [name \in SignalNames |-> <<>>]

\* Mutant: a timer that runs is left to run, and one that is due is stopped.
NotifyOnce(lists) ==
    /\ pending' = [name \in SignalNames |-> pending[name] \o lists[name]]
    /\ timer' = IF timer = "off" THEN "running" ELSE "off"
    /\ UNCHANGED inbox

\* The notify...() calls of one operation; each restarts the timer.
Notify(lists) ==
    /\ pending' = [name \in SignalNames |-> pending[name] \o lists[name]]
    /\ timer' = IF \E name \in SignalNames : lists[name] # <<>> THEN "running" ELSE timer
    /\ UNCHANGED inbox

\* 100 ms without a notification.
Expire ==
    /\ timer = "running"
    /\ timer' = "due"
    /\ UNCHANGED <<pending, inbox>>

\* A list that is not empty becomes one signal.
SignalOf(name) == IF pending[name] = <<>> THEN <<>>
                  ELSE <<[signal |-> name, items |-> pending[name]]>>

\* The signals in the order of processSignals
Emitted == SignalOf("threadsAdded") \o SignalOf("threadsModified") \o SignalOf("threadsRemoved")
               \o SignalOf("eventsAdded") \o SignalOf("eventsModified") \o SignalOf("eventsRemoved")

\* Mutant: the timer, which repeats, is not stopped.
ProcessSignalsRepeating ==
    /\ timer = "due"
    /\ inbox' = inbox \o Emitted
    /\ pending' = NothingPending
    /\ timer' = "running"

\* timerEvent: killTimer and processSignals
ProcessSignals ==
    /\ timer = "due"
    /\ inbox' = inbox \o Emitted
    /\ pending' = NothingPending
    /\ timer' = "off"

\* The daemon dies with what it has not sent; the bus tells its clients.
LoseSignals ==
    /\ pending' = NothingPending
    /\ timer' = "off"
    /\ inbox' = Append(inbox, [signal |-> "serviceUnregistered", items |-> <<>>])

RegisterService ==
    /\ inbox' = Append(inbox, [signal |-> "serviceRegistered", items |-> <<>>])
    /\ UNCHANGED <<pending, timer>>

SignalQueueInit == /\ pending = NothingPending
                   /\ timer = "off"
                   /\ inbox = <<>>

\* What is pending has a timer that will send it, and a timer has something
\* to send: no notification is stranded.
NothingStranded == (pending = NothingPending) <=> (timer = "off")
=============================================================================
