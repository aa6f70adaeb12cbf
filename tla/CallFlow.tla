------------------------------ MODULE CallFlow ------------------------------
(***************************************************************************)
(* Calls, from the channel the dispatcher hands over to the voice event.   *)
(*                                                                         *)
(* The ChannelObserver is given channels in batches, each with a context   *)
(* it has to finish once all channels of the batch are ready.  A ready     *)
(* call goes to the CallChannelObserver, which follows its state; when it  *)
(* ends, the daemon finds or creates the thread of its participants and    *)
(* writes the call.                                                        *)
(*                                                                         *)
(* Telepathy goes its own way: a call may end before it is ready, its      *)
(* connection may drop, and the daemon may be killed and be given the      *)
(* calls that still exist once more.                                       *)
(***************************************************************************)
EXTENDS ThreadLookup

CONSTANTS
    Calls,           \* call channels
    TextChannels,    \* text channels that come in the same batches
    FlashMessages,   \* and text channels the observer is to skip
    Contexts,        \* invocation contexts of observeChannels
    Batch,           \* [Contexts -> SUBSET Channels]
    CallWith,        \* [Calls -> Chats]: what the channel says of itself
    Incoming,        \* the calls that are not requested
    RemoteMembers,   \* [Calls -> whom the call interface names]
    NoTime, NoState, NoContext,
    MaxTime, MaxKills  \* bounds

Channels == Calls \cup TextChannels \cup FlashMessages
\* Telepathy's PendingInitiator and Initialising, before the call rings, are one state here
CallStates == {"Initialising", "Initialised", "Accepted", "Active", "Ended"}
Unanswered == {"Initialising", "Initialised"}
Times == 0 .. MaxTime

ASSUME CallAssumption ==
    /\ Batch \in [Contexts -> SUBSET Channels]
    /\ \A c, d \in Contexts : c # d => Batch[c] \cap Batch[d] = {}
    /\ CallWith \in [Calls -> {c \in Chats : c.type = "Voice"}]
    /\ Incoming \subseteq Calls
    /\ RemoteMembers \in [Calls -> Lists]
    /\ NoTime \notin Times /\ NoState \notin CallStates /\ NoContext \notin Contexts
    /\ MaxTime \in Nat /\ MaxKills \in Nat

VARIABLES
    clock,       \* the time in seconds
    state,       \* Telepathy: the state of each call, NoState before it exists
    reason,      \* why it has ended
    answeredAt,  \* history: when each call became active
    up,          \* the daemon runs
    kills,
    mContexts,   \* ChannelObserver: the context each channel is observed for
    mReadyMap,   \* channels that are being prepared
    finished,    \* contexts that are finished
    mCallStates, \* CallChannelObserver: the last state seen, NoState if it is not followed
    timestamp,   \* channel property: when it became available
    activeTimestamp, \* channel property: when the call became active
    calls        \* the table voice_events

telepathy == <<state, reason, answeredAt>>
observer == <<mContexts, mReadyMap, finished>>
follower == <<mCallStates, timestamp, activeTimestamp>>
callVars == <<clock, telepathy, up, kills, observer, follower, calls, tables>>

VoiceEvents == [thread : Keys, at : Times, incoming : BOOLEAN, missed : BOOLEAN, new : BOOLEAN,
                duration : 0 .. MaxTime, with : Ids]

CallInit ==
    /\ LookupInit
    /\ clock = 0 /\ up = TRUE /\ kills = 0 /\ calls = {}
    /\ state = [c \in Calls |-> NoState] /\ reason = [c \in Calls |-> "None"]
    /\ answeredAt = [c \in Calls |-> NoTime]
    /\ mContexts = [ch \in Channels |-> NoContext] /\ mReadyMap = {} /\ finished = {}
    /\ mCallStates = [c \in Calls |-> NoState]
    /\ timestamp = [c \in Calls |-> NoTime] /\ activeTimestamp = [c \in Calls |-> NoTime]

-----------------------------------------------------------------------------
(* The ChannelObserver                                                     *)

Alive(ch) == ch \in Calls => state[ch] # "Ended"
Observed(context) == {ch \in Batch[context] \ FlashMessages : Alive(ch)}

(* observeChannels: the dispatcher hands over what a batch still contains; *)
(* a call exists from then on.                                             *)
ObserveChannels(context) ==
    /\ up /\ context \notin finished
    /\ \A ch \in Batch[context] : mContexts[ch] # context
    /\ Observed(context) # {}
    /\ state' = [c \in Calls |-> IF c \in Batch[context] /\ state[c] = NoState
                                 THEN "Initialising" ELSE state[c]]
    /\ mContexts' = [ch \in Channels |-> IF ch \in Observed(context) THEN context ELSE mContexts[ch]]
    /\ mReadyMap' = mReadyMap \cup Observed(context)
    /\ UNCHANGED <<clock, reason, answeredAt, up, kills, finished, follower, calls, tables>>

(* Mistakes for the checks of the properties: the first ready channel      *)
(* finishes the context, or the channel is looked for before it is removed.*)
FinishAlways(ch) ==
    /\ mContexts' = [mContexts EXCEPT ![ch] = NoContext]
    /\ finished' = finished \cup {mContexts[ch]}
FinishBeforeRemove(ch) ==
    /\ mContexts' = [mContexts EXCEPT ![ch] = NoContext]
    /\ finished' = IF \E other \in Channels : mContexts[other] = mContexts[ch]
                   THEN finished ELSE finished \cup {mContexts[ch]}

checkContextFinished(ch) ==
    /\ mContexts' = [mContexts EXCEPT ![ch] = NoContext]
    /\ finished' = IF \E other \in Channels \ {ch} : mContexts[other] = mContexts[ch]
                   THEN finished ELSE finished \cup {mContexts[ch]}

\* mistake: a call is taken to be new when it becomes available
FollowInitialised(c) == mCallStates' = [mCallStates EXCEPT ![c] = "Initialised"]

\* onCallChannelAvailable: from here on every change of the state is seen
Follow(c) == mCallStates' = [mCallStates EXCEPT ![c] = state[c]]

onCallChannelReady(c) ==
    /\ c \in mReadyMap
    /\ mReadyMap' = mReadyMap \ {c}
    /\ timestamp' = [timestamp EXCEPT ![c] = clock]
    /\ activeTimestamp' = [activeTimestamp EXCEPT ![c] = IF state[c] = "Active" THEN clock ELSE @]
    /\ Follow(c)
    /\ checkContextFinished(c)
    /\ UNCHANGED <<clock, telepathy, up, kills, calls, tables>>

\* what becomes of a text channel then is MessageFlow's and RoomState's subject
onTextChannelReady(ch) ==
    /\ ch \in mReadyMap
    /\ mReadyMap' = mReadyMap \ {ch}
    /\ checkContextFinished(ch)
    /\ UNCHANGED <<clock, telepathy, up, kills, follower, calls, tables>>

-----------------------------------------------------------------------------
(* The CallChannelObserver and the end of a call                           *)

\* mistakes: only the reason is looked at, a duration from when the call was seen
MissedByReason(c) == c \in Incoming /\ reason[c]' = "NoAnswer"
DurationSinceSeen(c, missed) == IF missed THEN 0 ELSE clock - timestamp[c]

Missed(c) ==
    /\ c \in Incoming
    /\ reason[c]' = "NoAnswer" \/ mCallStates[c] = "Initialised"

Duration(c, missed) ==
    IF missed \/ activeTimestamp[c] = NoTime THEN 0 ELSE clock - activeTimestamp[c]

Event(c, thread) ==
    [thread |-> thread, at |-> timestamp[c], incoming |-> c \in Incoming, missed |-> Missed(c),
     new |-> Missed(c), duration |-> Duration(c, Missed(c)), with |-> RemoteMembers[c][1]]

\* writeVoiceEvent: the event's id is its thread and the second the call was first seen
Write(event) ==
    calls' = {e \in calls : e.thread # event.thread \/ e.at # event.at} \cup {event}

onCallEnded(c) ==
    IF RemoteMembers[c] = <<>> THEN UNCHANGED <<calls, tables>>
    ELSE LET numbers == ChannelMatchesNumbers(CallWith[c].account)
         IN /\ FindOrCreate(CallWith[c], CallWith[c].of, numbers)
            /\ Write(Event(c, FoundOrCreated(CallWith[c], numbers)))

FollowState(c, new) == mCallStates' = [mCallStates EXCEPT ![c] = new]
ForgetState(c) == mCallStates' = [mCallStates EXCEPT ![c] = NoState]

\* onCallStateChanged
StateChanged(c, new) ==
    IF new = "Ended" THEN /\ ForgetState(c)
                          /\ UNCHANGED activeTimestamp
                          /\ onCallEnded(c)
    ELSE /\ FollowState(c, new)
         /\ activeTimestamp' = [activeTimestamp EXCEPT ![c] = IF new = "Active" THEN clock ELSE @]
         /\ UNCHANGED <<calls, tables>>

Following(c) == up /\ mCallStates[c] # NoState

\* Telepathy (external): a call rings, is accepted, becomes active, ends for some reason
Succeeds(new, old) ==
    \/ new = "Initialised" /\ old = "Initialising"
    \/ new = "Accepted" /\ old = "Initialised"
    \/ new = "Active" /\ old \in Unanswered \cup {"Accepted"}
    \/ new = "Ended" /\ old \in CallStates \ {"Ended"}

ChangeState(c, new, why) ==
    /\ Succeeds(new, state[c])
    /\ why = "NoAnswer" => new = "Ended" /\ state[c] \in Unanswered
    /\ state' = [state EXCEPT ![c] = new]
    /\ reason' = [reason EXCEPT ![c] = why]
    /\ answeredAt' = [answeredAt EXCEPT ![c] = IF new = "Active" THEN clock ELSE @]
    /\ IF Following(c) THEN StateChanged(c, new)
       ELSE UNCHANGED <<mCallStates, activeTimestamp, calls, tables>>
    /\ UNCHANGED <<clock, up, kills, observer, timestamp>>

\* the connection drops: the channel is invalidated without a last state
onChannelInvalidated(c) ==
    /\ state[c] \in CallStates \ {"Ended"}
    /\ state' = [state EXCEPT ![c] = "Ended"]
    /\ reason' = [reason EXCEPT ![c] = "Dropped"]
    /\ UNCHANGED <<clock, answeredAt, up, kills, observer, follower, calls, tables>>

-----------------------------------------------------------------------------
(* The user removes a thread, which the cascade empties; time; the process *)

RemoveCalls ==
    /\ up
    /\ RemoveThread
    /\ calls' = {e \in calls : getSingleThread(tables', e.thread) # NoThread}
    /\ UNCHANGED <<clock, telepathy, up, kills, observer, follower>>

AskForThread ==
    /\ up
    /\ ClientAsks({c \in Chats : c.type = "Voice"})
    /\ UNCHANGED <<clock, telepathy, up, kills, observer, follower, calls>>

Tick ==
    /\ clock < MaxTime
    /\ clock' = clock + 1
    /\ UNCHANGED <<telepathy, up, kills, observer, follower, calls, tables>>

\* everything the process knows is gone, also the channel's properties
Kill ==
    /\ up /\ kills < MaxKills
    /\ up' = FALSE /\ kills' = kills + 1
    /\ mContexts' = [ch \in Channels |-> NoContext] /\ mReadyMap' = {} /\ finished' = {}
    /\ mCallStates' = [c \in Calls |-> NoState]
    /\ timestamp' = [c \in Calls |-> NoTime] /\ activeTimestamp' = [c \in Calls |-> NoTime]
    /\ UNCHANGED <<clock, telepathy, calls, tables>>

Restart ==
    /\ ~up /\ up' = TRUE
    /\ UNCHANGED <<clock, telepathy, kills, observer, follower, calls, tables>>

Ready(ch) == IF ch \in Calls THEN onCallChannelReady(ch) ELSE onTextChannelReady(ch)

CallNext ==
    \/ \E context \in Contexts : ObserveChannels(context)
    \/ \E ch \in Channels : Ready(ch)
    \/ \E c \in Calls, new \in CallStates, why \in {"None", "NoAnswer"} : ChangeState(c, new, why)
    \/ \E c \in Calls : onChannelInvalidated(c)
    \/ RemoveCalls \/ AskForThread \/ Tick \/ Kill \/ Restart

\* a pending operation finishes, well or not, also when its channel is gone
CallSpec ==
    /\ CallInit /\ [][CallNext]_callVars
    /\ \A ch \in Channels : WF_callVars(Ready(ch))

-----------------------------------------------------------------------------
(* Properties                                                              *)

(* Every variable has its type, a prepared channel has a context, and the  *)
(* calls that are followed have been timed.                                *)
CallTypeOK ==
    /\ LookupTypeOK
    /\ clock \in Times /\ up \in BOOLEAN /\ kills \in 0 .. MaxKills
    /\ state \in [Calls -> CallStates \cup {NoState}]
    /\ mContexts \in [Channels -> Contexts \cup {NoContext}]
    /\ mReadyMap = {ch \in Channels : mContexts[ch] # NoContext}
    /\ mCallStates \in [Calls -> CallStates \cup {NoState}]
    /\ \A c \in Calls : mCallStates[c] # NoState => timestamp[c] \in Times
    /\ calls \subseteq VoiceEvents

(* A context is finished only when all its channels are ready, so that the *)
(* dispatcher does not go on to a handler that could close a channel the   *)
(* daemon has not seen.                                                    *)
FinishedMeansReady ==
    \A context \in finished : \A ch \in Channels : mContexts[ch] # context

(* And it is finished at last, which the dispatcher waits for, although    *)
(* calls end and connections drop while channels are prepared.             *)
ContextsAreFinished ==
    \A context \in Contexts :
        (\E ch \in Channels : mContexts[ch] = context) ~> (context \in finished \/ ~up)

(* What the step that ends c writes: a missed and unseen call if it rang   *)
(* and nobody has answered.  One that ends before it rings is missed only  *)
(* if Telepathy says that nobody answered.                                 *)
RecordedAs(c, e) ==
    /\ e.at = timestamp[c] /\ getSingleThread(tables', e.thread) = e.thread
    /\ (answeredAt[c] # NoTime => ~e.missed)
    /\ (c \in Incoming /\ (state[c] = "Initialised" \/ reason'[c] = "NoAnswer")) =>
           (e.missed /\ e.new)

ThreadOf(c, thread) ==
    /\ thread.account = CallWith[c].account /\ thread.type = "Voice"
    /\ IsThreadOf(tables', thread, CallWith[c].of, ChannelMatchesNumbers(CallWith[c].account))

Ends(c) == mCallStates[c] # NoState /\ mCallStates'[c] = NoState /\ up'

(* A call the daemon has followed to its end is stored, in a thread of its *)
(* account that exists and has the call's participants, as a missed and    *)
(* unseen one if it rang and nobody has answered it.                       *)
EndedCallsAreStored ==
    [][\A c \in Calls :
          (Ends(c) /\ RemoteMembers[c] # <<>>) =>
              \E e \in calls' : RecordedAs(c, e) /\ ThreadOf(c, e.thread)]_callVars

(* No call lasts longer in the history than it did: the time between the   *)
(* last moment it can have become active and now covers its duration, and  *)
(* a call nobody has answered has none, whatever was seen of it.           *)
DurationsAreTrue ==
    [][\A e \in calls' \ calls :
          \E c \in Calls :
              /\ state[c] # "Ended" /\ state'[c] = "Ended" /\ timestamp[c] = e.at
              /\ IF answeredAt[c] = NoTime THEN e.duration = 0
                 ELSE e.duration <= clock - answeredAt[c]]_callVars

(* Finished calls are not followed any more, and a call that is followed   *)
(* is known in its present state, unless it ended before it was ready or   *)
(* its connection dropped: such a call stays with the observer for good    *)
(* and is in no history.                                                   *)
FollowedCallsAreCurrent ==
    \A c \in Calls :
        (Following(c) /\ reason[c] # "Dropped") => mCallStates[c] = state[c]

\* The maps are well-formed, and mCallStates follows the calls it has.
CallsAreFollowed == CallTypeOK /\ FollowedCallsAreCurrent

\* Every call that was followed is recorded, with the duration it had
\* (onCallEnded).
CallsAreRecorded == EndedCallsAreStored /\ DurationsAreTrue
=============================================================================
