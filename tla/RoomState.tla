----------------------------- MODULE RoomState -----------------------------
(***************************************************************************)
(* What the daemon stores about one chat room: its row in threads, the     *)
(* rows in thread_participants, the row in chat_room_info and the          *)
(* information events of the conversation, as the room's text channel      *)
(* appears, changes and is closed.                                         *)
(*                                                                         *)
(* Three views of the room move at different times.  The service that      *)
(* runs the room changes roles and properties and signals that on the bus. *)
(* TelepathyQt keeps a copy of the members for the daemon, and changes it  *)
(* only between two handlers.  The database changes statement by           *)
(* statement as the handlers run, and the daemon may be killed between two *)
(* statements; it is then started again and is given the channel if there  *)
(* still is one.                                                           *)
(***************************************************************************)
EXTENDS Naturals, Sequences

CONSTANTS
    Contacts,            \* the other people
    Self,
    Subjects,            \* what the room can be about, NoSubject is among them
    NoSubject,
    NoThread,            \* there is no row in threads
    Title,               \* stands for the room in the log of information events
    Nothing,             \* no information event yet
    Protocols,           \* what the room may be on
    MaxChannels,         \* bounds: channels opened, and moves of members,
    MaxHappenings        \* changes of the room, kills and removals together

Users == Contacts \cup {Self}
MemberStates == {"Regular", "LocalPending", "RemotePending"}
SelfStates == {"Pending", "Member", "Removed"}
LeaveTypes == {"SelfLeaving", "SelfKicked", "GroupGone"}
ContactEvents == {"Joined", "InvitationSent", "Leaving"}

\* What the rows of chat_room_info and of thread_participants can hold.
InfoTypes == [subject : Subjects, persistent : BOOLEAN, joined : BOOLEAN, selfAdmin : BOOLEAN]
RowTypes == [id : Contacts, state : MemberStates, admin : BOOLEAN]

ASSUME RoomAssumption ==
    /\ Self \notin Contacts /\ Title \notin Contacts \cup {Self}
    /\ NoSubject \in Subjects
    /\ NoThread \notin InfoTypes /\ \A roles \in SUBSET Users : roles # NoThread
    /\ Nothing \notin ContactEvents \cup LeaveTypes \cup {"SelfJoined"}
    /\ Protocols \subseteq {"ofono", "irc", "jabber"}
    /\ MaxChannels \in Nat /\ MaxHappenings \in Nat

VARIABLES
    service,  \* the room itself: its protocol, admins, subject, is it persistent?
    signals,  \* RolesChanged and PropertiesChanged signals on their way
    channel,  \* TelepathyQt: is the channel open, who is a member, and we
    observed, \* the daemon has been given the channel
    listening,\* whose signals it receives: "roles", "properties", "members"
    at,       \* the next step of the running handler, or "idle"
    fresh,    \* have the participants been rewritten since `observed'?
    rolesMap, \* mRolesMap[channel]: the known admins, or NoThread
    info,     \* the row in chat_room_info, or NoThread (as in threads)
    rows,     \* how many rows of each content are in thread_participants
    told,     \* the thread as last announced to the clients
    channels, happenings, \* how many so far
    last,     \* history: the last information event about each user and the title
    repeated, \* history: those that got the same event twice in a row
    silent,   \* history: those whose membership changed without an event
    lost,     \* history: whose role changed between getRoles and connect
    granted,  \* history: those said to have become admin and known to be one since
    torn      \* history: has a handler been cut off, or its thread removed?

world == <<service, signals, channel>>
daemon == <<observed, listening, at, fresh, rolesMap>>
tables == <<info, rows, told>>
bounds == <<channels, happenings>>
history == <<last, repeated, silent, lost, granted, torn>>
vars == <<world, daemon, tables, bounds, history>>

\* A bound, of the model only.
Happens == happenings < MaxHappenings /\ happenings' = happenings + 1

-----------------------------------------------------------------------------
(* The database and what is announced                                      *)

\* shouldIncludeParticipants, and the protocol of telephones.
IncludeParticipants == service.protocol # "irc"
Phone == service.protocol = "ofono"

Row(u, state, admin) == [id |-> u, state |-> state, admin |-> admin]
NoRows == [r \in RowTypes |-> 0]
Stored == {r \in RowTypes : rows[r] > 0}

Members == DOMAIN channel.members

\* What a client gets from getSingleThread.
Thread(i, r) ==
    IF i = NoThread THEN NoThread
    ELSE [info |-> i, participants |-> IF IncludeParticipants THEN r ELSE NoRows]
Announce == told' = Thread(info', rows')

\* The participants of a thread that has been read from the database.
Participants == IF IncludeParticipants THEN Stored ELSE {}
FoundInThread(u) == \E p \in Participants : p.id = u
FoundAsMemberInThread(u) == \E p \in Participants : p.id = u /\ p.state = "Regular"

\* The information events of one step: at most one about each user.
WriteInformationEvents(events) ==
    /\ last' = [u \in Users \cup {Title} |-> IF u \in DOMAIN events THEN events[u] ELSE last[u]]
    /\ repeated' = repeated \cup {<<u, last[u]>> : u \in {v \in DOMAIN events : events[v] = last[v]}}

\* Just one.
WriteInformationEvent(u, event) == WriteInformationEvents([v \in {u} |-> event])

NoEvents == UNCHANGED <<last, repeated>>

ParticipantIds == IF IncludeParticipants THEN Members ELSE {}

\* createThreadForProperties: the ids come without state and roles. The rows
\* there may be already are left alone.
CreateThread ==
    /\ info' = [subject |-> service.subject, persistent |-> service.persistent,
                joined |-> FALSE, selfAdmin |-> FALSE]
    /\ rows' = [r \in RowTypes |->
                   rows[r] + IF r \in {Row(u, "Regular", FALSE) : u \in ParticipantIds} THEN 1 ELSE 0]

\* Mutant: getRoles is never called.
KnownRolesOnly == IF rolesMap = NoThread THEN {} ELSE rolesMap

\* The roles updateRoomParticipants uses: those it knows or getRoles.
KnownRoles == IF rolesMap = NoThread THEN service.admins ELSE rolesMap

ChannelRows(admins) ==
    [r \in RowTypes |->
        IF r \in {Row(u, channel.members[u], u \in admins) : u \in Members} THEN 1 ELSE 0]

\* Mutant: the old rows are not deleted.
UpdateRoomParticipantsAdding(notify) ==
    /\ rows' = [r \in RowTypes |-> rows[r] + ChannelRows(KnownRoles)[r]]
    /\ rolesMap' = KnownRoles /\ granted' = granted \cap KnownRoles
    /\ fresh' = TRUE
    /\ IF notify THEN Announce ELSE UNCHANGED told

UpdateRoomParticipants(notify) ==
    /\ rows' = ChannelRows(KnownRoles)
    /\ rolesMap' = KnownRoles /\ granted' = granted \cap KnownRoles
    /\ fresh' = TRUE
    /\ IF notify THEN Announce ELSE UNCHANGED told

\* An UPDATE changes no row when there is none; what is announced then is empty.
UpdateRoomInfo(key, value, notify) ==
    /\ info' = IF info = NoThread THEN NoThread ELSE [info EXCEPT ![key] = value]
    /\ IF notify THEN Announce ELSE UNCHANGED told

-----------------------------------------------------------------------------
(* The room and TelepathyQt (external)                                     *)

NoOne == [u \in {} |-> "Regular"]

OpenChannel ==
    /\ ~channel.open /\ ~observed /\ channels < MaxChannels
    /\ channels' = channels + 1
    /\ \E present \in SUBSET Contacts, self \in {"Pending", "Member"} :
       \E members \in [present -> {"Regular", "RemotePending"}] :
          channel' = [open |-> TRUE, self |-> self, members |-> members]
    /\ silent' = silent \cup (DOMAIN channel'.members \ Members) \cup (Members \ DOMAIN channel'.members)
    /\ UNCHANGED <<service, signals, daemon, tables, happenings,
                   last, repeated, lost, granted, torn>>

Without(u) == [v \in Members \ {u} |-> channel.members[v]]
With(u, state) == [v \in Members \cup {u} |-> IF v = u THEN state ELSE channel.members[v]]

Arrival == [Regular |-> "Joined", RemotePending |-> "InvitationSent", LocalPending |-> Nothing]

ContactMove(u, members, event) ==
    [who |-> u, members |-> members, self |-> channel.self, event |-> event]
SelfMove(s, event) ==
    [who |-> Self, members |-> channel.members, self |-> s, event |-> event]

\* Who may come, be accepted, go or be invited, and what groupMembersChanged
\* then says; and the same for us.
Moves ==
    LET waiting == {u \in Members : channel.members[u] # "Regular"}
    IN     {ContactMove(u, With(u, s), Arrival[s]) : u \in Contacts \ Members, s \in MemberStates}
      \cup {ContactMove(u, With(u, "Regular"), "Joined") : u \in waiting}
      \cup {ContactMove(u, Without(u), "Leaving") : u \in Members}
      \cup (IF channel.self = "Pending" THEN {SelfMove("Member", Nothing)} ELSE {})
      \cup (IF channel.self # "Removed" THEN {SelfMove("Removed", "Leaving")} ELSE {})

Move(m) ==
    /\ Happens /\ channel.open
    /\ channel' = [channel EXCEPT !.members = m.members, !.self = m.self]

\* Members change before the daemon listens to it.
MoveUnseen ==
    /\ "members" \notin listening /\ at = "idle"
    /\ \E m \in Moves : Move(m) /\ silent' = silent \cup {m.who}
    /\ UNCHANGED <<service, signals, daemon, tables, channels,
                   last, repeated, lost, granted, torn>>

\* Delivered only to those who have subscribed, in the order they are sent.
Signal(interface, signal) ==
    signals' = IF interface \in listening THEN Append(signals, signal) ELSE signals

ChangeRole(u) ==
    /\ Happens
    /\ LET admin == u \notin service.admins
       IN  /\ service' = [service EXCEPT !.admins =
                             IF admin THEN @ \cup {u} ELSE @ \ {u}]
           /\ Signal("roles", [kind |-> "roles", who |-> u, admin |-> admin])
           /\ granted' = IF admin THEN granted ELSE granted \ {u}
    /\ lost' = IF "roles" \notin listening /\ rolesMap # NoThread
               THEN lost \cup {u} ELSE lost
    /\ UNCHANGED <<channel, daemon, tables, channels,
                   last, repeated, silent, torn>>

ChangeSubject(s) ==
    /\ Happens
    /\ s # service.subject
    /\ service' = [service EXCEPT !.subject = s]
    /\ Signal("properties", [kind |-> "properties", subject |-> s])
    /\ UNCHANGED <<channel, daemon, tables, channels, history>>

\* The channel is closed while the daemon is down or has not been given it.
CloseUnseen ==
    /\ channel.open /\ ~observed /\ at = "idle"
    /\ channel' = [open |-> FALSE, self |-> "Removed", members |-> NoOne]
    /\ silent' = silent \cup {Self} \cup Members
    /\ UNCHANGED <<service, signals, daemon, tables, bounds,
                   last, repeated, lost, granted, torn>>

-----------------------------------------------------------------------------
(* A channel becomes available                                             *)

TextChannelAvailable ==
    /\ channel.open /\ ~observed /\ at = "idle"
    /\ observed' = TRUE
    /\ IF info = NoThread
       THEN CreateThread /\ Announce /\ at' = "participants"
       ELSE UNCHANGED tables /\ at' = IF info.joined THEN "monitor" ELSE "selfJoined"
    /\ fresh' = FALSE
    /\ silent' = IF channel.self = "Removed" THEN silent \cup {Self} ELSE silent \ {Self}
    /\ UNCHANGED <<world, listening, rolesMap, bounds, last, repeated, lost, granted, torn>>

\* Only for a thread that has just been created.
InitialParticipants ==
    /\ at = "participants"
    /\ WriteInformationEvents(
           [u \in {v \in Members : channel.members[v] = "RemotePending"} |-> "InvitationSent"])
    /\ UpdateRoomParticipants(FALSE)
    /\ at' = "selfJoined"
    /\ UNCHANGED <<world, observed, listening, info, bounds, silent, lost, torn>>

SelfJoined ==
    /\ at = "selfJoined"
    /\ IF Phone
       THEN NoEvents /\ UNCHANGED told
       ELSE WriteInformationEvent(Self, "SelfJoined") /\ told' = Thread(info, rows)
    /\ at' = "joined"
    /\ UNCHANGED <<world, observed, listening, fresh, rolesMap, info, rows, bounds,
                   silent, lost, granted, torn>>

SetJoined ==
    /\ at = "joined"
    /\ UpdateRoomInfo("joined", TRUE, FALSE)
    /\ fresh' = TRUE
    /\ at' = "monitor"
    /\ UNCHANGED <<world, observed, listening, rolesMap, rows, bounds, history>>

\* Mutant: setMonitorProperties is forgotten.
MonitorNothing ==
    /\ at = "monitor"
    /\ at' = "connect"
    /\ UNCHANGED <<world, observed, listening, fresh, rolesMap, tables, bounds, history>>

\* setMonitorProperties, and the slot is connected: signals are not lost any more.
MonitorProperties ==
    /\ at = "monitor"
    /\ listening' = listening \cup {"properties"}
    /\ at' = "connect"
    /\ UNCHANGED <<world, observed, fresh, rolesMap, tables, bounds, history>>

\* writeRoomChangesInformationEvents
TitleEvent(s) ==
    IF info # NoThread /\ s # NoSubject /\ s # info.subject
    THEN WriteInformationEvent(Title, s) ELSE NoEvents

\* onRoomPropertiesChanged with what the interfaces say now, then the slots for
\* the members and the roles; `fresh' is what the code calls notify.
ConnectChannel ==
    /\ at = "connect"
    /\ TitleEvent(service.subject)
    /\ info' = IF info = NoThread THEN NoThread
               ELSE [info EXCEPT !.subject = service.subject,
                                 !.persistent = service.persistent]
    /\ listening' = listening \cup {"members", "roles"}
    /\ IF fresh THEN UpdateRoomParticipants(TRUE)
                ELSE UNCHANGED <<rows, rolesMap, fresh, granted>> /\ Announce
    /\ at' = "idle"
    /\ UNCHANGED <<world, observed, bounds, silent, lost, torn>>

-----------------------------------------------------------------------------
(* Members, roles and properties change                                    *)

Idle == at = "idle" /\ "members" \in listening
SelfContactIsPending == channel.self = "Pending"

\* Members are written about if the thread exists and we are in the room. Once
\* we have been removed every removal is taken for our own.
OwnRemoval(m) == m.event = "Leaving" /\ m.self = "Removed"

MemberEvent(m) ==
    IF info = NoThread \/ m.self = "Pending" \/ OwnRemoval(m)
    THEN Nothing
    ELSE CASE m.event = "Joined" /\ FoundAsMemberInThread(m.who) -> Nothing
           [] m.event = "InvitationSent" /\ FoundInThread(m.who) -> Nothing
           [] OTHER -> m.event

GroupMembersChanged ==
    /\ Idle
    /\ \E m \in Moves :
        /\ Move(m)
        /\ IF MemberEvent(m) = Nothing
           THEN /\ NoEvents /\ UNCHANGED told
                /\ silent' = silent \cup ({m.who} \ {Self})
           ELSE /\ WriteInformationEvent(m.who, MemberEvent(m))
                /\ told' = Thread(info, rows)
                /\ UNCHANGED silent
        /\ at' = IF info # NoThread /\ OwnRemoval(m) /\ info.joined
                 THEN "selfLeaving" ELSE "members"
    /\ UNCHANGED <<service, signals, observed, listening, fresh, rolesMap, info, rows,
                   channels, lost, granted, torn>>

SelfLeaving ==
    /\ at = "selfLeaving"
    /\ \E type \in LeaveTypes : WriteInformationEvent(Self, type)
    /\ told' = Thread(info, rows)
    /\ at' = "left"
    /\ UNCHANGED <<world, observed, listening, fresh, rolesMap, info, rows, bounds,
                   silent, lost, granted, torn>>

\* Mutant: the leaving is written and not stored.
SetLeftNowhere ==
    /\ at = "left"
    /\ at' = IF observed THEN "members" ELSE "idle"
    /\ UNCHANGED <<world, observed, listening, fresh, rolesMap, tables, bounds, history>>

SetLeft ==
    /\ at = "left"
    /\ UNCHANGED rows
    /\ UpdateRoomInfo("joined", FALSE, TRUE)
    /\ at' = IF observed THEN "members" ELSE "idle"
    /\ UNCHANGED <<world, observed, listening, fresh, rolesMap, bounds, history>>

\* Mutant: nobody is notified of the new members.
RefreshMembersSilently ==
    /\ at = "members"
    /\ UNCHANGED info
    /\ UpdateRoomParticipants(FALSE)
    /\ at' = "idle"
    /\ UNCHANGED <<world, observed, listening, bounds, last, repeated, silent, lost, torn>>

RefreshMembers ==
    /\ at = "members"
    /\ UNCHANGED info
    /\ UpdateRoomParticipants(~SelfContactIsPending)
    /\ at' = "idle"
    /\ UNCHANGED <<world, observed, listening, bounds, last, repeated, silent, lost, torn>>

\* RolesChanged: the delta is applied to what is known, or to what getRoles says.
ChangedRoles(change) ==
    IF change.admin THEN KnownRoles \cup {change.who} ELSE KnownRoles \ {change.who}

\* writeRolesInformationEvents: who is an admin and was not stored as one. Only
\* members count, and only if we have joined.
NewAdmins(roles) ==
    LET admins == {u \in Members \cap roles : channel.members[u] = "Regular"}
        promoted == {p \in Participants : p.id \in admins /\ ~p.admin}
    IN  IF info = NoThread \/ ~info.joined THEN {}
        ELSE {p.id : p \in promoted}
             \cup (IF Self \in roles /\ ~info.selfAdmin THEN {Self} ELSE {})

RolesChanged ==
    /\ Idle /\ signals # <<>> /\ Head(signals).kind = "roles"
    /\ LET roles == ChangedRoles(Head(signals))
           news == NewAdmins(roles)
       IN  /\ rolesMap' = roles
           /\ granted' = (granted \cup news) \cap roles
           /\ repeated' = repeated \cup {<<u, "AdminGranted">> : u \in news \cap granted}
           /\ told' = IF news = {} THEN told ELSE Thread(info, rows)
    /\ lost' = lost \ {Head(signals).who}
    /\ at' = IF info = NoThread THEN "idle" ELSE "roles"
    /\ signals' = Tail(signals)
    /\ UNCHANGED <<service, channel, observed, listening, fresh, info, rows, bounds,
                   last, silent, torn>>

\* Mutant: only our own roles are stored.
RefreshSelfRoles ==
    /\ at = "roles"
    /\ UNCHANGED rows
    /\ UpdateRoomInfo("selfAdmin", Self \in rolesMap, TRUE)
    /\ at' = "idle"
    /\ UNCHANGED <<world, observed, listening, fresh, rolesMap, bounds, history>>

\* updateRoomParticipantsRoles has one UPDATE for each member of the channel.
RefreshRoles ==
    /\ at = "roles"
    /\ rows' = [r \in RowTypes |->
                   IF r.id \notin Members THEN rows[r]
                   ELSE IF r.admin # (r.id \in rolesMap) THEN 0
                   ELSE rows[r] + rows[Row(r.id, r.state, ~r.admin)]]
    /\ UpdateRoomInfo("selfAdmin", Self \in rolesMap, TRUE)
    /\ at' = "idle"
    /\ UNCHANGED <<world, observed, listening, fresh, rolesMap, bounds, history>>

RoomPropertiesChanged ==
    /\ Idle /\ signals # <<>> /\ Head(signals).kind = "properties"
    /\ TitleEvent(Head(signals).subject)
    /\ UNCHANGED rows
    /\ UpdateRoomInfo("subject", Head(signals).subject, TRUE)
    /\ signals' = Tail(signals)
    /\ UNCHANGED <<service, channel, daemon, bounds, silent, lost, granted, torn>>

\* Mutant: the slots stay connected to the channel that is gone.
StayConnected == observed' = FALSE /\ signals' = <<>> /\ UNCHANGED listening

\* The channel object is gone for the daemon, and its interfaces with it.
Disconnect == observed' = FALSE /\ signals' = <<>> /\ listening' = {}

\* The room is left for good only if it is known not to be persistent.
TextChannelInvalidated ==
    /\ Idle
    /\ channel' = [open |-> FALSE, self |-> "Removed", members |-> NoOne]
    /\ rolesMap' = NoThread
    /\ Disconnect
    /\ IF info # NoThread /\ ~info.persistent /\ ~Phone
       THEN /\ WriteInformationEvent(Self, "SelfLeaving")
            /\ told' = Thread(info, rows)
            /\ at' = "left"
       ELSE NoEvents /\ UNCHANGED <<told, at>>
    /\ silent' = (silent \cup Members) \ {Self}
    /\ lost' = {}
    /\ UNCHANGED <<service, fresh, info, rows, bounds, granted, torn>>

-----------------------------------------------------------------------------
(* The thread is removed, and created again by a message; the daemon dies  *)

\* A client removes the thread; its events, participants and info go with it.
RemoveThread ==
    /\ at = "idle" /\ info # NoThread
    /\ Happens
    /\ info' = NoThread /\ rows' = NoRows /\ told' = NoThread
    /\ last' = [u \in Users \cup {Title} |-> Nothing]
    /\ repeated' = {} /\ granted' = {}
    /\ UNCHANGED <<world, daemon, channels, silent, lost, torn>>

\* The thread of a message in the room is created without joining the room.
MessageReceived ==
    /\ Idle /\ info = NoThread
    /\ CreateThread
    /\ Announce
    /\ fresh' = FALSE
    /\ torn' = TRUE
    /\ UNCHANGED <<world, observed, listening, at, rolesMap, bounds,
                   last, repeated, silent, lost, granted>>

\* Clients query again when the service is back.
Crash ==
    /\ Happens
    /\ Disconnect
    /\ at' = "idle" /\ fresh' = FALSE /\ rolesMap' = NoThread
    /\ told' = Thread(info, rows)
    /\ torn' = (torn \/ at # "idle")
    /\ lost' = {}
    /\ UNCHANGED <<service, channel, info, rows, channels,
                   last, repeated, silent, granted>>

-----------------------------------------------------------------------------
Init ==
    /\ service \in [protocol : Protocols, admins : SUBSET Users, subject : {NoSubject},
                    persistent : BOOLEAN]
    /\ signals = <<>>
    /\ channel = [open |-> FALSE, self |-> "Removed", members |-> NoOne]
    /\ observed = FALSE /\ listening = {} /\ at = "idle" /\ fresh = FALSE
    /\ rolesMap = NoThread /\ info = NoThread /\ rows = NoRows /\ told = NoThread
    /\ channels = 0 /\ happenings = 0
    /\ last = [u \in Users \cup {Title} |-> Nothing]
    /\ repeated = {} /\ silent = {} /\ lost = {} /\ granted = {} /\ torn = FALSE

Next ==
    \/ OpenChannel \/ MoveUnseen \/ CloseUnseen
    \/ \E u \in Users : ChangeRole(u)
    \/ \E s \in Subjects : ChangeSubject(s)
    \/ TextChannelAvailable \/ InitialParticipants \/ SelfJoined \/ SetJoined
    \/ MonitorProperties \/ ConnectChannel
    \/ GroupMembersChanged \/ SelfLeaving \/ SetLeft \/ RefreshMembers
    \/ RolesChanged \/ RefreshRoles \/ RoomPropertiesChanged
    \/ TextChannelInvalidated \/ RemoveThread \/ MessageReceived \/ Crash

Spec == Init /\ [][Next]_vars

-----------------------------------------------------------------------------
(* Properties                                                              *)

ThreadExists == info # NoThread
Pending(kind) == \E i \in DOMAIN signals : signals[i].kind = kind
Settled == Idle /\ ThreadExists

\* The variables hold what the code can put there: a room's row with what is
\* known of it, rows for people, signals of the two kinds, steps of handlers.
TypeOK ==
    /\ service \in [protocol : Protocols, admins : SUBSET Users, subject : Subjects,
                    persistent : BOOLEAN]
    /\ channel.self \in SelfStates /\ Members \subseteq Contacts
    /\ \A u \in Members : channel.members[u] \in MemberStates
    /\ info = NoThread \/ info \in InfoTypes
    /\ rows \in [RowTypes -> Nat]
    /\ rolesMap = NoThread \/ rolesMap \subseteq Users
    /\ listening \subseteq {"roles", "properties", "members"}
    /\ observed \/ listening = {}

\* updateRoomParticipants and onGroupMembersChanged: once the participants have
\* been rewritten for this channel, they are its members, each once and with
\* the right state, whatever moved before and after the daemon listens to it.
ParticipantsFollowChannel ==
    Settled /\ fresh =>
        /\ {<<p.id, p.state>> : p \in Stored} = {<<u, channel.members[u]>> : u \in Members}
        /\ \A p, q \in Stored : rows[p] = 1 /\ (p.id = q.id => p = q)

\* onRolesChanged, getRoles and mRolesMap: when no signal is on its way, the
\* stored roles are those of the room, except for changes between getRoles and
\* the connection of the signal.
RolesFollowRoom ==
    Settled /\ fresh /\ ~Pending("roles") =>
        \A p \in Stored : p.id \in lost \/ p.admin = (p.id \in service.admins)

\* onRoomPropertiesChanged: the same of the subject, and nothing is lost here,
\* because the interface is monitored before it is read.
SubjectFollowsRoom ==
    Settled /\ ~Pending("properties") => info.subject = service.subject

\* What the last announcement says of the room is what is stored once the
\* handlers are done: each handler that writes without notifying is followed
\* by one that notifies, unless we are only invited.
ClientsKnowRoom ==
    Settled /\ channel.self # "Pending" => told = Thread(info, rows)

\* The Joined flag says whether we are in the room, as long as the daemon has
\* seen us go and the thread has not been created by a message.
JoinedFollowsSelf ==
    ThreadExists /\ ~torn /\ Self \notin silent =>
        /\ Idle => (info.joined <=> channel.self # "Removed")
        /\ at = "idle" /\ ~channel.open /\ ~info.persistent /\ ~Phone => ~info.joined

\* writeInformationEvent: the conversation never says twice in a row that the
\* same person has come, gone, been invited or been made admin, unless that
\* person came or went unnoticed. Our own leaving may be written twice: by the
\* change of the members and again when the channel is closed; and on telephones
\* our joining is not written.
NoEventRepeated ==
    ~torn => \A r \in repeated :
        \/ r[1] \in silent \cup {Title}
        \/ r[1] = Self /\ r[2] \in IF Phone THEN LeaveTypes ELSE {"SelfLeaving"}

\* What the tables say of the room is what the channel and the room's interfaces
\* say: its members, their roles, the subject and whether we have joined.
TablesFollowRoom ==
    /\ TypeOK
    /\ ParticipantsFollowChannel
    /\ RolesFollowRoom
    /\ SubjectFollowsRoom
    /\ JoinedFollowsSelf
=============================================================================
