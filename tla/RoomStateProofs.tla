--------------------------- MODULE RoomStateProofs ---------------------------
(***************************************************************************)
(* What RoomState promises, for any number of people, channels, changes    *)
(* and crashes.  The tables follow the room because each of its three      *)
(* views is right or is about to be corrected: the channel by a handler    *)
(* that has begun, the service by a signal on its way.                     *)
(***************************************************************************)
EXTENDS RoomState, TLAPS

-----------------------------------------------------------------------------
(* The inductive invariant                                                 *)

Steps == {"idle", "participants", "selfJoined", "joined", "monitor", "connect",
          "selfLeaving", "left", "members", "roles"}
MemberMaps == UNION {[present -> MemberStates] : present \in SUBSET Contacts}
RoleSignals == [kind : {"roles"}, who : Users, admin : BOOLEAN]
SubjectSignals == [kind : {"properties"}, subject : Subjects]
Events == ContactEvents \cup LeaveTypes \cup {"SelfJoined", Nothing} \cup Subjects

WorldType ==
    /\ service \in [protocol : Protocols, admins : SUBSET Users, subject : Subjects,
                    persistent : BOOLEAN]
    /\ signals \in Seq(RoleSignals \cup SubjectSignals)
    /\ channel \in [open : BOOLEAN, self : SelfStates, members : MemberMaps]

DaemonType ==
    /\ observed \in BOOLEAN /\ at \in Steps /\ fresh \in BOOLEAN
    /\ rolesMap = NoThread \/ rolesMap \in SUBSET Users

TablesType ==
    /\ info = NoThread \/ info \in InfoTypes
    /\ rows \in [RowTypes -> Nat]

HistoryType ==
    /\ last \in [Users \cup {Title} -> Events]
    /\ silent \subseteq Users /\ lost \subseteq Users /\ granted \subseteq Users
    /\ torn \in BOOLEAN

Types == WorldType /\ DaemonType /\ TablesType /\ HistoryType

\* Whose signals the daemon receives follows from how far it has come with the
\* channel: from nobody's, from those of the properties, or from all.
Early == {"participants", "selfJoined", "joined", "monitor"}
Heard == IF ~observed \/ at \in Early THEN {}
         ELSE IF at = "connect" THEN {"properties"}
         ELSE {"roles", "properties", "members"}
Listens == "members" \in listening

Control ==
    /\ listening = Heard
    /\ ~observed => at \in {"idle", "left"}
    /\ observed => channel.open
    /\ ~channel.open => Members = {}
    /\ at \notin {"idle", "members"} => ThreadExists
    /\ at \in {"participants", "selfJoined"} => ~info.joined
    /\ at = "selfLeaving" => info.joined
    /\ at = "roles" => rolesMap # NoThread

\* A signal that is not true any more is followed by another of its kind.
Signalled ==
    /\ "properties" \notin listening => signals = <<>>
    /\ "roles" \notin listening => \A i \in DOMAIN signals : signals[i].kind = "properties"
    /\ \A i \in DOMAIN signals : signals[i].kind = "roles" =>
          \/ signals[i].admin <=> signals[i].who \in service.admins
          \/ \E j \in DOMAIN signals :
                j > i /\ signals[j].kind = "roles" /\ signals[j].who = signals[i].who
    /\ \A i \in DOMAIN signals : signals[i].kind = "properties" =>
          \/ signals[i].subject = service.subject
          \/ \E j \in DOMAIN signals : j > i /\ signals[j].kind = "properties"

Announced(u) == \E i \in DOMAIN signals : signals[i].kind = "roles" /\ signals[i].who = u

RolesKnown ==
    rolesMap # NoThread =>
        \A u \in Users : \/ u \in lost \/ Announced(u)
                         \/ (u \in rolesMap <=> u \in service.admins)

SubjectKnown ==
    Listens /\ ThreadExists /\ ~Pending("properties") => info.subject = service.subject

RowsKnown ==
    Listens /\ fresh /\ ThreadExists =>
        /\ at = "idle" => rolesMap # NoThread /\ rows = ChannelRows(rolesMap)
        /\ at = "roles" => \E admins \in SUBSET Users : rows = ChannelRows(admins)

InRoom == channel.self # "Removed"

JoinedKnown ==
    ThreadExists /\ ~torn /\ Self \notin silent =>
        /\ at \in Early \cup {"connect"} => InRoom
        /\ at \in {"monitor", "connect"} => info.joined
        /\ observed /\ at \in {"idle", "members", "roles"} => (info.joined <=> InRoom)
        /\ observed /\ at \in {"selfLeaving", "left"} => ~InRoom
        /\ at = "idle" /\ ~channel.open /\ ~info.persistent /\ ~Phone => ~info.joined

\* What was written about somebody who has not moved unnoticed is how it is.
ContactEventsTrue ==
    \A u \in Contacts \ silent :
        IF u \in Members
        THEN \/ last[u] = Nothing
             \/ channel.members[u] \in {"Regular", "RemotePending"}
                /\ last[u] = Arrival[channel.members[u]]
        ELSE last[u] \in {Nothing, "Leaving"}

SelfEventsTrue ==
    /\ at = "left" => last[Self] \in LeaveTypes
    /\ last[Self] = "SelfJoined" /\ ThreadExists => info.joined \/ at = "joined"
    /\ ThreadExists /\ info.joined /\ ~Phone /\ at # "left" => last[Self] = "SelfJoined"
    /\ at = "joined" /\ ~Phone => last[Self] = "SelfJoined"

NothingYet ==
    /\ ~ThreadExists \/ at = "participants" => \A u \in Users : last[u] = Nothing
    /\ ~ThreadExists => granted = {}

GrantsStored ==
    /\ rolesMap # NoThread => granted \subseteq rolesMap
    /\ \A p \in Stored : p.id \in granted => p.admin \/ (at = "roles" /\ p.id \in Members)
    /\ Self \in granted /\ at # "roles" => info.selfAdmin

Repeatable == IF Phone THEN LeaveTypes ELSE {"SelfLeaving"}

NoneRepeated ==
    \A r \in repeated : \/ r[1] \in (silent \ {Self}) \cup {Title}
                        \/ r[1] = Self /\ r[2] \in Repeatable

Room == Control /\ Signalled /\ RolesKnown /\ SubjectKnown /\ RowsKnown /\ JoinedKnown
Conversation ==
    ~torn => ContactEventsTrue /\ SelfEventsTrue /\ GrantsStored /\ NoneRepeated

IInv == Types /\ Room /\ ClientsKnowRoom /\ NothingYet /\ Conversation

-----------------------------------------------------------------------------
(* The members of the room, and how they move                              *)

LEMMA MemberMap ==
    ASSUME NEW present \in SUBSET Contacts, NEW f \in [present -> MemberStates]
    PROVE  f \in MemberMaps
BY DEF MemberMaps

LEMMA MapOfMembers ==
    ASSUME NEW f \in MemberMaps
    PROVE  DOMAIN f \subseteq Contacts /\ f \in [DOMAIN f -> MemberStates]
BY DEF MemberMaps

\* The room's members and we, as TelepathyQt has them.
LEMMA ChannelType ==
    ASSUME WorldType
    PROVE  /\ channel.members \in MemberMaps /\ channel.self \in SelfStates
           /\ channel.open \in BOOLEAN
           /\ Members \subseteq Contacts
           /\ \A u \in Members : channel.members[u] \in MemberStates
<1>1. channel.members \in MemberMaps /\ channel.self \in SelfStates /\ channel.open \in BOOLEAN
  BY DEF WorldType
<1> QED
  BY <1>1, MapOfMembers DEF Members

\* A move says who moved; nobody else did.
Moved(m) ==
    /\ m.members \in MemberMaps /\ m.self \in SelfStates
    /\ m.event \in ContactEvents \cup {Nothing}
    /\ \A v \in Contacts \ {m.who} :
          /\ v \in DOMAIN m.members <=> v \in Members
          /\ v \in Members => m.members[v] = channel.members[v]

ContactMoved(m) ==
    /\ m.who \in Contacts /\ m.self = channel.self
    /\ \/ /\ m.who \in DOMAIN m.members
          /\ m.event = Arrival[m.members[m.who]]
          /\ m.who \notin Members \/ (channel.members[m.who] # "Regular" /\ m.members[m.who] = "Regular")
       \/ m.who \notin DOMAIN m.members /\ m.who \in Members /\ m.event = "Leaving"

SelfMoved(m) ==
    /\ m.who = Self /\ m.members = channel.members
    /\ \/ channel.self = "Pending" /\ m.self = "Member" /\ m.event = Nothing
       \/ channel.self # "Removed" /\ m.self = "Removed" /\ m.event = "Leaving"

LEMMA MovesMove ==
    ASSUME WorldType, NEW m \in Moves
    PROVE  Moved(m) /\ (ContactMoved(m) \/ SelfMoved(m))
<1>1. /\ channel.members \in MemberMaps /\ channel.self \in SelfStates
      /\ Members \subseteq Contacts /\ \A u \in Members : channel.members[u] \in MemberStates
  BY ChannelType
<1>2. ASSUME NEW u \in Contacts, NEW s \in MemberStates,
             m = ContactMove(u, With(u, s), Arrival[s]),
             u \notin Members \/ (channel.members[u] # "Regular" /\ s = "Regular")
      PROVE  Moved(m) /\ ContactMoved(m)
  <2>1. PICK f : f = With(u, s)
    OBVIOUS
  <2>2. f \in [Members \cup {u} -> MemberStates]
    BY <1>1, <2>1 DEF With
  <2>3. f \in MemberMaps
    BY <1>1, <2>2, MemberMap
  <2>4. m.who = u /\ m.members = f /\ m.self = channel.self /\ m.event = Arrival[s]
    BY <1>2, <2>1 DEF ContactMove
  <2>5. f[u] = s /\ \A v \in Members \ {u} : f[v] = channel.members[v]
    BY <2>1 DEF With
  <2>6. Arrival[s] \in ContactEvents \cup {Nothing}
    BY DEF Arrival, ContactEvents, MemberStates
  <2> QED
    BY <1>1, <1>2, <2>2, <2>3, <2>4, <2>5, <2>6 DEF Moved, ContactMoved
<1>3. ASSUME NEW u \in Members, m = ContactMove(u, Without(u), "Leaving")
      PROVE  Moved(m) /\ ContactMoved(m)
  <2>1. PICK f : f = Without(u)
    OBVIOUS
  <2>2. f \in [Members \ {u} -> MemberStates] /\ \A v \in Members \ {u} : f[v] = channel.members[v]
    BY <1>1, <2>1 DEF Without
  <2>3. f \in MemberMaps
    BY <1>1, <2>2, MemberMap
  <2>4. m.who = u /\ m.members = f /\ m.self = channel.self /\ m.event = "Leaving"
    BY <1>3, <2>1 DEF ContactMove
  <2> QED
    BY <1>1, <2>2, <2>3, <2>4 DEF Moved, ContactMoved, ContactEvents
<1>4. ASSUME NEW s \in {"Member", "Removed"}, NEW e \in {Nothing, "Leaving"}, m = SelfMove(s, e),
             \/ channel.self = "Pending" /\ s = "Member" /\ e = Nothing
             \/ channel.self # "Removed" /\ s = "Removed" /\ e = "Leaving"
      PROVE  Moved(m) /\ SelfMoved(m)
  BY <1>1, <1>4 DEF SelfMove, Moved, SelfMoved, SelfStates, ContactEvents, Members
<1>5. \/ \E u \in Contacts \ Members, s \in MemberStates : m = ContactMove(u, With(u, s), Arrival[s])
      \/ \E u \in Members : channel.members[u] # "Regular" /\ m = ContactMove(u, With(u, "Regular"), "Joined")
      \/ \E u \in Members : m = ContactMove(u, Without(u), "Leaving")
      \/ channel.self = "Pending" /\ m = SelfMove("Member", Nothing)
      \/ channel.self # "Removed" /\ m = SelfMove("Removed", "Leaving")
  BY DEF Moves
<1>6. Arrival["Regular"] = "Joined" /\ "Regular" \in MemberStates
  BY DEF Arrival, MemberStates
<1> QED
  BY <1>1, <1>2, <1>3, <1>4, <1>5, <1>6

\* What a move does to the channel.
LEMMA MoveResult ==
    ASSUME WorldType, NEW m \in Moves, Move(m)
    PROVE  /\ channel.open /\ channel'.open
           /\ channel'.members = m.members /\ channel'.self = m.self
           /\ Members' = DOMAIN m.members
           /\ channel' \in [open : BOOLEAN, self : SelfStates, members : MemberMaps]
<1>1. m.members \in MemberMaps /\ m.self \in SelfStates
  BY MovesMove DEF Moved
<1>2. channel \in [open : BOOLEAN, self : SelfStates, members : MemberMaps]
  BY DEF WorldType
<1>3. channel' = [channel EXCEPT !.members = m.members, !.self = m.self] /\ channel.open
  BY DEF Move
<1> QED
  BY <1>1, <1>2, <1>3 DEF Members

LEMMA ClosedType ==
    [open |-> FALSE, self |-> "Removed", members |-> NoOne]
      \in [open : BOOLEAN, self : SelfStates, members : MemberMaps]
<1>1. NoOne \in [{} -> MemberStates]
  BY DEF NoOne
<1>2. NoOne \in MemberMaps
  BY <1>1, MemberMap
<1> QED
  BY <1>2 DEF SelfStates

-----------------------------------------------------------------------------
(* The types                                                               *)

Pair == RoleSignals \cup SubjectSignals

\* What a change of the room sends.
LEMMA SignalType ==
    ASSUME signals \in Seq(Pair), NEW interface, NEW signal \in Pair, Signal(interface, signal)
    PROVE  signals' \in Seq(Pair)
BY DEF Signal

LEMMA WorldStep ==
    ASSUME Types, [Next]_vars
    PROVE  WorldType'
<1>0. /\ service \in [protocol : Protocols, admins : SUBSET Users, subject : Subjects,
                      persistent : BOOLEAN]
      /\ signals \in Seq(Pair)
      /\ channel \in [open : BOOLEAN, self : SelfStates, members : MemberMaps]
  BY DEF Types, WorldType, Pair
<1> DEFINE Worlds == /\ service' \in [protocol : Protocols, admins : SUBSET Users,
                                     subject : Subjects, persistent : BOOLEAN]
                     /\ signals' \in Seq(Pair)
                     /\ channel' \in [open : BOOLEAN, self : SelfStates, members : MemberMaps]
<1> SUFFICES Worlds
  BY DEF WorldType, Pair
<1>1. CASE OpenChannel
  <2>0. PICK present \in SUBSET Contacts, self \in {"Pending", "Member"} :
             \E members \in [present -> {"Regular", "RemotePending"}] :
                channel' = [open |-> TRUE, self |-> self, members |-> members]
    BY <1>1 DEF OpenChannel
  <2>1. PICK members \in [present -> {"Regular", "RemotePending"}] :
                channel' = [open |-> TRUE, self |-> self, members |-> members]
    BY <2>0
  <2>2. members \in [present -> MemberStates]
    BY DEF MemberStates
  <2>3. members \in MemberMaps
    BY <2>2, MemberMap
  <2> QED
    BY <1>0, <1>1, <2>1, <2>3 DEF OpenChannel, SelfStates
<1>2. CASE MoveUnseen \/ GroupMembersChanged
  <2>1. PICK m \in Moves : Move(m)
    BY <1>2 DEF MoveUnseen, GroupMembersChanged
  <2>2. channel' \in [open : BOOLEAN, self : SelfStates, members : MemberMaps]
    BY <2>1, MoveResult DEF Types
  <2> QED
    BY <1>0, <1>2, <2>2 DEF MoveUnseen, GroupMembersChanged
<1>3. CASE CloseUnseen
  BY <1>0, <1>3, ClosedType DEF CloseUnseen
<1>4. ASSUME NEW u \in Users, ChangeRole(u)
      PROVE  Worlds
  <2>1. [kind |-> "roles", who |-> u, admin |-> u \notin service.admins] \in Pair
    BY DEF Pair, RoleSignals
  <2>2. signals' \in Seq(Pair)
    BY <1>0, <1>4, <2>1, SignalType DEF ChangeRole
  <2>3. service' = [service EXCEPT !.admins = IF u \notin service.admins
                                              THEN service.admins \cup {u} ELSE service.admins \ {u}]
    BY <1>4 DEF ChangeRole
  <2> QED
    BY <1>0, <1>4, <2>2, <2>3 DEF ChangeRole
<1>5. ASSUME NEW s \in Subjects, ChangeSubject(s)
      PROVE  Worlds
  <2>1. [kind |-> "properties", subject |-> s] \in Pair
    BY DEF Pair, SubjectSignals
  <2>2. signals' \in Seq(Pair)
    BY <1>0, <1>5, <2>1, SignalType DEF ChangeSubject
  <2> QED
    BY <1>0, <1>5, <2>2 DEF ChangeSubject
<1>6. CASE RolesChanged \/ RoomPropertiesChanged
  <2>1. signals # <<>> => Tail(signals) \in Seq(Pair)
    BY <1>0
  <2> QED
    BY <1>0, <1>6, <2>1 DEF RolesChanged, RoomPropertiesChanged
<1>7. CASE TextChannelInvalidated
  BY <1>0, <1>7, ClosedType DEF TextChannelInvalidated, Disconnect
<1>8. CASE Crash
  BY <1>0, <1>8 DEF Crash, Disconnect
<1>9. CASE \/ TextChannelAvailable \/ InitialParticipants \/ SelfJoined \/ SetJoined
           \/ MonitorProperties \/ ConnectChannel
  BY <1>0, <1>9 DEF TextChannelAvailable, InitialParticipants, SelfJoined, SetJoined,
                    MonitorProperties, ConnectChannel, world
<1>10. CASE \/ SelfLeaving \/ SetLeft \/ RefreshMembers \/ RefreshRoles
            \/ RemoveThread \/ MessageReceived \/ UNCHANGED vars
  BY <1>0, <1>10 DEF SelfLeaving, SetLeft, RefreshMembers, RefreshRoles, RemoveThread,
                     MessageReceived, world, vars
<1> HIDE DEF Worlds
<1> QED
  BY <1>1, <1>2, <1>3, <1>4, <1>5, <1>6, <1>7, <1>8, <1>9, <1>10 DEF Next

\* The rows that are written are rows.
LEMMA ChannelRowsType ==
    ASSUME NEW admins
    PROVE  ChannelRows(admins) \in [RowTypes -> Nat]
BY DEF ChannelRows

LEMMA CreateThreadType ==
    ASSUME WorldType, rows \in [RowTypes -> Nat], CreateThread
    PROVE  info' \in InfoTypes /\ rows' \in [RowTypes -> Nat]
<1>1. info' \in InfoTypes
  BY DEF CreateThread, WorldType, InfoTypes
<1>2. PICK created : created = {Row(u, "Regular", FALSE) : u \in ParticipantIds}
  OBVIOUS
<1>3. rows' = [r \in RowTypes |-> rows[r] + IF r \in created THEN 1 ELSE 0]
  BY <1>2 DEF CreateThread
<1>4. \A r \in RowTypes : rows[r] \in Nat
  OBVIOUS
<1>5. \A r \in RowTypes : rows'[r] \in Nat
  BY <1>3, <1>4
<1> QED
  BY <1>1, <1>3, <1>5

\* What is known of the roles is known of people.
LEMMA KnownRolesType ==
    ASSUME WorldType, DaemonType
    PROVE  KnownRoles \in SUBSET Users
BY DEF WorldType, DaemonType, KnownRoles

LEMMA UpdateType ==
    ASSUME WorldType, DaemonType, NEW notify \in BOOLEAN, UpdateRoomParticipants(notify)
    PROVE  /\ rows' \in [RowTypes -> Nat] /\ rolesMap' \in SUBSET Users
           /\ granted' \subseteq granted /\ fresh'
BY KnownRolesType, ChannelRowsType DEF UpdateRoomParticipants

\* The next signal, and those behind it.
LEMMA NextSignal ==
    ASSUME WorldType, signals # <<>>
    PROVE  /\ Head(signals) \in Pair /\ Head(signals) = signals[1]
           /\ Len(Tail(signals)) = Len(signals) - 1
           /\ \A i \in 1 .. Len(signals) - 1 : Tail(signals)[i] = signals[i + 1]
BY DEF WorldType, Pair

LEMMA ChangedRolesType ==
    ASSUME WorldType, DaemonType, signals # <<>>, Head(signals).kind = "roles"
    PROVE  ChangedRoles(Head(signals)) \in SUBSET Users
<1>1. Head(signals).who \in Users
  BY NextSignal DEF Pair, RoleSignals, SubjectSignals
<1> QED
  BY <1>1, KnownRolesType DEF ChangedRoles

LEMMA DaemonStep ==
    ASSUME Types, [Next]_vars
    PROVE  DaemonType'
<1>0. observed \in BOOLEAN /\ at \in Steps /\ fresh \in BOOLEAN
      /\ (rolesMap = NoThread \/ rolesMap \in SUBSET Users)
  BY DEF Types, DaemonType
<1>1. CASE OpenChannel \/ MoveUnseen \/ CloseUnseen \/ RoomPropertiesChanged \/ RemoveThread
  BY <1>0, <1>1 DEF OpenChannel, MoveUnseen, CloseUnseen, RoomPropertiesChanged, RemoveThread,
                    daemon, DaemonType
<1>2. ASSUME \/ \E u \in Users : ChangeRole(u)
             \/ \E s \in Subjects : ChangeSubject(s)
             \/ UNCHANGED vars
      PROVE  DaemonType'
  BY <1>0, <1>2 DEF ChangeRole, ChangeSubject, vars, daemon, DaemonType
<1>3. CASE InitialParticipants \/ RefreshMembers
  <2>1. PICK notify \in BOOLEAN : UpdateRoomParticipants(notify)
    BY <1>3 DEF InitialParticipants, RefreshMembers
  <2>2. rolesMap' \in SUBSET Users /\ fresh'
    BY <2>1, UpdateType DEF Types
  <2>3. fresh' \in BOOLEAN
    BY <2>1 DEF UpdateRoomParticipants
  <2> QED
    BY <1>0, <1>3, <2>2, <2>3 DEF InitialParticipants, RefreshMembers, DaemonType, Steps
<1>4. CASE ConnectChannel
  <2>1. /\ fresh' \in BOOLEAN
        /\ rolesMap' = NoThread \/ rolesMap' \in SUBSET Users
    <3>1. CASE fresh
      BY <1>4, <3>1, UpdateType DEF ConnectChannel, UpdateRoomParticipants, Types
    <3>2. CASE ~fresh
      BY <1>0, <1>4, <3>2 DEF ConnectChannel
    <3> QED
      BY <3>1, <3>2
  <2> QED
    BY <1>0, <1>4, <2>1 DEF ConnectChannel, DaemonType, Steps
<1>5. CASE RolesChanged
  <2>1. rolesMap' \in SUBSET Users
    BY <1>5, ChangedRolesType DEF RolesChanged, Types
  <2> QED
    BY <1>0, <1>5, <2>1 DEF RolesChanged, DaemonType, Steps
<1>6. CASE TextChannelAvailable \/ SelfJoined \/ SetJoined \/ MonitorProperties
  BY <1>0, <1>6 DEF TextChannelAvailable, SelfJoined, SetJoined, MonitorProperties,
                    DaemonType, Steps
<1>7. CASE GroupMembersChanged \/ SelfLeaving \/ SetLeft \/ RefreshRoles
  BY <1>0, <1>7 DEF GroupMembersChanged, SelfLeaving, SetLeft, RefreshRoles, DaemonType, Steps
<1>8. CASE TextChannelInvalidated \/ Crash \/ MessageReceived
  BY <1>0, <1>8 DEF TextChannelInvalidated, Crash, MessageReceived, Disconnect, DaemonType, Steps
<1> QED
  BY <1>1, <1>2, <1>3, <1>4, <1>5, <1>6, <1>7, <1>8 DEF Next

\* An UPDATE of chat_room_info, in a form easier to use.
LEMMA InfoUpdate ==
    ASSUME TablesType, NEW key, NEW value, NEW notify \in BOOLEAN,
           UpdateRoomInfo(key, value, notify),
           \/ key \in {"joined", "selfAdmin"} /\ value \in BOOLEAN
           \/ key = "subject" /\ value \in Subjects
    PROVE  /\ info' = NoThread \/ info' \in InfoTypes
           /\ info' = NoThread <=> info = NoThread
           /\ info # NoThread =>
                 /\ info'.persistent = info.persistent
                 /\ info'.joined = IF key = "joined" THEN value ELSE info.joined
                 /\ info'.selfAdmin = IF key = "selfAdmin" THEN value ELSE info.selfAdmin
                 /\ info'.subject = IF key = "subject" THEN value ELSE info.subject
<1>1. CASE info = NoThread
  BY <1>1 DEF UpdateRoomInfo
<1>2. CASE info \in InfoTypes /\ info # NoThread
  <2>1. info' = [info EXCEPT ![key] = value]
    BY <1>2 DEF UpdateRoomInfo
  <2>2. info' \in InfoTypes
    BY <1>2, <2>1 DEF InfoTypes
  <2> QED
    BY <1>2, <2>1, <2>2, RoomAssumption DEF InfoTypes
<1> QED
  BY <1>1, <1>2 DEF TablesType

LEMMA TablesStep ==
    ASSUME Types, [Next]_vars
    PROVE  TablesType'
<1>0. (info = NoThread \/ info \in InfoTypes) /\ rows \in [RowTypes -> Nat]
  BY DEF Types, TablesType
<1>1. CASE TextChannelAvailable \/ MessageReceived
  BY <1>0, <1>1, CreateThreadType
     DEF TextChannelAvailable, MessageReceived, tables, TablesType, Types
<1>2. CASE InitialParticipants \/ RefreshMembers
  <2>1. PICK notify \in BOOLEAN : UpdateRoomParticipants(notify)
    BY <1>2 DEF InitialParticipants, RefreshMembers
  <2>2. rows' \in [RowTypes -> Nat]
    BY <2>1, UpdateType DEF Types
  <2> QED
    BY <1>0, <1>2, <2>2 DEF InitialParticipants, RefreshMembers, TablesType
<1>3. CASE ConnectChannel
  <2>1. rows' \in [RowTypes -> Nat]
    BY <1>0, <1>3, UpdateType DEF ConnectChannel, Types
  <2>2. info' = NoThread \/ info' \in InfoTypes
    <3>1. service.subject \in Subjects /\ service.persistent \in BOOLEAN
      BY DEF Types, WorldType
    <3>2. info' = IF info = NoThread THEN NoThread
                  ELSE [info EXCEPT !.subject = service.subject, !.persistent = service.persistent]
      BY <1>3 DEF ConnectChannel
    <3> QED
      BY <1>0, <3>1, <3>2 DEF InfoTypes
  <2> QED
    BY <2>1, <2>2 DEF TablesType
<1>4. CASE SetJoined \/ SetLeft
  <2>1. rows' = rows
    BY <1>4 DEF SetJoined, SetLeft
  <2>2. PICK value \in BOOLEAN, notify \in BOOLEAN : UpdateRoomInfo("joined", value, notify)
    BY <1>4 DEF SetJoined, SetLeft
  <2>3. info' = NoThread \/ info' \in InfoTypes
    BY <2>2, InfoUpdate DEF Types
  <2> QED
    BY <1>0, <2>1, <2>3 DEF TablesType
<1>5. CASE RefreshRoles
  <2>1. info' = NoThread \/ info' \in InfoTypes
    <3>1. PICK value \in BOOLEAN : UpdateRoomInfo("selfAdmin", value, TRUE)
      <4>1. (Self \in rolesMap) \in BOOLEAN
        OBVIOUS
      <4> QED
        BY <1>5, <4>1 DEF RefreshRoles
    <3> QED
      BY <3>1, InfoUpdate DEF Types
  <2>2. \A r \in RowTypes : Row(r.id, r.state, ~r.admin) \in RowTypes
    BY DEF RowTypes, Row
  <2>3. \A r \in RowTypes : rows[r] \in Nat /\ rows[Row(r.id, r.state, ~r.admin)] \in Nat
    BY <1>0, <2>2
  <2>4. rows' \in [RowTypes -> Nat]
    <3>1. PICK known : known = {r \in RowTypes : r.admin # (r.id \in rolesMap)}
      OBVIOUS
    <3>2. rows' = [r \in RowTypes |->
                      IF r.id \notin Members THEN rows[r]
                      ELSE IF r \in known THEN 0
                      ELSE rows[r] + rows[Row(r.id, r.state, ~r.admin)]]
      BY <1>5, <3>1 DEF RefreshRoles
    <3>3. \A r \in RowTypes : rows'[r] \in Nat
      <4> TAKE r \in RowTypes
      <4>1. CASE r.id \notin Members
        BY <2>3, <3>2, <4>1
      <4>2. CASE r.id \in Members /\ r \in known
        BY <3>2, <4>2
      <4>3. CASE r.id \in Members /\ r \notin known
        BY <2>3, <3>2, <4>3
      <4> QED
        BY <4>1, <4>2, <4>3
    <3> QED
      BY <3>2, <3>3
  <2> QED
    BY <2>1, <2>4 DEF TablesType
<1>6. CASE RoomPropertiesChanged
  <2>1. Head(signals).subject \in Subjects
    BY <1>6, NextSignal DEF RoomPropertiesChanged, Pair, RoleSignals, SubjectSignals, Types
  <2>2. info' = NoThread \/ info' \in InfoTypes
    BY <1>6, <2>1, InfoUpdate DEF RoomPropertiesChanged, Types
  <2> QED
    BY <1>0, <1>6, <2>2 DEF RoomPropertiesChanged, TablesType
<1>7. CASE RemoveThread
  BY <1>7 DEF RemoveThread, TablesType, NoRows
<1>8. CASE \/ OpenChannel \/ MoveUnseen \/ CloseUnseen \/ SelfJoined \/ MonitorProperties
           \/ GroupMembersChanged \/ SelfLeaving
  BY <1>0, <1>8 DEF OpenChannel, MoveUnseen, CloseUnseen, SelfJoined, MonitorProperties,
                    GroupMembersChanged, SelfLeaving, tables, TablesType
<1>9. CASE RolesChanged \/ TextChannelInvalidated \/ Crash \/ UNCHANGED vars
  BY <1>0, <1>9 DEF RolesChanged, TextChannelInvalidated, Crash, vars, tables, TablesType
<1>10. ASSUME \/ \E u \in Users : ChangeRole(u)
              \/ \E s \in Subjects : ChangeSubject(s)
       PROVE  TablesType'
  BY <1>0, <1>10 DEF ChangeRole, ChangeSubject, tables, TablesType
<1> QED
  BY <1>1, <1>2, <1>3, <1>4, <1>5, <1>6, <1>7, <1>8, <1>9, <1>10 DEF Next

\* Writing events changes what was said last about those they are about.
LEMMA EventsWritten ==
    ASSUME last \in [Users \cup {Title} -> Events], NEW events, WriteInformationEvents(events),
           \A u \in (Users \cup {Title}) \cap DOMAIN events : events[u] \in Events
    PROVE  /\ last' \in [Users \cup {Title} -> Events]
           /\ \A u \in Users \cup {Title} :
                 last'[u] = IF u \in DOMAIN events THEN events[u] ELSE last[u]
           /\ \A r \in repeated' : r \in repeated \/
                 \E u \in DOMAIN events : r = <<u, last[u]>> /\ events[u] = last[u]
BY DEF WriteInformationEvents

LEMMA EventWritten ==
    ASSUME last \in [Users \cup {Title} -> Events], NEW who \in Users \cup {Title},
           NEW event \in Events, WriteInformationEvent(who, event)
    PROVE  /\ last' \in [Users \cup {Title} -> Events]
           /\ last'[who] = event
           /\ \A u \in (Users \cup {Title}) \ {who} : last'[u] = last[u]
           /\ \A r \in repeated' : r \in repeated \/ (r = <<who, event>> /\ event = last[who])
<1>1. PICK events : events = [v \in {who} |-> event]
  OBVIOUS
<1>2. WriteInformationEvents(events)
  BY <1>1 DEF WriteInformationEvent
<1>3. DOMAIN events = {who} /\ events[who] = event
  BY <1>1
<1> QED
  BY <1>2, <1>3, EventsWritten

\* The title is written or nothing is.
LEMMA TitleWritten ==
    ASSUME last \in [Users \cup {Title} -> Events], NEW s \in Subjects, TitleEvent(s)
    PROVE  /\ last' \in [Users \cup {Title} -> Events]
           /\ \A u \in Users : last'[u] = last[u]
           /\ \A r \in repeated' : r \in repeated \/ r[1] = Title
<1>1. CASE NoEvents
  BY <1>1 DEF NoEvents
<1>2. CASE WriteInformationEvent(Title, s)
  <2>1. s \in Events /\ Title \notin Users
    BY RoomAssumption DEF Events, Users
  <2> QED
    BY <1>2, <2>1, EventWritten
<1> QED
  BY <1>1, <1>2 DEF TitleEvent

\* What a move is written as.
LEMMA MemberEventType ==
    ASSUME WorldType, NEW m \in Moves
    PROVE  /\ m.who \in Users /\ MemberEvent(m) \in Events
           /\ MemberEvent(m) # Nothing => MemberEvent(m) = m.event /\ ThreadExists
           /\ m.who = Self => MemberEvent(m) = Nothing
<1>1. Moved(m) /\ (ContactMoved(m) \/ SelfMoved(m))
  BY MovesMove
<1>2. m.event \in ContactEvents \cup {Nothing} /\ m.who \in Users
  BY <1>1 DEF Moved, ContactMoved, SelfMoved, Users
<1>3. MemberEvent(m) \in {Nothing, m.event} /\ (info = NoThread => MemberEvent(m) = Nothing)
  BY DEF MemberEvent
<1>4. m.who = Self => MemberEvent(m) = Nothing
  BY <1>1, <1>3, RoomAssumption DEF ContactMoved, SelfMoved, MemberEvent, OwnRemoval
<1> QED
  BY <1>2, <1>3, <1>4 DEF Events, ThreadExists

LEMMA InitialEvents ==
    ASSUME Types, InitialParticipants
    PROVE  /\ last' \in [Users \cup {Title} -> Events]
           /\ \A u \in Users : last'[u] =
                 IF u \in Members /\ channel.members[u] = "RemotePending"
                 THEN "InvitationSent" ELSE last[u]
           /\ \A r \in repeated' : r \in repeated \/
                 \E u \in Members : r[1] = u /\ last[u] = "InvitationSent"
<1>1. PICK events :
         events = [u \in {v \in Members : channel.members[v] = "RemotePending"} |-> "InvitationSent"]
  OBVIOUS
<1>2. WriteInformationEvents(events)
  BY <1>1 DEF InitialParticipants
<1>3. DOMAIN events = {v \in Members : channel.members[v] = "RemotePending"}
      /\ \A u \in DOMAIN events : events[u] = "InvitationSent"
  BY <1>1
<1>4. "InvitationSent" \in Events /\ last \in [Users \cup {Title} -> Events]
  BY DEF Events, ContactEvents, Types, HistoryType
<1> QED
  BY <1>2, <1>3, <1>4, EventsWritten

LEMMA NewAdminsType ==
    ASSUME Types, NEW roles \in SUBSET Users
    PROVE  NewAdmins(roles) \subseteq roles
BY DEF NewAdmins

LEMMA HistoryStep ==
    ASSUME Types, [Next]_vars
    PROVE  HistoryType'
<1>0. /\ last \in [Users \cup {Title} -> Events]
      /\ silent \subseteq Users /\ lost \subseteq Users /\ granted \subseteq Users
      /\ torn \in BOOLEAN /\ WorldType /\ Members \subseteq Users /\ Self \in Users
  BY ChannelType DEF Types, HistoryType, Users
<1>1. CASE OpenChannel
  <2>1. channel'.members \in MemberMaps
    BY WorldStep DEF WorldType
  <2>2. DOMAIN channel'.members \subseteq Users
    BY <2>1, MapOfMembers DEF Users
  <2> QED
    BY <1>0, <1>1, <2>2 DEF OpenChannel, HistoryType
<1>2. CASE MoveUnseen \/ CloseUnseen \/ TextChannelAvailable
  <2>1. \A m \in Moves : m.who \in Users
    BY <1>0, MemberEventType
  <2> QED
    BY <1>0, <1>2, <2>1 DEF MoveUnseen, CloseUnseen, TextChannelAvailable, HistoryType
<1>3. CASE InitialParticipants
  <2>1. granted' \subseteq granted
    BY <1>3, UpdateType DEF InitialParticipants, Types
  <2> QED
    BY <1>0, <1>3, <2>1, InitialEvents DEF InitialParticipants, HistoryType
<1>4. CASE SelfJoined
  <2>1. last' \in [Users \cup {Title} -> Events]
    <3>1. CASE Phone
      BY <1>0, <1>4, <3>1 DEF SelfJoined, NoEvents
    <3>2. CASE ~Phone
      BY <1>0, <1>4, <3>2, EventWritten DEF SelfJoined, Events
    <3> QED
      BY <3>1, <3>2
  <2> QED
    BY <1>0, <1>4, <2>1 DEF SelfJoined, HistoryType
<1>5. CASE ConnectChannel
  <2>1. service.subject \in Subjects
    BY <1>0 DEF WorldType
  <2>2. last' \in [Users \cup {Title} -> Events]
    BY <1>0, <1>5, <2>1, TitleWritten DEF ConnectChannel
  <2>3. granted' \subseteq granted
    BY <1>5, UpdateType DEF ConnectChannel, Types
  <2> QED
    BY <1>0, <1>5, <2>2, <2>3 DEF ConnectChannel, HistoryType
<1>6. CASE GroupMembersChanged
  <2>1. PICK m \in Moves :
           IF MemberEvent(m) = Nothing
           THEN NoEvents /\ silent' = silent \cup ({m.who} \ {Self})
           ELSE WriteInformationEvent(m.who, MemberEvent(m)) /\ silent' = silent
    BY <1>6 DEF GroupMembersChanged
  <2>2. m.who \in Users /\ MemberEvent(m) \in Events
    BY <1>0, MemberEventType
  <2>3. last' \in [Users \cup {Title} -> Events] /\ silent' \subseteq Users
    BY <1>0, <2>1, <2>2, EventWritten DEF NoEvents
  <2> QED
    BY <1>0, <1>6, <2>3 DEF GroupMembersChanged, HistoryType
<1>7. CASE SelfLeaving
  <2>1. PICK type \in LeaveTypes : WriteInformationEvent(Self, type)
    BY <1>7 DEF SelfLeaving
  <2>2. last' \in [Users \cup {Title} -> Events]
    BY <1>0, <2>1, EventWritten DEF Events
  <2> QED
    BY <1>0, <1>7, <2>2 DEF SelfLeaving, HistoryType
<1>8. CASE RefreshMembers
  <2>1. (~SelfContactIsPending) \in BOOLEAN
    BY DEF SelfContactIsPending
  <2>2. granted' \subseteq granted
    BY <1>8, <2>1, UpdateType DEF RefreshMembers, Types
  <2> QED
    BY <1>0, <1>8, <2>2 DEF RefreshMembers, HistoryType
<1>9. CASE RolesChanged
  <2>1. PICK roles, news : /\ roles = ChangedRoles(Head(signals)) /\ news = NewAdmins(roles)
                           /\ granted' = (granted \cup news) \cap roles
    BY <1>9 DEF RolesChanged
  <2>2. roles \in SUBSET Users
    BY <1>9, <2>1, ChangedRolesType DEF RolesChanged, Types
  <2>3. granted' \subseteq Users
    BY <2>1, <2>2
  <2> QED
    BY <1>0, <1>9, <2>3 DEF RolesChanged, HistoryType
<1>10. CASE RoomPropertiesChanged
  <2>1. Head(signals).subject \in Subjects
    BY <1>0, <1>10, NextSignal DEF RoomPropertiesChanged, Pair, RoleSignals, SubjectSignals
  <2>2. last' \in [Users \cup {Title} -> Events]
    BY <1>0, <1>10, <2>1, TitleWritten DEF RoomPropertiesChanged
  <2> QED
    BY <1>0, <1>10, <2>2 DEF RoomPropertiesChanged, HistoryType
<1>11. CASE TextChannelInvalidated
  <2>1. last' \in [Users \cup {Title} -> Events]
    <3>1. "SelfLeaving" \in Events
      BY DEF Events, LeaveTypes
    <3>2. NoEvents \/ WriteInformationEvent(Self, "SelfLeaving")
      BY <1>11 DEF TextChannelInvalidated
    <3> QED
      BY <1>0, <3>1, <3>2, EventWritten DEF NoEvents
  <2> QED
    BY <1>0, <1>11, <2>1 DEF TextChannelInvalidated, HistoryType
<1>12. CASE RemoveThread
  BY <1>0, <1>12 DEF RemoveThread, HistoryType, Events
<1>13. CASE MessageReceived \/ Crash
  BY <1>0, <1>13 DEF MessageReceived, Crash, HistoryType
<1>14. CASE SetJoined \/ MonitorProperties \/ SetLeft \/ RefreshRoles \/ UNCHANGED vars
  BY <1>0, <1>14 DEF SetJoined, MonitorProperties, SetLeft, RefreshRoles, vars, history, HistoryType
<1>15. ASSUME \/ \E u \in Users : ChangeRole(u)
              \/ \E s \in Subjects : ChangeSubject(s)
       PROVE  HistoryType'
  BY <1>0, <1>15 DEF ChangeRole, ChangeSubject, history, HistoryType
<1> QED
  BY <1>1, <1>2, <1>3, <1>4, <1>5, <1>6, <1>7, <1>8, <1>9, <1>10, <1>11, <1>12, <1>13, <1>14,
     <1>15 DEF Next

LEMMA TypesStep ==
    ASSUME Types, [Next]_vars
    PROVE  Types'
BY WorldStep, DaemonStep, TablesStep, HistoryStep DEF Types

-----------------------------------------------------------------------------
(* How far the daemon is with the channel                                  *)

\* A thread that is created exists, and is not joined.
LEMMA Created ==
    ASSUME Types, CreateThread
    PROVE  /\ info' # NoThread /\ info' \in InfoTypes /\ ~info'.joined /\ ~info'.selfAdmin
           /\ info'.subject = service.subject
<1>1. info' \in InfoTypes
  BY CreateThreadType DEF Types, TablesType
<1> QED
  BY <1>1, RoomAssumption DEF CreateThread

LEMMA ControlStep ==
    ASSUME Types, Control, [Next]_vars
    PROVE  Control'
<1>0. /\ listening = Heard
      /\ ~observed => at \in {"idle", "left"}
      /\ observed => channel.open
      /\ ~channel.open => Members = {}
      /\ at \notin {"idle", "members"} => info # NoThread
      /\ at \in {"participants", "selfJoined"} => ~info.joined
      /\ at = "selfLeaving" => info.joined
      /\ at = "roles" => rolesMap # NoThread
  BY DEF Control, ThreadExists
<1>e. WorldType /\ TablesType /\ observed \in BOOLEAN /\ at \in Steps
  BY DEF Types, DaemonType
<1> USE DEF Control, ThreadExists, Heard, Early, Members
<1>1. CASE OpenChannel
  BY <1>0, <1>1 DEF OpenChannel, daemon, tables
<1>2. CASE MoveUnseen
  <2>1. channel.open /\ channel'.open
    BY <1>2, <1>e, MoveResult DEF MoveUnseen
  <2> QED
    BY <1>0, <1>2, <2>1 DEF MoveUnseen, daemon, tables
<1>3. CASE CloseUnseen
  BY <1>0, <1>3 DEF CloseUnseen, daemon, tables, NoOne
<1>4. ASSUME \/ \E u \in Users : ChangeRole(u)
             \/ \E s \in Subjects : ChangeSubject(s)
             \/ UNCHANGED vars
      PROVE  Control'
  <2>1. /\ channel' = channel /\ observed' = observed /\ listening' = listening
        /\ at' = at /\ rolesMap' = rolesMap /\ info' = info
    BY <1>4 DEF ChangeRole, ChangeSubject, vars, world, daemon, tables
  <2> QED
    BY <1>0, <2>1
<1>5. CASE TextChannelAvailable
  <2>1. CASE info = NoThread
    BY <1>0, <1>5, <2>1, Created DEF TextChannelAvailable, world
  <2>2. CASE info # NoThread
    BY <1>0, <1>5, <2>2 DEF TextChannelAvailable, world, tables
  <2> QED
    BY <2>1, <2>2
<1>6. CASE InitialParticipants \/ SelfJoined \/ MonitorProperties
  BY <1>0, <1>6 DEF InitialParticipants, SelfJoined, MonitorProperties, world, tables
<1>7. CASE SetJoined
  <2>1. info' # NoThread
    BY <1>0, <1>7, <1>e, InfoUpdate DEF SetJoined
  <2> QED
    BY <1>0, <1>7, <2>1 DEF SetJoined, world
<1>8. CASE ConnectChannel
  BY <1>0, <1>8 DEF ConnectChannel, world
<1>9. CASE GroupMembersChanged
  <2>1. channel.open /\ channel'.open
    BY <1>9, <1>e, MoveResult DEF GroupMembersChanged
  <2>2. observed
    BY <1>0, <1>9 DEF GroupMembersChanged, Idle
  <2> QED
    BY <1>0, <1>9, <2>1, <2>2 DEF GroupMembersChanged, Idle
<1>10. CASE SelfLeaving
  BY <1>0, <1>10 DEF SelfLeaving, world
<1>11. CASE SetLeft
  BY <1>0, <1>11 DEF SetLeft, world
<1>12. CASE RefreshMembers
  BY <1>0, <1>12 DEF RefreshMembers, world
<1>13. CASE RolesChanged
  <2>1. rolesMap' # NoThread
    BY <1>13, <1>e, ChangedRolesType, RoomAssumption DEF RolesChanged, Types
  <2> QED
    BY <1>0, <1>13, <2>1 DEF RolesChanged, Idle
<1>14. CASE RefreshRoles
  BY <1>0, <1>14 DEF RefreshRoles, world
<1>15. CASE RoomPropertiesChanged
  BY <1>0, <1>15 DEF RoomPropertiesChanged, daemon, Idle
<1>16. CASE TextChannelInvalidated
  BY <1>0, <1>16 DEF TextChannelInvalidated, Disconnect, Idle, NoOne
<1>17. CASE RemoveThread
  BY <1>0, <1>17 DEF RemoveThread, world, daemon
<1>18. CASE MessageReceived
  BY <1>0, <1>18 DEF MessageReceived, world, Idle
<1>19. CASE Crash
  BY <1>0, <1>19 DEF Crash, Disconnect
<1> QED
  BY <1>1, <1>2, <1>3, <1>4, <1>5, <1>6, <1>7, <1>8, <1>9, <1>10, <1>11, <1>12, <1>13, <1>14,
     <1>15, <1>16, <1>17, <1>18, <1>19 DEF Next

-----------------------------------------------------------------------------
(* The signals on their way                                                *)

\* One more signal behind those there are.
LEMMA SignalAdded ==
    ASSUME signals \in Seq(Pair), NEW signal \in Pair, signals' = Append(signals, signal)
    PROVE  \E k \in DOMAIN signals' :
              /\ signals'[k] = signal
              /\ \A i \in DOMAIN signals : i \in DOMAIN signals' /\ signals'[i] = signals[i] /\ k > i
              /\ \A i \in DOMAIN signals' : i = k \/ i \in DOMAIN signals
<1>1. Len(signals') = Len(signals) + 1 /\ Len(signals) \in Nat
  OBVIOUS
<1>2. DOMAIN signals = 1 .. Len(signals) /\ DOMAIN signals' = 1 .. Len(signals')
  OBVIOUS
<1>3. \A i \in 1 .. Len(signals) : signals'[i] = signals[i]
  OBVIOUS
<1>4. signals'[Len(signals) + 1] = signal
  OBVIOUS
<1> QED
  BY <1>1, <1>2, <1>3, <1>4

\* The first is handled, and the others remain.
LEMMA SignalTaken ==
    ASSUME WorldType, signals # <<>>, signals' = Tail(signals)
    PROVE  /\ 1 \in DOMAIN signals /\ signals[1] = Head(signals)
           /\ \A i \in DOMAIN signals' : i + 1 \in DOMAIN signals /\ signals'[i] = signals[i + 1]
           /\ \A j \in DOMAIN signals : j = 1 \/
                 (j - 1 \in DOMAIN signals' /\ signals'[j - 1] = signals[j])
           /\ \A i \in DOMAIN signals : i \in Nat /\ i >= 1
<1>1. signals \in Seq(Pair)
  BY DEF WorldType, Pair
<1>2. signals' \in Seq(Pair) /\ Len(signals) \in Nat \ {0} /\ Len(signals') = Len(signals) - 1
  BY <1>1
<1>3. DOMAIN signals = 1 .. Len(signals) /\ DOMAIN signals' = 1 .. Len(signals')
  BY <1>1, <1>2
<1>4. \A i \in 1 .. Len(signals) - 1 : signals'[i] = signals[i + 1]
  BY <1>1
<1>5. signals[1] = Head(signals)
  BY <1>1
<1>6. \A j \in 2 .. Len(signals) : signals'[j - 1] = signals[j]
  <2> TAKE j \in 2 .. Len(signals)
  <2>1. j - 1 \in 1 .. Len(signals) - 1 /\ (j - 1) + 1 = j
    BY <1>2
  <2> QED
    BY <1>4, <2>1
<1> QED
  BY <1>2, <1>3, <1>4, <1>5, <1>6

\* What ChangeRole and ChangeSubject do to what the signals say.
LEMMA RoleChange ==
    ASSUME WorldType, NEW u \in Users, ChangeRole(u)
    PROVE  /\ service'.subject = service.subject
           /\ \A w \in Users \ {u} : w \in service'.admins <=> w \in service.admins
           /\ u \in service'.admins <=> u \notin service.admins
           /\ "roles" \notin listening => signals' = signals
           /\ "roles" \in listening =>
                 signals' = Append(signals, [kind |-> "roles", who |-> u,
                                             admin |-> u \notin service.admins])
<1>1. PICK admins : admins = IF u \notin service.admins
                             THEN service.admins \cup {u} ELSE service.admins \ {u}
  OBVIOUS
<1>2. service' = [service EXCEPT !.admins = admins]
  BY <1>1 DEF ChangeRole
<1>3. service'.admins = admins /\ service'.subject = service.subject
  BY <1>2 DEF WorldType
<1>4. /\ \A w \in Users \ {u} : w \in admins <=> w \in service.admins
      /\ u \in admins <=> u \notin service.admins
  BY <1>1
<1>5. Signal("roles", [kind |-> "roles", who |-> u, admin |-> u \notin service.admins])
  BY DEF ChangeRole
<1>6. PICK signal : signal = [kind |-> "roles", who |-> u, admin |-> u \notin service.admins]
  OBVIOUS
<1>7. signals' = IF "roles" \in listening THEN Append(signals, signal) ELSE signals
  BY <1>5, <1>6 DEF Signal
<1> QED
  BY <1>3, <1>4, <1>6, <1>7

LEMMA SubjectChange ==
    ASSUME WorldType, NEW s \in Subjects, ChangeSubject(s)
    PROVE  /\ service'.subject = s /\ service'.admins = service.admins
           /\ "properties" \notin listening => signals' = signals
           /\ "properties" \in listening =>
                 signals' = Append(signals, [kind |-> "properties", subject |-> s])
<1>1. service' = [service EXCEPT !.subject = s]
  BY DEF ChangeSubject
<1>2. service'.subject = s /\ service'.admins = service.admins
  BY <1>1 DEF WorldType
<1> QED
  BY <1>2 DEF ChangeSubject, Signal

LEMMA SignalledStep ==
    ASSUME Types, Control, Signalled, [Next]_vars
    PROVE  Signalled'
<1>0. WorldType /\ signals \in Seq(Pair)
  BY DEF Types, WorldType, Pair
<1>1. /\ "properties" \notin listening => signals = <<>>
      /\ "roles" \notin listening => \A i \in DOMAIN signals : signals[i].kind = "properties"
  BY DEF Signalled
<1>2. \A i \in DOMAIN signals : signals[i].kind = "roles" =>
          \/ signals[i].admin <=> signals[i].who \in service.admins
          \/ \E j \in DOMAIN signals :
                j > i /\ signals[j].kind = "roles" /\ signals[j].who = signals[i].who
  BY DEF Signalled
<1>3. \A i \in DOMAIN signals : signals[i].kind = "properties" =>
          \/ signals[i].subject = service.subject
          \/ \E j \in DOMAIN signals : j > i /\ signals[j].kind = "properties"
  BY DEF Signalled
<1>4. ("roles" \in listening => "properties" \in listening)
  BY DEF Control, Heard
<1>5. ASSUME signals' = signals, service'.admins = service.admins, service'.subject = service.subject,
             /\ "properties" \notin listening' => signals = <<>>
             /\ "roles" \notin listening' => \A i \in DOMAIN signals : signals[i].kind = "properties"
      PROVE  Signalled'
  BY <1>2, <1>3, <1>5 DEF Signalled
<1>6. \A i \in DOMAIN signals : signals[i] \in Pair
  BY <1>0
<1>7. ASSUME NEW u \in Users, ChangeRole(u)
      PROVE  Signalled'
  <2>1. /\ service'.subject = service.subject
        /\ \A w \in Users \ {u} : w \in service'.admins <=> w \in service.admins
        /\ u \in service'.admins <=> u \notin service.admins
        /\ listening' = listening
    BY <1>0, <1>7, RoleChange DEF ChangeRole, daemon
  <2>2. CASE "roles" \notin listening
    <3>1. signals' = signals
      BY <1>0, <1>7, <2>2, RoleChange
    <3> QED
      BY <1>1, <1>3, <2>1, <2>2, <3>1 DEF Signalled
  <2>3. CASE "roles" \in listening
    <3>1. PICK signal : signal = [kind |-> "roles", who |-> u, admin |-> u \notin service.admins]
      OBVIOUS
    <3>2. signal \in Pair /\ signal.kind = "roles" /\ signal.who = u
          /\ (signal.admin <=> u \notin service.admins)
      BY <3>1 DEF Pair, RoleSignals
    <3>3. signals' = Append(signals, signal)
      BY <1>0, <1>7, <2>3, <3>1, RoleChange
    <3>4. PICK k \in DOMAIN signals' :
              /\ signals'[k] = signal
              /\ \A i \in DOMAIN signals : i \in DOMAIN signals' /\ signals'[i] = signals[i] /\ k > i
              /\ \A i \in DOMAIN signals' : i = k \/ i \in DOMAIN signals
      BY <1>0, <3>2, <3>3, SignalAdded
    <3>5. ASSUME NEW i \in DOMAIN signals', signals'[i].kind = "roles"
          PROVE  \/ signals'[i].admin <=> signals'[i].who \in service'.admins
                 \/ \E j \in DOMAIN signals' :
                       j > i /\ signals'[j].kind = "roles" /\ signals'[j].who = signals'[i].who
      <4>1. CASE i = k
        BY <2>1, <3>2, <3>4, <4>1
      <4>2. CASE i \in DOMAIN signals /\ signals[i].who = u
        BY <3>2, <3>4, <4>2
      <4>3. CASE i \in DOMAIN signals /\ signals[i].who # u
        <5>1. signals'[i] = signals[i] /\ signals[i].kind = "roles" /\ signals[i].who \in Users
          BY <1>6, <3>4, <3>5, <4>3 DEF Pair, RoleSignals, SubjectSignals
        <5>2. CASE signals[i].admin <=> signals[i].who \in service.admins
          BY <2>1, <4>3, <5>1, <5>2
        <5>3. CASE \E j \in DOMAIN signals :
                      j > i /\ signals[j].kind = "roles" /\ signals[j].who = signals[i].who
          BY <3>4, <5>1, <5>3
        <5> QED
          BY <1>2, <4>3, <5>1, <5>2, <5>3
      <4> QED
        BY <3>4, <4>1, <4>2, <4>3
    <3>6. ASSUME NEW i \in DOMAIN signals', signals'[i].kind = "properties"
          PROVE  \/ signals'[i].subject = service'.subject
                 \/ \E j \in DOMAIN signals' : j > i /\ signals'[j].kind = "properties"
      <4>1. i \in DOMAIN signals /\ signals'[i] = signals[i]
        BY <3>2, <3>4, <3>6
      <4> QED
        BY <1>3, <2>1, <3>4, <3>6, <4>1
    <3> QED
      BY <1>4, <2>1, <2>3, <3>5, <3>6 DEF Signalled
  <2> QED
    BY <2>2, <2>3
<1>8. ASSUME NEW s \in Subjects, ChangeSubject(s)
      PROVE  Signalled'
  <2>1. service'.subject = s /\ service'.admins = service.admins /\ listening' = listening
    BY <1>0, <1>8, SubjectChange DEF ChangeSubject, daemon
  <2>2. CASE "properties" \notin listening
    <3>1. signals' = <<>>
      BY <1>0, <1>1, <1>8, <2>2, SubjectChange
    <3>2. DOMAIN signals' = {}
      BY <3>1
    <3> QED
      BY <3>1, <3>2 DEF Signalled
  <2>3. CASE "properties" \in listening
    <3>1. PICK signal : signal = [kind |-> "properties", subject |-> s]
      OBVIOUS
    <3>2. signal \in Pair /\ signal.kind = "properties" /\ signal.subject = s
      BY <3>1 DEF Pair, SubjectSignals
    <3>3. signals' = Append(signals, signal)
      BY <1>0, <1>8, <2>3, <3>1, SubjectChange
    <3>4. PICK k \in DOMAIN signals' :
              /\ signals'[k] = signal
              /\ \A i \in DOMAIN signals : i \in DOMAIN signals' /\ signals'[i] = signals[i] /\ k > i
              /\ \A i \in DOMAIN signals' : i = k \/ i \in DOMAIN signals
      BY <1>0, <3>2, <3>3, SignalAdded
    <3>5. ASSUME NEW i \in DOMAIN signals', signals'[i].kind = "properties"
          PROVE  \/ signals'[i].subject = service'.subject
                 \/ \E j \in DOMAIN signals' : j > i /\ signals'[j].kind = "properties"
      BY <2>1, <3>2, <3>4
    <3>6. ASSUME NEW i \in DOMAIN signals', signals'[i].kind = "roles"
          PROVE  \/ signals'[i].admin <=> signals'[i].who \in service'.admins
                 \/ \E j \in DOMAIN signals' :
                       j > i /\ signals'[j].kind = "roles" /\ signals'[j].who = signals'[i].who
      <4>1. i \in DOMAIN signals /\ signals'[i] = signals[i]
        BY <3>2, <3>4, <3>6
      <4> QED
        BY <1>2, <2>1, <3>4, <3>6, <4>1
    <3>7. "roles" \notin listening => \A i \in DOMAIN signals' : signals'[i].kind = "properties"
      BY <1>1, <3>2, <3>4
    <3> QED
      BY <2>1, <2>3, <3>5, <3>6, <3>7 DEF Signalled
  <2> QED
    BY <2>2, <2>3
<1>9. CASE RolesChanged \/ RoomPropertiesChanged
  <2>1. signals # <<>> /\ signals' = Tail(signals) /\ service' = service /\ listening' = listening
        /\ Listens
    BY <1>9 DEF RolesChanged, RoomPropertiesChanged, Idle, Listens, daemon
  <2>2. "properties" \in listening /\ "roles" \in listening
    BY <2>1 DEF Control, Heard, Listens
  <2>3. /\ \A i \in DOMAIN signals' : i + 1 \in DOMAIN signals /\ signals'[i] = signals[i + 1]
        /\ \A j \in DOMAIN signals : j = 1 \/
              (j - 1 \in DOMAIN signals' /\ signals'[j - 1] = signals[j])
        /\ \A j \in DOMAIN signals : j \in Nat /\ j >= 1
        /\ \A i \in DOMAIN signals' : i \in Nat /\ i >= 1
    <3>1. DOMAIN signals' \subseteq Nat \ {0}
      BY <1>0, <2>1
    <3> QED
      BY <1>0, <2>1, <3>1, SignalTaken
  <2>4. ASSUME NEW i \in DOMAIN signals', NEW j \in DOMAIN signals, j > i + 1
        PROVE  j - 1 \in DOMAIN signals' /\ j - 1 > i /\ signals'[j - 1] = signals[j]
    <3>1. i \in Nat /\ j \in Nat /\ j # 1 /\ j - 1 > i
      BY <2>3, <2>4
    <3> QED
      BY <2>3, <3>1
  <2>5. ASSUME NEW i \in DOMAIN signals', signals'[i].kind = "roles"
        PROVE  \/ signals'[i].admin <=> signals'[i].who \in service'.admins
               \/ \E j \in DOMAIN signals' :
                     j > i /\ signals'[j].kind = "roles" /\ signals'[j].who = signals'[i].who
    <3>1. i + 1 \in DOMAIN signals /\ signals'[i] = signals[i + 1]
      BY <2>3
    <3>2. \/ signals[i + 1].admin <=> signals[i + 1].who \in service.admins
          \/ \E j \in DOMAIN signals :
                j > i + 1 /\ signals[j].kind = "roles" /\ signals[j].who = signals[i + 1].who
      BY <1>2, <2>5, <3>1
    <3> QED
      BY <2>1, <2>4, <3>1, <3>2
  <2>6. ASSUME NEW i \in DOMAIN signals', signals'[i].kind = "properties"
        PROVE  \/ signals'[i].subject = service'.subject
               \/ \E j \in DOMAIN signals' : j > i /\ signals'[j].kind = "properties"
    <3>1. i + 1 \in DOMAIN signals /\ signals'[i] = signals[i + 1]
      BY <2>3
    <3>2. \/ signals[i + 1].subject = service.subject
          \/ \E j \in DOMAIN signals : j > i + 1 /\ signals[j].kind = "properties"
      BY <1>3, <2>6, <3>1
    <3> QED
      BY <2>1, <2>4, <3>1, <3>2
  <2> QED
    BY <2>1, <2>2, <2>5, <2>6 DEF Signalled
<1>10. CASE TextChannelInvalidated \/ Crash
  <2>1. signals' = <<>>
    BY <1>10 DEF TextChannelInvalidated, Crash, Disconnect
  <2>2. DOMAIN signals' = {}
    BY <2>1
  <2> QED
    BY <2>1, <2>2 DEF Signalled
<1>11. CASE MonitorProperties \/ ConnectChannel
  <2>1. signals' = signals /\ service' = service
    BY <1>11 DEF MonitorProperties, ConnectChannel, world
  <2>2. "properties" \in listening' /\ (MonitorProperties => signals = <<>>)
        /\ (ConnectChannel => "roles" \in listening')
    BY <1>1, <1>11 DEF Control, Heard, Early, MonitorProperties, ConnectChannel
  <2>3. signals = <<>> => DOMAIN signals = {}
    OBVIOUS
  <2> QED
    BY <1>5, <1>11, <2>1, <2>2, <2>3
<1>12. CASE \/ OpenChannel \/ MoveUnseen \/ CloseUnseen \/ RemoveThread
            \/ GroupMembersChanged \/ UNCHANGED vars
  BY <1>1, <1>5, <1>12 DEF OpenChannel, MoveUnseen, CloseUnseen, RemoveThread,
       GroupMembersChanged, vars, daemon, world
<1>13. CASE \/ TextChannelAvailable \/ InitialParticipants \/ SelfJoined \/ SetJoined
            \/ SelfLeaving \/ SetLeft \/ RefreshMembers \/ RefreshRoles \/ MessageReceived
  BY <1>1, <1>5, <1>13 DEF TextChannelAvailable, InitialParticipants, SelfJoined, SetJoined,
       SelfLeaving, SetLeft, RefreshMembers, RefreshRoles, MessageReceived, world
<1> QED
  BY <1>7, <1>8, <1>9, <1>10, <1>11, <1>12, <1>13 DEF Next

-----------------------------------------------------------------------------
(* What the daemon knows of the roles and the subject                      *)

\* Nothing changes that the known roles depend on.
LEMMA RolesKnownFrame ==
    ASSUME RolesKnown, signals' = signals, service'.admins = service.admins,
           lost' = lost, rolesMap' \in {rolesMap, NoThread}
    PROVE  RolesKnown'
BY DEF RolesKnown, Announced

\* updateRoomParticipants asks if it does not know.
LEMMA RolesKnownUpdate ==
    ASSUME RolesKnown, signals' = signals, service' = service, lost' = lost, rolesMap' = KnownRoles
    PROVE  RolesKnown'
<1>1. CASE rolesMap = NoThread
  BY <1>1 DEF RolesKnown, KnownRoles
<1>2. CASE rolesMap # NoThread
  BY <1>2 DEF RolesKnown, KnownRoles, Announced
<1> QED
  BY <1>1, <1>2

LEMMA RolesKnownStep ==
    ASSUME Types, Control, Signalled, RolesKnown, [Next]_vars
    PROVE  RolesKnown'
<1>0. WorldType /\ DaemonType /\ signals \in Seq(Pair)
  BY DEF Types, WorldType, Pair
<1>1. ASSUME NEW u \in Users, ChangeRole(u)
      PROVE  RolesKnown'
  <2>1. \A w \in Users \ {u} : w \in service'.admins <=> w \in service.admins
    BY <1>0, <1>1, RoleChange
  <2>2. rolesMap' = rolesMap
        /\ lost' = IF "roles" \notin listening /\ rolesMap # NoThread THEN lost \cup {u} ELSE lost
    BY <1>1 DEF ChangeRole, daemon
  <2>3. CASE "roles" \notin listening
    <3>1. signals' = signals
      BY <1>0, <1>1, <2>3, RoleChange
    <3> QED
      BY <2>1, <2>2, <2>3, <3>1 DEF RolesKnown, Announced
  <2>4. CASE "roles" \in listening
    <3>1. PICK signal : signal = [kind |-> "roles", who |-> u, admin |-> u \notin service.admins]
      OBVIOUS
    <3>2. signal \in Pair /\ signal.kind = "roles" /\ signal.who = u
      BY <3>1 DEF Pair, RoleSignals
    <3>3. signals' = Append(signals, signal)
      BY <1>0, <1>1, <2>4, <3>1, RoleChange
    <3>4. PICK k \in DOMAIN signals' :
              /\ signals'[k] = signal
              /\ \A i \in DOMAIN signals : i \in DOMAIN signals' /\ signals'[i] = signals[i] /\ k > i
      BY <1>0, <3>2, <3>3, SignalAdded
    <3>5. Announced(u)'
      BY <3>2, <3>4 DEF Announced
    <3>6. \A w \in Users : Announced(w) => Announced(w)'
      BY <3>4 DEF Announced
    <3> QED
      BY <2>1, <2>2, <2>4, <3>5, <3>6 DEF RolesKnown
  <2> QED
    BY <2>3, <2>4
<1>2. ASSUME NEW s \in Subjects, ChangeSubject(s)
      PROVE  RolesKnown'
  <2>1. service'.admins = service.admins /\ rolesMap' = rolesMap /\ lost' = lost
    BY <1>0, <1>2, SubjectChange DEF ChangeSubject, daemon, history
  <2>2. \A w \in Users : Announced(w) => Announced(w)'
    <3>1. CASE "properties" \notin listening
      BY <1>0, <1>2, <3>1, SubjectChange DEF Announced
    <3>2. CASE "properties" \in listening
      <4>1. PICK signal : signal = [kind |-> "properties", subject |-> s]
        OBVIOUS
      <4>2. signal \in Pair /\ signals' = Append(signals, signal)
        BY <1>0, <1>2, <3>2, <4>1, SubjectChange DEF Pair, SubjectSignals
      <4> QED
        BY <1>0, <4>2, SignalAdded DEF Announced
    <3> QED
      BY <3>1, <3>2
  <2> QED
    BY <2>1, <2>2 DEF RolesKnown
<1>3. CASE RolesChanged
  <2>1. /\ signals # <<>> /\ signals' = Tail(signals) /\ service' = service
        /\ Head(signals).kind = "roles" /\ rolesMap' = ChangedRoles(Head(signals))
        /\ lost' = lost \ {Head(signals).who}
    BY <1>3 DEF RolesChanged
  <2>2. PICK who, admin : who = Head(signals).who /\ admin = Head(signals).admin
    OBVIOUS
  <2>3. /\ 1 \in DOMAIN signals /\ signals[1] = Head(signals)
        /\ \A j \in DOMAIN signals : j = 1 \/
              (j - 1 \in DOMAIN signals' /\ signals'[j - 1] = signals[j])
        /\ \A i \in DOMAIN signals : i \in Nat /\ i >= 1
    BY <1>0, <2>1, SignalTaken
  <2>4. \A w \in Users \ {who} : Announced(w) => Announced(w)'
    <3> SUFFICES ASSUME NEW w \in Users \ {who}, Announced(w)
                 PROVE  Announced(w)'
      OBVIOUS
    <3>1. PICK i \in DOMAIN signals : signals[i].kind = "roles" /\ signals[i].who = w
      BY DEF Announced
    <3>2. i # 1
      BY <2>2, <2>3, <3>1
    <3> QED
      BY <2>3, <3>1, <3>2 DEF Announced
  <2>5. \A w \in Users : w \in KnownRoles \/ w \notin KnownRoles
    OBVIOUS
  <2>6. \A w \in Users \ {who} : w \in lost \/ Announced(w) \/ (w \in KnownRoles <=> w \in service.admins)
    BY DEF RolesKnown, KnownRoles
  <2>7. \A w \in Users \ {who} : w \in rolesMap' <=> w \in KnownRoles
    BY <2>1, <2>2 DEF ChangedRoles
  <2>8. who \in rolesMap' <=> admin
    <3>1. admin \in BOOLEAN
      BY <1>0, <2>1, <2>2, NextSignal DEF Pair, RoleSignals, SubjectSignals
    <3> QED
      BY <2>1, <2>2, <3>1 DEF ChangedRoles
  <2>9. Announced(who)' \/ (admin <=> who \in service.admins)
    <3>1. \/ signals[1].admin <=> signals[1].who \in service.admins
          \/ \E j \in DOMAIN signals :
                j > 1 /\ signals[j].kind = "roles" /\ signals[j].who = signals[1].who
      BY <2>1, <2>3 DEF Signalled
    <3>2. ASSUME NEW j \in DOMAIN signals, j > 1, signals[j].kind = "roles", signals[j].who = who
          PROVE  Announced(who)'
      <4>1. j # 1
        BY <2>3, <3>2
      <4> QED
        BY <2>3, <3>2, <4>1 DEF Announced
    <3> QED
      BY <2>2, <2>3, <3>1, <3>2
  <2> QED
    BY <2>1, <2>2, <2>4, <2>6, <2>7, <2>8, <2>9 DEF RolesKnown
<1>4. CASE RoomPropertiesChanged
  <2>1. /\ signals # <<>> /\ signals' = Tail(signals) /\ service' = service
        /\ Head(signals).kind = "properties" /\ rolesMap' = rolesMap /\ lost' = lost
    BY <1>4 DEF RoomPropertiesChanged, daemon
  <2>2. /\ signals[1] = Head(signals)
        /\ \A j \in DOMAIN signals : j = 1 \/
              (j - 1 \in DOMAIN signals' /\ signals'[j - 1] = signals[j])
    BY <1>0, <2>1, SignalTaken
  <2>3. \A w \in Users : Announced(w) => Announced(w)'
    <3> SUFFICES ASSUME NEW w \in Users, Announced(w)
                 PROVE  Announced(w)'
      OBVIOUS
    <3>1. PICK i \in DOMAIN signals : signals[i].kind = "roles" /\ signals[i].who = w
      BY DEF Announced
    <3>2. i # 1
      BY <2>1, <2>2, <3>1
    <3> QED
      BY <2>2, <3>1, <3>2 DEF Announced
  <2> QED
    BY <2>1, <2>3 DEF RolesKnown
<1>5. CASE InitialParticipants \/ RefreshMembers
  BY <1>5, RolesKnownUpdate DEF InitialParticipants, RefreshMembers, UpdateRoomParticipants, world
<1>6. CASE ConnectChannel
  BY <1>6, RolesKnownUpdate, RolesKnownFrame DEF ConnectChannel, UpdateRoomParticipants, world
<1>7. CASE TextChannelInvalidated \/ Crash
  BY <1>7 DEF TextChannelInvalidated, Crash, RolesKnown
<1>8. CASE \/ OpenChannel \/ MoveUnseen \/ CloseUnseen \/ RemoveThread
           \/ GroupMembersChanged \/ UNCHANGED vars
  BY <1>8, RolesKnownFrame DEF OpenChannel, MoveUnseen, CloseUnseen, RemoveThread,
       GroupMembersChanged, vars, daemon, world, history
<1>9. CASE \/ TextChannelAvailable \/ SelfJoined \/ SetJoined \/ MonitorProperties
           \/ SelfLeaving \/ SetLeft \/ RefreshRoles \/ MessageReceived
  BY <1>9, RolesKnownFrame DEF TextChannelAvailable, SelfJoined, SetJoined, MonitorProperties,
       SelfLeaving, SetLeft, RefreshRoles, MessageReceived, world, history
<1> QED
  BY <1>1, <1>2, <1>3, <1>4, <1>5, <1>6, <1>7, <1>8, <1>9 DEF Next

\* The subject of the row stays, and so does what is signalled.
LEMMA SubjectKnownFrame ==
    ASSUME SubjectKnown, signals' = signals, service'.subject = service.subject,
           Listens' => Listens,
           info' # NoThread => info # NoThread /\ info'.subject = info.subject
    PROVE  SubjectKnown'
BY DEF SubjectKnown, ThreadExists, Pending

LEMMA SubjectKnownStep ==
    ASSUME Types, Control, Signalled, SubjectKnown, [Next]_vars
    PROVE  SubjectKnown'
<1>0. WorldType /\ TablesType /\ signals \in Seq(Pair)
  BY DEF Types, WorldType, Pair
<1>1. ASSUME NEW u \in Users, ChangeRole(u)
      PROVE  SubjectKnown'
  <2>1. service'.subject = service.subject /\ info' = info /\ listening' = listening
    BY <1>0, <1>1, RoleChange DEF ChangeRole, daemon, tables
  <2>2. Pending("properties") => Pending("properties")'
    <3>1. CASE "roles" \notin listening
      BY <1>0, <1>1, <3>1, RoleChange DEF Pending
    <3>2. CASE "roles" \in listening
      <4>1. PICK signal : signal = [kind |-> "roles", who |-> u, admin |-> u \notin service.admins]
        OBVIOUS
      <4>2. signal \in Pair /\ signals' = Append(signals, signal)
        BY <1>0, <1>1, <3>2, <4>1, RoleChange DEF Pair, RoleSignals
      <4> QED
        BY <1>0, <4>2, SignalAdded DEF Pending
    <3> QED
      BY <3>1, <3>2
  <2> QED
    BY <2>1, <2>2 DEF SubjectKnown, Listens, ThreadExists
<1>2. ASSUME NEW s \in Subjects, ChangeSubject(s)
      PROVE  SubjectKnown'
  <2>1. listening' = listening
    BY <1>2 DEF ChangeSubject, daemon
  <2>2. CASE ~Listens
    BY <2>1, <2>2 DEF SubjectKnown, Listens
  <2>3. CASE Listens
    <3>1. "properties" \in listening
      BY <2>3 DEF Control, Heard, Listens
    <3>2. PICK signal : signal = [kind |-> "properties", subject |-> s]
      OBVIOUS
    <3>3. signal \in Pair /\ signal.kind = "properties" /\ signals' = Append(signals, signal)
      BY <1>0, <1>2, <3>1, <3>2, SubjectChange DEF Pair, SubjectSignals
    <3>4. Pending("properties")'
      BY <1>0, <3>3, SignalAdded DEF Pending
    <3> QED
      BY <3>4 DEF SubjectKnown
  <2> QED
    BY <2>2, <2>3
<1>3. CASE RolesChanged
  <2>1. /\ signals # <<>> /\ signals' = Tail(signals) /\ service' = service
        /\ Head(signals).kind = "roles" /\ info' = info /\ listening' = listening
    BY <1>3 DEF RolesChanged
  <2>2. /\ signals[1] = Head(signals)
        /\ \A j \in DOMAIN signals : j = 1 \/
              (j - 1 \in DOMAIN signals' /\ signals'[j - 1] = signals[j])
    BY <1>0, <2>1, SignalTaken
  <2>3. Pending("properties") => Pending("properties")'
    BY <2>1, <2>2 DEF Pending
  <2> QED
    BY <2>1, <2>3 DEF SubjectKnown, Listens, ThreadExists
<1>4. CASE RoomPropertiesChanged
  <2>1. /\ signals # <<>> /\ signals' = Tail(signals) /\ service' = service
        /\ Head(signals).kind = "properties"
        /\ UpdateRoomInfo("subject", Head(signals).subject, TRUE)
    BY <1>4 DEF RoomPropertiesChanged
  <2>2. /\ 1 \in DOMAIN signals /\ signals[1] = Head(signals)
        /\ \A j \in DOMAIN signals : j = 1 \/
              (j - 1 \in DOMAIN signals' /\ signals'[j - 1] = signals[j])
        /\ \A i \in DOMAIN signals : i \in Nat /\ i >= 1
    BY <1>0, <2>1, SignalTaken
  <2>3. Head(signals).subject \in Subjects
    BY <1>0, <2>1, NextSignal DEF Pair, RoleSignals, SubjectSignals
  <2>4. info' # NoThread => info'.subject = Head(signals).subject
    BY <1>0, <2>1, <2>3, InfoUpdate
  <2>5. \/ signals[1].subject = service.subject
        \/ \E j \in DOMAIN signals : j > 1 /\ signals[j].kind = "properties"
    BY <2>1, <2>2 DEF Signalled
  <2>6. ASSUME NEW j \in DOMAIN signals, j > 1, signals[j].kind = "properties"
        PROVE  Pending("properties")'
    <3>1. j # 1
      BY <2>2, <2>6
    <3> QED
      BY <2>2, <2>6, <3>1 DEF Pending
  <2> QED
    BY <2>1, <2>2, <2>4, <2>5, <2>6 DEF SubjectKnown, ThreadExists
<1>5. CASE ConnectChannel
  <2>1. info' # NoThread => info'.subject = service.subject
    <3>1. info' = IF info = NoThread THEN NoThread
                  ELSE [info EXCEPT !.subject = service.subject, !.persistent = service.persistent]
      BY <1>5 DEF ConnectChannel
    <3> QED
      BY <1>0, <3>1 DEF TablesType, InfoTypes
  <2>2. service' = service
    BY <1>5 DEF ConnectChannel, world
  <2> QED
    BY <2>1, <2>2 DEF SubjectKnown, ThreadExists
<1>6. CASE MessageReceived
  BY <1>6, Created DEF MessageReceived, world, SubjectKnown
<1>7. CASE TextChannelAvailable \/ InitialParticipants \/ SelfJoined \/ SetJoined \/ MonitorProperties
  <2>1. at' \in Early \cup {"connect"}
    BY <1>7 DEF TextChannelAvailable, InitialParticipants, SelfJoined, SetJoined,
         MonitorProperties, Early
  <2>2. listening' = Heard'
    BY ControlStep DEF Control
  <2>3. ~Listens'
    BY <2>1, <2>2 DEF Heard, Listens
  <2> QED
    BY <2>3 DEF SubjectKnown
<1>8. CASE TextChannelInvalidated \/ Crash
  BY <1>8 DEF TextChannelInvalidated, Crash, Disconnect, Listens, SubjectKnown
<1>9. CASE SetLeft
  <2>1. UpdateRoomInfo("joined", FALSE, TRUE) /\ listening' = listening
        /\ signals' = signals /\ service' = service
    BY <1>9 DEF SetLeft, world
  <2> QED
    BY <1>0, <2>1, InfoUpdate, SubjectKnownFrame DEF Listens
<1>10. CASE RefreshRoles
  <2>1. /\ listening' = listening /\ signals' = signals /\ service' = service
        /\ \E value \in BOOLEAN : UpdateRoomInfo("selfAdmin", value, TRUE)
    <3>1. (Self \in rolesMap) \in BOOLEAN
      OBVIOUS
    <3> QED
      BY <1>10, <3>1 DEF RefreshRoles, world
  <2> QED
    BY <1>0, <2>1, InfoUpdate, SubjectKnownFrame DEF Listens
<1>11. CASE RemoveThread
  BY <1>11 DEF RemoveThread, SubjectKnown, ThreadExists
<1>12. CASE \/ OpenChannel \/ MoveUnseen \/ CloseUnseen
            \/ GroupMembersChanged \/ SelfLeaving \/ RefreshMembers \/ UNCHANGED vars
  BY <1>12, SubjectKnownFrame DEF OpenChannel, MoveUnseen, CloseUnseen, GroupMembersChanged,
       SelfLeaving, RefreshMembers, Listens, vars, daemon, world, tables
<1> QED
  BY <1>1, <1>2, <1>3, <1>4, <1>5, <1>6, <1>7, <1>8, <1>9, <1>10, <1>11, <1>12 DEF Next

-----------------------------------------------------------------------------
(* The rows of the participants                                            *)

\* Which rows updateRoomParticipants writes.
LEMMA ChannelRow ==
    ASSUME NEW admins, NEW r \in RowTypes
    PROVE  ChannelRows(admins)[r] =
              IF r.id \in Members /\ r.state = channel.members[r.id] /\ (r.admin <=> r.id \in admins)
              THEN 1 ELSE 0
<1>1. r = [id |-> r.id, state |-> r.state, admin |-> r.admin] /\ r.admin \in BOOLEAN
  BY DEF RowTypes
<1>2. PICK there : there = {Row(u, channel.members[u], u \in admins) : u \in Members}
  OBVIOUS
<1>3. ASSUME r \in there
      PROVE  r.id \in Members /\ r.state = channel.members[r.id] /\ (r.admin <=> r.id \in admins)
  <2>1. PICK u \in Members : r = Row(u, channel.members[u], u \in admins)
    BY <1>2, <1>3
  <2>2. r.id = u /\ r.state = channel.members[u] /\ (r.admin <=> u \in admins)
    BY <2>1 DEF Row
  <2> QED
    BY <2>2
<1>4. ASSUME r.id \in Members, r.state = channel.members[r.id], r.admin <=> r.id \in admins
      PROVE  r \in there
  <2>1. r = Row(r.id, channel.members[r.id], r.id \in admins)
    BY <1>1, <1>4 DEF Row
  <2> QED
    BY <1>2, <1>4, <2>1
<1>5. ChannelRows(admins)[r] = IF r \in there THEN 1 ELSE 0
  BY <1>2 DEF ChannelRows
<1> QED
  BY <1>3, <1>4, <1>5

LEMMA RowsUpdated ==
    ASSUME NEW notify, UpdateRoomParticipants(notify), channel' = channel
    PROVE  rows' = ChannelRows(rolesMap)' /\ rolesMap' = KnownRoles
BY DEF UpdateRoomParticipants, ChannelRows, Members

\* updateRoomParticipantsRoles leaves the members once each, with their roles.
LEMMA RowsRefreshed ==
    ASSUME Types, RefreshRoles, NEW admins \in SUBSET Users, rows = ChannelRows(admins)
    PROVE  rows' = ChannelRows(rolesMap)
<1>1. \A r \in RowTypes : rows'[r] =
         IF r.id \notin Members THEN rows[r]
         ELSE IF r.admin # (r.id \in rolesMap) THEN 0
         ELSE rows[r] + rows[Row(r.id, r.state, ~r.admin)]
  BY DEF RefreshRoles
<1>2. ASSUME NEW r \in RowTypes
      PROVE  rows'[r] = ChannelRows(rolesMap)[r]
  <2>1. PICK o \in RowTypes : o = Row(r.id, r.state, ~r.admin)
    BY DEF Row, RowTypes
  <2>2. o.id = r.id /\ o.state = r.state /\ (o.admin <=> ~r.admin)
        /\ r.admin \in BOOLEAN /\ o.admin \in BOOLEAN
    BY <2>1 DEF Row, RowTypes
  <2>3. rows[r] = (IF r.id \in Members /\ r.state = channel.members[r.id] /\ (r.admin <=> r.id \in admins)
                   THEN 1 ELSE 0)
    BY ChannelRow
  <2>4. rows[o] = (IF r.id \in Members /\ r.state = channel.members[r.id] /\ (~r.admin <=> r.id \in admins)
                   THEN 1 ELSE 0)
    BY <2>2, ChannelRow
  <2>5. ChannelRows(rolesMap)[r] =
          (IF r.id \in Members /\ r.state = channel.members[r.id] /\ (r.admin <=> r.id \in rolesMap)
           THEN 1 ELSE 0)
    BY ChannelRow
  <2>6. CASE r.id \notin Members
    BY <1>1, <2>3, <2>5, <2>6
  <2>7. CASE r.id \in Members /\ ~(r.admin <=> r.id \in rolesMap)
    <3>1. r.admin # (r.id \in rolesMap)
      BY <2>2, <2>7
    <3> QED
      BY <1>1, <2>5, <2>7, <3>1
  <2>8. CASE r.id \in Members /\ (r.admin <=> r.id \in rolesMap)
    <3>1. ~(r.admin # (r.id \in rolesMap))
      BY <2>2, <2>8
    <3>2. rows'[r] = rows[r] + rows[o]
      BY <1>1, <2>1, <2>8, <3>1
    <3>3. CASE r.state = channel.members[r.id]
      <4>1. rows[r] = (IF r.admin <=> r.id \in admins THEN 1 ELSE 0)
            /\ rows[o] = (IF ~r.admin <=> r.id \in admins THEN 1 ELSE 0)
        BY <2>3, <2>4, <2>8, <3>3
      <4>2. CASE r.admin <=> r.id \in admins
        <5>1. ~(~r.admin <=> r.id \in admins)
          BY <2>2, <4>2
        <5> QED
          BY <2>5, <2>8, <3>2, <3>3, <4>1, <4>2, <5>1
      <4>3. CASE ~(r.admin <=> r.id \in admins)
        <5>1. ~r.admin <=> r.id \in admins
          BY <2>2, <4>3
        <5> QED
          BY <2>5, <2>8, <3>2, <3>3, <4>1, <4>3, <5>1
      <4> QED
        BY <4>2, <4>3
    <3>4. CASE r.state # channel.members[r.id]
      BY <2>3, <2>4, <2>5, <3>2, <3>4
    <3> QED
      BY <3>3, <3>4
  <2> QED
    BY <2>6, <2>7, <2>8
<1>3. DOMAIN rows' = RowTypes /\ rows' = [r \in RowTypes |-> rows'[r]]
  BY DEF RefreshRoles
<1>4. ChannelRows(rolesMap) = [r \in RowTypes |-> ChannelRows(rolesMap)[r]]
  BY DEF ChannelRows
<1> QED
  BY <1>2, <1>3, <1>4

\* When nothing that is known of the rows changes.
LEMMA RowsKnownFrame ==
    ASSUME RowsKnown, rows' = rows, rolesMap' = rolesMap, channel' = channel,
           at' = at, Listens' => Listens, fresh' => fresh, info' # NoThread => info # NoThread
    PROVE  RowsKnown'
BY DEF RowsKnown, ThreadExists, ChannelRows, Members

LEMMA RowsKnownStep ==
    ASSUME Types, Control, RowsKnown, [Next]_vars
    PROVE  RowsKnown'
<1>0. TablesType /\ WorldType /\ DaemonType
  BY DEF Types
<1>1. ASSUME ~Listens' \/ ~fresh' \/ info' = NoThread \/ at' \notin {"idle", "roles"}
      PROVE  RowsKnown'
  BY <1>1 DEF RowsKnown, ThreadExists
<1>2. CASE TextChannelInvalidated \/ Crash
  BY <1>1, <1>2 DEF TextChannelInvalidated, Crash, Disconnect, Listens
<1>3. CASE \/ TextChannelAvailable \/ InitialParticipants \/ SelfJoined \/ SetJoined
           \/ MonitorProperties \/ SelfLeaving \/ GroupMembersChanged
  BY <1>1, <1>3 DEF TextChannelAvailable, InitialParticipants, SelfJoined, SetJoined,
       MonitorProperties, SelfLeaving, GroupMembersChanged
<1>4. CASE RemoveThread \/ MessageReceived
  BY <1>1, <1>4 DEF RemoveThread, MessageReceived
<1>5. CASE OpenChannel \/ MoveUnseen \/ CloseUnseen
  <2>1. ~Listens'
    BY <1>5 DEF OpenChannel, MoveUnseen, CloseUnseen, daemon, Listens, Control, Heard
  <2> QED
    BY <1>1, <2>1
<1>6. CASE SetLeft
  BY <1>1, <1>6 DEF SetLeft, Control, Heard, Listens
<1>7. CASE RefreshMembers
  <2>1. rows' = ChannelRows(rolesMap)' /\ rolesMap' = KnownRoles
    BY <1>7, RowsUpdated DEF RefreshMembers, world
  <2>2. rolesMap' # NoThread /\ at' = "idle"
    BY <1>0, <1>7, <2>1, KnownRolesType, RoomAssumption DEF RefreshMembers
  <2> QED
    BY <2>1, <2>2 DEF RowsKnown
<1>8. CASE ConnectChannel
  <2>1. CASE fresh
    <3>1. rows' = ChannelRows(rolesMap)' /\ rolesMap' = KnownRoles
      BY <1>8, <2>1, RowsUpdated DEF ConnectChannel, world
    <3>2. rolesMap' # NoThread /\ at' = "idle"
      BY <1>0, <1>8, <3>1, KnownRolesType, RoomAssumption DEF ConnectChannel
    <3> QED
      BY <3>1, <3>2 DEF RowsKnown
  <2>2. CASE ~fresh
    BY <1>1, <1>8, <2>2 DEF ConnectChannel
  <2> QED
    BY <2>1, <2>2
<1>9. CASE RolesChanged
  <2>1. /\ at = "idle" /\ Listens /\ at' = (IF info = NoThread THEN "idle" ELSE "roles")
        /\ fresh' = fresh /\ info' = info /\ rows' = rows /\ channel' = channel
    BY <1>9 DEF RolesChanged, Idle, Listens
  <2>2. CASE info = NoThread \/ ~fresh
    BY <1>1, <2>1, <2>2
  <2>3. CASE info # NoThread /\ fresh
    <3>1. rows = ChannelRows(rolesMap) /\ rolesMap \in SUBSET Users
      BY <1>0, <2>1, <2>3 DEF RowsKnown, ThreadExists, DaemonType
    <3>2. PICK admins \in SUBSET Users : rows = ChannelRows(admins)
      BY <3>1
    <3>3. rows' = ChannelRows(admins)'
      BY <2>1, <3>2 DEF ChannelRows, Members
    <3> QED
      BY <2>1, <2>3, <3>3 DEF RowsKnown
  <2> QED
    BY <2>2, <2>3
<1>10. CASE RefreshRoles
  <2>1. /\ at = "roles" /\ at' = "idle" /\ fresh' = fresh /\ rolesMap' = rolesMap
        /\ listening' = listening /\ channel' = channel /\ rolesMap # NoThread /\ info # NoThread
    BY <1>10 DEF RefreshRoles, world, Control, ThreadExists
  <2>2. CASE ~(Listens /\ fresh)
    BY <1>1, <2>1, <2>2 DEF Listens
  <2>3. CASE Listens /\ fresh
    <3>1. PICK admins \in SUBSET Users : rows = ChannelRows(admins)
      BY <2>1, <2>3 DEF RowsKnown, ThreadExists
    <3>2. rows' = ChannelRows(rolesMap)
      BY <1>10, <3>1, RowsRefreshed
    <3>3. rows' = ChannelRows(rolesMap)'
      BY <2>1, <3>2 DEF ChannelRows, Members
    <3> QED
      BY <2>1, <3>3 DEF RowsKnown
  <2> QED
    BY <2>2, <2>3
<1>11. CASE RoomPropertiesChanged
  <2>1. /\ rows' = rows /\ rolesMap' = rolesMap /\ channel' = channel /\ at' = at
        /\ listening' = listening /\ fresh' = fresh
        /\ info' # NoThread => info # NoThread
    BY <1>11 DEF RoomPropertiesChanged, daemon, UpdateRoomInfo
  <2> QED
    BY <2>1, RowsKnownFrame DEF Listens
<1>12. ASSUME \/ \E u \in Users : ChangeRole(u)
              \/ \E s \in Subjects : ChangeSubject(s)
              \/ UNCHANGED vars
       PROVE  RowsKnown'
  <2>1. /\ rows' = rows /\ rolesMap' = rolesMap /\ channel' = channel /\ at' = at
        /\ listening' = listening /\ fresh' = fresh /\ info' = info
    BY <1>12 DEF ChangeRole, ChangeSubject, vars, world, daemon, tables
  <2> QED
    BY <2>1, RowsKnownFrame DEF Listens
<1> QED
  BY <1>2, <1>3, <1>4, <1>5, <1>6, <1>7, <1>8, <1>9, <1>10, <1>11, <1>12 DEF Next

-----------------------------------------------------------------------------
(* What the clients know                                                   *)

LEMMA ProtocolStays ==
    ASSUME WorldType, [Next]_vars
    PROVE  service'.protocol = service.protocol
<1>1. ASSUME NEW u \in Users, ChangeRole(u)
      PROVE  service'.protocol = service.protocol
  <2>1. PICK admins : service' = [service EXCEPT !.admins = admins]
    BY <1>1 DEF ChangeRole
  <2> QED
    BY <2>1 DEF WorldType
<1>2. ASSUME NEW s \in Subjects, ChangeSubject(s)
      PROVE  service'.protocol = service.protocol
  BY <1>2 DEF ChangeSubject, WorldType
<1>3. CASE \/ OpenChannel \/ MoveUnseen \/ CloseUnseen \/ TextChannelAvailable
           \/ InitialParticipants \/ SelfJoined \/ SetJoined \/ MonitorProperties
           \/ ConnectChannel \/ GroupMembersChanged \/ SelfLeaving
  BY <1>3 DEF OpenChannel, MoveUnseen, CloseUnseen, TextChannelAvailable, InitialParticipants,
     SelfJoined, SetJoined, MonitorProperties, ConnectChannel, GroupMembersChanged, SelfLeaving, world
<1>4. CASE \/ SetLeft \/ RefreshMembers \/ RolesChanged \/ RefreshRoles \/ RoomPropertiesChanged
           \/ TextChannelInvalidated \/ RemoveThread \/ MessageReceived \/ Crash \/ UNCHANGED vars
  BY <1>4 DEF SetLeft, RefreshMembers, RolesChanged, RefreshRoles, RoomPropertiesChanged,
     TextChannelInvalidated, RemoveThread, MessageReceived, Crash, vars, world
<1> QED
  BY <1>1, <1>2, <1>3, <1>4 DEF Next

\* An announcement says what is stored after the step.
LEMMA AnnouncedIsStored ==
    ASSUME service'.protocol = service.protocol, Announce
    PROVE  ClientsKnowRoom'
BY DEF Announce, ClientsKnowRoom, Thread, IncludeParticipants, NoRows

LEMMA ClientsKnowFrame ==
    ASSUME service'.protocol = service.protocol, ClientsKnowRoom,
           info' = info, rows' = rows, told' = told, at' = at, listening' = listening,
           channel'.self = channel.self
    PROVE  ClientsKnowRoom'
BY DEF ClientsKnowRoom, Settled, Idle, ThreadExists, Thread, IncludeParticipants, NoRows

LEMMA ClientsStep ==
    ASSUME Types, Control, ClientsKnowRoom, [Next]_vars
    PROVE  ClientsKnowRoom'
<1>0. service'.protocol = service.protocol
  BY ProtocolStays DEF Types
<1>1. ASSUME ~Listens' \/ info' = NoThread \/ at' # "idle" \/ channel'.self = "Pending"
      PROVE  ClientsKnowRoom'
  BY <1>1 DEF ClientsKnowRoom, Settled, Idle, ThreadExists, Listens
<1>2. CASE TextChannelInvalidated \/ Crash
  BY <1>1, <1>2 DEF TextChannelInvalidated, Crash, Disconnect, Listens
<1>3. CASE \/ TextChannelAvailable \/ InitialParticipants \/ SelfJoined \/ SetJoined
           \/ MonitorProperties \/ SelfLeaving \/ GroupMembersChanged
  BY <1>1, <1>3 DEF TextChannelAvailable, InitialParticipants, SelfJoined, SetJoined,
       MonitorProperties, SelfLeaving, GroupMembersChanged
<1>4. CASE RemoveThread
  BY <1>1, <1>4 DEF RemoveThread
<1>5. CASE OpenChannel \/ MoveUnseen \/ CloseUnseen
  <2>1. ~Listens'
    BY <1>5 DEF OpenChannel, MoveUnseen, CloseUnseen, daemon, Listens, Control, Heard
  <2> QED
    BY <1>1, <2>1
<1>6. CASE ConnectChannel \/ MessageReceived \/ SetLeft \/ RefreshRoles \/ RoomPropertiesChanged
  <2>1. Announce
    BY <1>6 DEF ConnectChannel, MessageReceived, SetLeft, RefreshRoles, RoomPropertiesChanged,
         UpdateRoomInfo, UpdateRoomParticipants
  <2> QED
    BY <1>0, <2>1, AnnouncedIsStored
<1>7. CASE RefreshMembers
  <2>1. CASE SelfContactIsPending
    BY <1>1, <1>7, <2>1 DEF RefreshMembers, SelfContactIsPending, world
  <2>2. CASE ~SelfContactIsPending
    BY <1>0, <1>7, <2>2, AnnouncedIsStored DEF RefreshMembers, UpdateRoomParticipants
  <2> QED
    BY <2>1, <2>2
<1>8. CASE RolesChanged
  <2>1. CASE info = NoThread
    BY <1>1, <1>8, <2>1 DEF RolesChanged
  <2>2. CASE info # NoThread
    BY <1>1, <1>8, <2>2 DEF RolesChanged
  <2> QED
    BY <2>1, <2>2
<1>9. ASSUME \/ \E u \in Users : ChangeRole(u)
             \/ \E s \in Subjects : ChangeSubject(s)
             \/ UNCHANGED vars
      PROVE  ClientsKnowRoom'
  <2>1. /\ info' = info /\ rows' = rows /\ told' = told /\ at' = at /\ listening' = listening
        /\ channel' = channel
    BY <1>9 DEF ChangeRole, ChangeSubject, vars, world, daemon, tables
  <2> QED
    BY <1>0, <2>1, ClientsKnowFrame
<1> QED
  BY <1>2, <1>3, <1>4, <1>5, <1>6, <1>7, <1>8, <1>9 DEF Next

-----------------------------------------------------------------------------
(* Whether we have joined                                                  *)

LEMMA JoinedKnownStep ==
    ASSUME Types, Control, JoinedKnown, [Next]_vars
    PROVE  JoinedKnown'
<1>0. /\ TablesType /\ WorldType /\ at \in Steps /\ observed \in BOOLEAN
      /\ channel.self \in SelfStates
      /\ (Phone' <=> Phone)
      /\ Control'
  BY ProtocolStays, ControlStep, ChannelType DEF Types, DaemonType, Phone
<1>1. /\ ~observed => at \in {"idle", "left"}
      /\ observed => channel.open
      /\ at \notin {"idle", "members"} => info # NoThread
      /\ Listens <=> observed /\ at \notin Early \cup {"connect"}
  BY DEF Control, Heard, Listens, ThreadExists
<1> SUFFICES ASSUME info' # NoThread, ~torn', Self \notin silent'
             PROVE  /\ at' \in Early \cup {"connect"} => channel'.self # "Removed"
                    /\ at' \in {"monitor", "connect"} => info'.joined
                    /\ observed' /\ at' \in {"idle", "members", "roles"} =>
                          (info'.joined <=> channel'.self # "Removed")
                    /\ observed' /\ at' \in {"selfLeaving", "left"} => channel'.self = "Removed"
                    /\ at' = "idle" /\ ~channel'.open /\ ~info'.persistent /\ ~Phone =>
                          ~info'.joined
  BY <1>0 DEF JoinedKnown, InRoom, ThreadExists
<1> DEFINE Goal == /\ at' \in Early \cup {"connect"} => channel'.self # "Removed"
                   /\ at' \in {"monitor", "connect"} => info'.joined
                   /\ observed' /\ at' \in {"idle", "members", "roles"} =>
                         (info'.joined <=> channel'.self # "Removed")
                   /\ observed' /\ at' \in {"selfLeaving", "left"} => channel'.self = "Removed"
                   /\ at' = "idle" /\ ~channel'.open /\ ~info'.persistent /\ ~Phone =>
                         ~info'.joined
           Known == /\ at \in Early \cup {"connect"} => channel.self # "Removed"
                    /\ at \in {"monitor", "connect"} => info.joined
                    /\ observed /\ at \in {"idle", "members", "roles"} =>
                          (info.joined <=> channel.self # "Removed")
                    /\ observed /\ at \in {"selfLeaving", "left"} => channel.self = "Removed"
                    /\ at = "idle" /\ ~channel.open /\ ~info.persistent /\ ~Phone =>
                          ~info.joined
<1> SUFFICES Goal
  OBVIOUS
<1>2. info # NoThread /\ ~torn /\ Self \notin silent => Known
  BY DEF JoinedKnown, InRoom, ThreadExists
<1>3. CASE OpenChannel \/ MoveUnseen
  <2>1. channel'.open
    <3>1. CASE OpenChannel
      BY <3>1 DEF OpenChannel
    <3>2. CASE MoveUnseen
      BY <1>0, <3>2, MoveResult DEF MoveUnseen
    <3> QED
      BY <1>3, <3>1, <3>2
  <2>2. ~observed' /\ at' \in {"idle", "left"}
    BY <1>1, <1>3 DEF OpenChannel, MoveUnseen, daemon, Listens, Early
  <2> QED
    BY <2>1, <2>2 DEF Early
<1>4. CASE CloseUnseen
  BY <1>4 DEF CloseUnseen
<1>5. ASSUME \/ \E u \in Users : ChangeRole(u)
             \/ \E s \in Subjects : ChangeSubject(s)
             \/ UNCHANGED vars
      PROVE  Goal
  <2>1. /\ channel' = channel /\ observed' = observed /\ at' = at /\ info' = info
        /\ silent' = silent /\ torn' = torn
    BY <1>5 DEF ChangeRole, ChangeSubject, vars, world, daemon, tables, history
  <2> QED
    BY <1>2, <2>1
<1>6. CASE TextChannelAvailable
  <2>1. channel' = channel /\ channel.self # "Removed" /\ observed' /\ channel.open
    BY <1>6 DEF TextChannelAvailable, world
  <2>2. CASE info = NoThread
    BY <1>6, <2>1, <2>2 DEF TextChannelAvailable
  <2>3. CASE info # NoThread
    BY <1>6, <2>1, <2>3 DEF TextChannelAvailable, tables, Early
  <2> QED
    BY <2>2, <2>3
<1>7. CASE InitialParticipants \/ SelfJoined \/ MonitorProperties
  <2>1. /\ channel' = channel /\ info' = info /\ silent' = silent /\ torn' = torn
        /\ at \in Early /\ at' \in {"selfJoined", "joined", "connect"}
        /\ at' = "connect" => at = "monitor"
    BY <1>7 DEF InitialParticipants, SelfJoined, MonitorProperties, Early, world, tables, history
  <2> QED
    BY <1>2, <2>1 DEF Early
<1>8. CASE SetJoined
  <2>1. /\ channel' = channel /\ silent' = silent /\ torn' = torn /\ at = "joined" /\ at' = "monitor"
        /\ UpdateRoomInfo("joined", TRUE, FALSE)
    BY <1>8 DEF SetJoined, world, history
  <2>2. info # NoThread /\ info'.joined
    BY <1>0, <2>1, InfoUpdate
  <2> QED
    BY <1>2, <2>1, <2>2 DEF Early
<1>9. CASE ConnectChannel
  <2>1. /\ channel' = channel /\ silent' = silent /\ torn' = torn /\ at = "connect" /\ at' = "idle"
        /\ info' = IF info = NoThread THEN NoThread
                   ELSE [info EXCEPT !.subject = service.subject, !.persistent = service.persistent]
    BY <1>9 DEF ConnectChannel, world
  <2>2. info # NoThread /\ info'.joined = info.joined
    BY <1>0, <2>1 DEF TablesType, InfoTypes
  <2> QED
    BY <1>1, <1>2, <2>1, <2>2 DEF Early
<1>10. CASE GroupMembersChanged
  <2>1. PICK m \in Moves :
           /\ Move(m)
           /\ silent' = silent \/ silent' = silent \cup ({m.who} \ {Self})
           /\ at' = IF info # NoThread /\ OwnRemoval(m) /\ info.joined THEN "selfLeaving" ELSE "members"
    BY <1>10 DEF GroupMembersChanged
  <2>2. channel'.self = m.self
    BY <1>0, <2>1, MoveResult
  <2>3. info' = info /\ torn' = torn /\ observed' = observed /\ at = "idle" /\ Listens
    BY <1>10 DEF GroupMembersChanged, Idle, Listens
  <2>4. info.joined <=> channel.self # "Removed"
    BY <1>1, <1>2, <2>1, <2>3
  <2>5. ContactMoved(m) \/ SelfMoved(m)
    BY <1>0, MovesMove
  <2>6. CASE OwnRemoval(m) /\ info.joined
    BY <2>1, <2>2, <2>3, <2>6 DEF OwnRemoval, Early
  <2>7. CASE ~(OwnRemoval(m) /\ info.joined)
    <3>1. info.joined <=> m.self # "Removed"
      BY <2>4, <2>5, <2>7 DEF ContactMoved, SelfMoved, OwnRemoval
    <3> QED
      BY <2>1, <2>2, <2>3, <2>7, <3>1 DEF Early
  <2> QED
    BY <2>6, <2>7
<1>11. CASE SelfLeaving
  <2>1. /\ channel' = channel /\ silent' = silent /\ torn' = torn /\ at = "selfLeaving" /\ at' = "left"
        /\ info' = info /\ observed' = observed
    BY <1>11 DEF SelfLeaving, world
  <2> QED
    BY <1>2, <2>1 DEF Early
<1>12. CASE SetLeft
  <2>1. /\ channel' = channel /\ silent' = silent /\ torn' = torn /\ at = "left" /\ observed' = observed
        /\ at' = (IF observed THEN "members" ELSE "idle")
        /\ UpdateRoomInfo("joined", FALSE, TRUE)
    BY <1>12 DEF SetLeft, world, history
  <2>2. info # NoThread /\ ~info'.joined
    BY <1>0, <2>1, InfoUpdate
  <2> QED
    BY <1>2, <2>1, <2>2 DEF Early
<1>13. CASE RefreshMembers
  <2>1. /\ channel' = channel /\ silent' = silent /\ torn' = torn /\ at = "members" /\ at' = "idle"
        /\ info' = info /\ observed' = observed
    BY <1>13 DEF RefreshMembers, world
  <2> QED
    BY <1>1, <1>2, <2>1 DEF Early
<1>14. CASE RolesChanged
  <2>1. /\ channel' = channel /\ silent' = silent /\ torn' = torn /\ at = "idle" /\ at' \in {"idle", "roles"}
        /\ info' = info /\ observed' = observed /\ Listens
    BY <1>14 DEF RolesChanged, Idle, Listens
  <2> QED
    BY <1>1, <1>2, <2>1 DEF Early
<1>15. CASE RefreshRoles
  <2>1. /\ channel' = channel /\ silent' = silent /\ torn' = torn /\ at = "roles" /\ at' = "idle"
        /\ observed' = observed
    BY <1>15 DEF RefreshRoles, world, history
  <2>2. PICK value \in BOOLEAN : UpdateRoomInfo("selfAdmin", value, TRUE)
    <3>1. (Self \in rolesMap) \in BOOLEAN
      OBVIOUS
    <3> QED
      BY <1>15, <3>1 DEF RefreshRoles
  <2>3. info # NoThread /\ info'.joined = info.joined
    BY <1>0, <2>2, InfoUpdate
  <2> QED
    BY <1>1, <1>2, <2>1, <2>3 DEF Early
<1>16. CASE RoomPropertiesChanged
  <2>1. /\ channel' = channel /\ silent' = silent /\ torn' = torn /\ at = "idle" /\ at' = "idle"
        /\ observed' = observed /\ Listens /\ signals # <<>> /\ Head(signals).kind = "properties"
        /\ UpdateRoomInfo("subject", Head(signals).subject, TRUE)
    BY <1>16 DEF RoomPropertiesChanged, Idle, Listens, daemon
  <2>2. Head(signals).subject \in Subjects
    BY <1>0, <2>1, NextSignal DEF Pair, RoleSignals, SubjectSignals
  <2>3. info # NoThread /\ info'.joined = info.joined
    BY <1>0, <2>1, <2>2, InfoUpdate
  <2> QED
    BY <1>1, <1>2, <2>1, <2>3 DEF Early
<1>17. CASE TextChannelInvalidated
  <2>1. ~observed' /\ info' = info /\ at = "idle" /\ at' \in {"left", "idle"}
        /\ (info # NoThread /\ ~info.persistent /\ ~Phone => at' = "left")
    BY <1>17 DEF TextChannelInvalidated, Disconnect, Idle
  <2> QED
    BY <2>1 DEF Early
<1>18. CASE RemoveThread \/ MessageReceived
  BY <1>18 DEF RemoveThread, MessageReceived
<1>19. CASE Crash
  <2>1. /\ ~observed' /\ info' = info /\ at = "idle" /\ at' = "idle" /\ ~torn
        /\ silent' = silent /\ channel' = channel
    BY <1>19 DEF Crash, Disconnect
  <2> QED
    BY <1>2, <2>1 DEF Early
<1> HIDE DEF Goal
<1> QED
  BY <1>3, <1>4, <1>5, <1>6, <1>7, <1>8, <1>9, <1>10, <1>11, <1>12, <1>13, <1>14, <1>15, <1>16,
     <1>17, <1>18, <1>19 DEF Next

-----------------------------------------------------------------------------
(* A conversation without a thread is empty                                *)

LEMMA NothingYetStep ==
    ASSUME Types, Control, NothingYet, [Next]_vars
    PROVE  NothingYet'
<1>0. /\ last \in [Users \cup {Title} -> Events] /\ WorldType /\ TablesType /\ DaemonType
      /\ Self \in Users
  BY DEF Types, HistoryType, Users
<1>1. /\ info = NoThread \/ at = "participants" => \A u \in Users : last[u] = Nothing
      /\ info = NoThread => granted = {}
  BY DEF NothingYet, ThreadExists
<1>2. ASSUME info' # NoThread, at' # "participants"
      PROVE  NothingYet'
  BY <1>2 DEF NothingYet, ThreadExists
<1>3. ASSUME info' = NoThread => info = NoThread, at' = "participants" => at = "participants",
             \A u \in Users : info = NoThread \/ at = "participants" => last'[u] = last[u],
             info = NoThread => granted' \subseteq granted
      PROVE  NothingYet'
  BY <1>1, <1>3 DEF NothingYet, ThreadExists
<1>4. CASE \/ OpenChannel \/ MoveUnseen \/ CloseUnseen \/ MonitorProperties
           \/ UNCHANGED vars \/ Crash \/ MessageReceived
  <2>1. CASE MessageReceived
    BY <1>2, <2>1, Created DEF MessageReceived, Idle
  <2>2. CASE OpenChannel \/ MoveUnseen \/ CloseUnseen \/ MonitorProperties \/ UNCHANGED vars \/ Crash
    BY <1>3, <2>2 DEF OpenChannel, MoveUnseen, CloseUnseen, MonitorProperties, Crash,
       vars, daemon, tables, history
  <2> QED
    BY <1>4, <2>1, <2>2
<1>5. ASSUME \/ \E u \in Users : ChangeRole(u)
             \/ \E s \in Subjects : ChangeSubject(s)
      PROVE  NothingYet'
  <2>1. info' = info /\ at' = at /\ last' = last /\ granted' \subseteq granted
    BY <1>5 DEF ChangeRole, ChangeSubject, daemon, tables, history
  <2> QED
    BY <1>3, <2>1
<1>6. CASE TextChannelAvailable
  <2>1. CASE info = NoThread
    <3>1. info' # NoThread /\ last' = last
      BY <1>6, <2>1, Created DEF TextChannelAvailable
    <3> QED
      BY <1>1, <2>1, <3>1 DEF NothingYet, ThreadExists
  <2>2. CASE info # NoThread
    BY <1>2, <1>6, <2>2 DEF TextChannelAvailable, tables
  <2> QED
    BY <2>1, <2>2
<1>7. CASE InitialParticipants \/ SelfJoined \/ SelfLeaving
  BY <1>2, <1>7 DEF InitialParticipants, SelfJoined, SelfLeaving, Control, ThreadExists
<1>8. CASE SetJoined \/ SetLeft
  <2>1. PICK value \in BOOLEAN, notify \in BOOLEAN : UpdateRoomInfo("joined", value, notify)
    BY <1>8 DEF SetJoined, SetLeft
  <2>2. info' # NoThread /\ at' # "participants"
    BY <1>0, <1>8, <2>1, InfoUpdate DEF SetJoined, SetLeft, Control, ThreadExists
  <2> QED
    BY <1>2, <2>2
<1>9. CASE RefreshRoles
  <2>1. PICK value \in BOOLEAN : UpdateRoomInfo("selfAdmin", value, TRUE)
    <3>1. (Self \in rolesMap) \in BOOLEAN
      OBVIOUS
    <3> QED
      BY <1>9, <3>1 DEF RefreshRoles
  <2>2. info' # NoThread /\ at' # "participants"
    BY <1>0, <1>9, <2>1, InfoUpdate DEF RefreshRoles, Control, ThreadExists
  <2> QED
    BY <1>2, <2>2
<1>10. CASE ConnectChannel
  <2>1. at = "connect" /\ at' = "idle" /\ info # NoThread
    BY <1>10 DEF ConnectChannel, Control, ThreadExists
  <2>2. info' = [info EXCEPT !.subject = service.subject, !.persistent = service.persistent]
    BY <1>10, <2>1 DEF ConnectChannel
  <2>3. info' \in InfoTypes
    BY <1>0, <2>1, <2>2 DEF TablesType, InfoTypes, WorldType
  <2> QED
    BY <1>2, <2>1, <2>3, RoomAssumption
<1>11. CASE GroupMembersChanged
  <2>1. CASE info # NoThread
    BY <1>2, <1>11, <2>1 DEF GroupMembersChanged
  <2>2. CASE info = NoThread
    <3>1. PICK m \in Moves : MemberEvent(m) = Nothing => NoEvents
      BY <1>11 DEF GroupMembersChanged
    <3>2. MemberEvent(m) = Nothing
      BY <1>0, <2>2, MemberEventType DEF ThreadExists
    <3>3. last' = last /\ granted' = granted /\ info' = info /\ at' # "participants"
      BY <1>11, <3>1, <3>2 DEF GroupMembersChanged, NoEvents
    <3> QED
      BY <1>3, <3>3
  <2> QED
    BY <2>1, <2>2
<1>12. CASE RefreshMembers
  <2>1. (~SelfContactIsPending) \in BOOLEAN
    BY DEF SelfContactIsPending
  <2>2. granted' \subseteq granted
    BY <1>0, <1>12, <2>1, UpdateType DEF RefreshMembers
  <2> QED
    BY <1>3, <1>12, <2>2 DEF RefreshMembers
<1>13. CASE RolesChanged
  <2>1. CASE info # NoThread
    BY <1>2, <1>13, <2>1 DEF RolesChanged
  <2>2. CASE info = NoThread
    <3>1. NewAdmins(ChangedRoles(Head(signals))) = {}
      BY <2>2 DEF NewAdmins
    <3>2. granted' \subseteq granted
      BY <1>13, <3>1 DEF RolesChanged
    <3> QED
      BY <1>3, <1>13, <2>2, <3>2 DEF RolesChanged
  <2> QED
    BY <2>1, <2>2
<1>14. CASE RoomPropertiesChanged
  <2>1. /\ signals # <<>> /\ Head(signals).kind = "properties"
        /\ UpdateRoomInfo("subject", Head(signals).subject, TRUE)
        /\ TitleEvent(Head(signals).subject) /\ at = "idle" /\ at' = at /\ granted' = granted
    BY <1>14 DEF RoomPropertiesChanged, Idle, daemon
  <2>2. Head(signals).subject \in Subjects
    BY <1>0, <2>1, NextSignal DEF Pair, RoleSignals, SubjectSignals
  <2>3. info' = NoThread <=> info = NoThread
    BY <1>0, <2>1, <2>2, InfoUpdate
  <2>4. \A u \in Users : last'[u] = last[u]
    BY <1>0, <2>1, <2>2, TitleWritten
  <2> QED
    BY <1>3, <2>1, <2>3, <2>4
<1>15. CASE TextChannelInvalidated
  <2>1. CASE info # NoThread
    BY <1>2, <1>15, <2>1 DEF TextChannelInvalidated, Idle
  <2>2. CASE info = NoThread
    BY <1>3, <1>15, <2>2 DEF TextChannelInvalidated, Idle, NoEvents
  <2> QED
    BY <2>1, <2>2
<1>16. CASE RemoveThread
  BY <1>16 DEF RemoveThread, NothingYet
<1> QED
  BY <1>4, <1>5, <1>6, <1>7, <1>8, <1>9, <1>10, <1>11, <1>12, <1>13, <1>14, <1>15, <1>16 DEF Next

-----------------------------------------------------------------------------
(* The conversation                                                        *)

\* A thread created by a message and a handler cut off are not forgotten.
LEMMA StillWhole ==
    ASSUME [Next]_vars, torn \in BOOLEAN, ~torn'
    PROVE  ~torn /\ ~MessageReceived /\ (Crash => at = "idle")
<1>0. ~MessageReceived /\ (Crash => ~torn /\ at = "idle")
  BY DEF MessageReceived, Crash
<1> SUFFICES ~torn
  BY <1>0
<1>1. CASE \/ OpenChannel \/ MoveUnseen \/ CloseUnseen \/ TextChannelAvailable
           \/ InitialParticipants \/ SelfJoined \/ SetJoined \/ MonitorProperties
           \/ ConnectChannel \/ GroupMembersChanged \/ SelfLeaving
  BY <1>1 DEF OpenChannel, MoveUnseen, CloseUnseen, TextChannelAvailable, InitialParticipants,
     SelfJoined, SetJoined, MonitorProperties, ConnectChannel, GroupMembersChanged, SelfLeaving,
     history
<1>2. CASE \/ SetLeft \/ RefreshMembers \/ RolesChanged \/ RefreshRoles \/ RoomPropertiesChanged
           \/ TextChannelInvalidated \/ RemoveThread \/ UNCHANGED vars
  BY <1>2 DEF SetLeft, RefreshMembers, RolesChanged, RefreshRoles, RoomPropertiesChanged,
     TextChannelInvalidated, RemoveThread, vars, history
<1>3. ASSUME \/ \E u \in Users : ChangeRole(u)
             \/ \E s \in Subjects : ChangeSubject(s)
      PROVE  ~torn
  BY <1>3 DEF ChangeRole, ChangeSubject, history
<1> QED
  BY <1>0, <1>1, <1>2, <1>3 DEF Next

\* Whoever has moved unnoticed stays known as such, except ourselves.
LEMMA SilentGrows ==
    ASSUME [Next]_vars
    PROVE  silent \ {Self} \subseteq silent'
<1>1. CASE \/ OpenChannel \/ MoveUnseen \/ CloseUnseen \/ TextChannelAvailable
           \/ InitialParticipants \/ SelfJoined \/ SetJoined \/ MonitorProperties
           \/ ConnectChannel \/ GroupMembersChanged \/ SelfLeaving
  BY <1>1 DEF OpenChannel, MoveUnseen, CloseUnseen, TextChannelAvailable, InitialParticipants,
     SelfJoined, SetJoined, MonitorProperties, ConnectChannel, GroupMembersChanged, SelfLeaving,
     history
<1>2. CASE \/ SetLeft \/ RefreshMembers \/ RolesChanged \/ RefreshRoles \/ RoomPropertiesChanged
           \/ TextChannelInvalidated \/ RemoveThread \/ MessageReceived \/ Crash \/ UNCHANGED vars
  BY <1>2 DEF SetLeft, RefreshMembers, RolesChanged, RefreshRoles, RoomPropertiesChanged,
     TextChannelInvalidated, RemoveThread, MessageReceived, Crash, vars, history
<1>3. ASSUME \/ \E u \in Users : ChangeRole(u)
             \/ \E s \in Subjects : ChangeSubject(s)
      PROVE  silent' = silent
  BY <1>3 DEF ChangeRole, ChangeSubject, history
<1> QED
  BY <1>1, <1>2, <1>3 DEF Next

\* Only these write information events.
Writes ==
    \/ InitialParticipants \/ SelfJoined \/ ConnectChannel \/ GroupMembersChanged \/ SelfLeaving
    \/ RoomPropertiesChanged \/ TextChannelInvalidated \/ RemoveThread \/ RolesChanged

LEMMA OthersWriteNothing ==
    ASSUME [Next]_vars, ~Writes
    PROVE  last' = last /\ repeated' = repeated
<1>1. CASE \/ OpenChannel \/ MoveUnseen \/ CloseUnseen \/ TextChannelAvailable \/ SetJoined
           \/ MonitorProperties
  BY <1>1 DEF OpenChannel, MoveUnseen, CloseUnseen, TextChannelAvailable, SetJoined,
     MonitorProperties, history
<1>2. CASE SetLeft \/ RefreshMembers \/ RefreshRoles \/ MessageReceived \/ Crash \/ UNCHANGED vars
  BY <1>2 DEF SetLeft, RefreshMembers, RefreshRoles, MessageReceived, Crash, vars, history
<1>3. ASSUME \/ \E u \in Users : ChangeRole(u)
             \/ \E s \in Subjects : ChangeSubject(s)
      PROVE  last' = last /\ repeated' = repeated
  BY <1>3 DEF ChangeRole, ChangeSubject, history
<1> QED
  BY <1>1, <1>2, <1>3 DEF Next, Writes

\* The events of the title concern nobody.
LEMMA TitleSteps ==
    ASSUME Types, ConnectChannel \/ RoomPropertiesChanged
    PROVE  /\ \A u \in Users : last'[u] = last[u]
           /\ \A r \in repeated' : r \in repeated \/ r[1] = Title
<1>1. last \in [Users \cup {Title} -> Events] /\ WorldType
  BY DEF Types, HistoryType
<1>2. CASE ConnectChannel
  <2>1. service.subject \in Subjects
    BY <1>1 DEF WorldType
  <2> QED
    BY <1>1, <1>2, <2>1, TitleWritten DEF ConnectChannel
<1>3. CASE RoomPropertiesChanged
  <2>1. Head(signals).subject \in Subjects
    BY <1>1, <1>3, NextSignal DEF RoomPropertiesChanged, Pair, RoleSignals, SubjectSignals
  <2> QED
    BY <1>1, <1>3, <2>1, TitleWritten DEF RoomPropertiesChanged
<1> QED
  BY <1>2, <1>3

\* Our own events concern nobody else.
LEMMA SelfWrites ==
    ASSUME Types, SelfJoined \/ SelfLeaving \/ TextChannelInvalidated
    PROVE  /\ \A u \in Contacts : last'[u] = last[u]
           /\ last' = last \/ last'[Self] \in LeaveTypes \cup {"SelfJoined"}
           /\ \A r \in repeated' : r \in repeated \/ (r = <<Self, last'[Self]>> /\ last'[Self] = last[Self])
           /\ SelfLeaving => last'[Self] \in LeaveTypes
           /\ SelfJoined => IF Phone THEN last' = last /\ repeated' = repeated
                            ELSE last'[Self] = "SelfJoined"
           /\ TextChannelInvalidated =>
                 IF info # NoThread /\ ~info.persistent /\ ~Phone THEN last'[Self] = "SelfLeaving"
                 ELSE last' = last /\ repeated' = repeated
<1>1. last \in [Users \cup {Title} -> Events] /\ Self \in Users /\ Contacts \subseteq Users \ {Self}
      /\ LeaveTypes \cup {"SelfJoined"} \subseteq Events
  BY RoomAssumption DEF Types, HistoryType, Users, Events
<1>2. ASSUME NEW event \in LeaveTypes \cup {"SelfJoined"}, WriteInformationEvent(Self, event)
      PROVE  /\ \A u \in Contacts : last'[u] = last[u]
             /\ last'[Self] = event
             /\ \A r \in repeated' : r \in repeated \/ (r = <<Self, last'[Self]>> /\ last'[Self] = last[Self])
  BY <1>1, <1>2, EventWritten
<1>3. CASE SelfJoined
  <2>1. CASE Phone
    BY <1>3, <2>1 DEF SelfJoined, NoEvents, SelfLeaving, TextChannelInvalidated, Idle
  <2>2. CASE ~Phone
    BY <1>2, <1>3, <2>2 DEF SelfJoined, SelfLeaving, TextChannelInvalidated, Idle
  <2> QED
    BY <2>1, <2>2
<1>4. CASE SelfLeaving
  <2>1. PICK type \in LeaveTypes : WriteInformationEvent(Self, type)
    BY <1>4 DEF SelfLeaving
  <2> QED
    BY <1>2, <1>4, <2>1 DEF SelfJoined, SelfLeaving, TextChannelInvalidated, Idle
<1>5. CASE TextChannelInvalidated
  <2>1. CASE info # NoThread /\ ~info.persistent /\ ~Phone
    <3>1. "SelfLeaving" \in LeaveTypes
      BY DEF LeaveTypes
    <3> QED
      BY <1>2, <1>5, <2>1, <3>1 DEF SelfJoined, SelfLeaving, TextChannelInvalidated, Idle
  <2>2. CASE ~(info # NoThread /\ ~info.persistent /\ ~Phone)
    BY <1>5, <2>2 DEF SelfJoined, SelfLeaving, TextChannelInvalidated, Idle, NoEvents
  <2> QED
    BY <2>1, <2>2
<1> QED
  BY <1>3, <1>4, <1>5

\* A move that is written is about a contact, and the thread of the room.
LEMMA MemberWrites ==
    ASSUME Types, GroupMembersChanged
    PROVE  \E m \in Moves :
              /\ Move(m)
              /\ IF MemberEvent(m) = Nothing
                 THEN last' = last /\ repeated' = repeated /\ silent' = silent \cup ({m.who} \ {Self})
                 ELSE /\ m.who \in Contacts /\ ContactMoved(m) /\ silent' = silent
                      /\ MemberEvent(m) = m.event /\ last'[m.who] = m.event
                      /\ \A u \in Users \ {m.who} : last'[u] = last[u]
                      /\ \A r \in repeated' : r \in repeated \/
                            (r = <<m.who, m.event>> /\ m.event = last[m.who])
<1>1. last \in [Users \cup {Title} -> Events] /\ WorldType
  BY DEF Types, HistoryType
<1>2. PICK m \in Moves :
         /\ Move(m)
         /\ IF MemberEvent(m) = Nothing
            THEN NoEvents /\ silent' = silent \cup ({m.who} \ {Self})
            ELSE WriteInformationEvent(m.who, MemberEvent(m)) /\ silent' = silent
  BY DEF GroupMembersChanged
<1>3. /\ m.who \in Users /\ MemberEvent(m) \in Events
      /\ MemberEvent(m) # Nothing => MemberEvent(m) = m.event /\ m.who # Self
  BY <1>1, MemberEventType
<1>4. CASE MemberEvent(m) = Nothing
  BY <1>2, <1>4 DEF NoEvents
<1>5. CASE MemberEvent(m) # Nothing
  <2>1. ContactMoved(m)
    BY <1>1, <1>3, <1>5, MovesMove DEF SelfMoved
  <2>2. m.who \in Contacts
    BY <2>1 DEF ContactMoved
  <2> QED
    BY <1>1, <1>2, <1>3, <1>5, <2>1, <2>2, EventWritten
<1> QED
  BY <1>2, <1>4, <1>5

\* Who is a member, and what was said of the members, is as it was.
LEMMA ContactEventsFrame ==
    ASSUME ContactEventsTrue, channel' = channel, \A u \in Contacts : last'[u] = last[u],
           silent \ {Self} \subseteq silent'
    PROVE  ContactEventsTrue'
<1>1. \A u \in Contacts : u \notin silent' => u \notin silent
  BY RoomAssumption
<1> QED
  BY <1>1 DEF ContactEventsTrue, Members

LEMMA ContactEventsStep ==
    ASSUME Types, Control, NothingYet, ContactEventsTrue, [Next]_vars
    PROVE  ContactEventsTrue'
<1>0. /\ WorldType /\ Members \subseteq Contacts /\ Self \notin Contacts /\ Contacts \subseteq Users
      /\ silent \ {Self} \subseteq silent'
      /\ \A u \in Members : channel.members[u] \in MemberStates
  BY ChannelType, SilentGrows, RoomAssumption DEF Types, Users
<1>1. ASSUME channel' = channel, \A u \in Contacts : last'[u] = last[u]
      PROVE  ContactEventsTrue'
  BY <1>0, <1>1, ContactEventsFrame
<1>2. \A u \in Contacts \ silent :
         IF u \in Members
         THEN \/ last[u] = Nothing
              \/ channel.members[u] \in {"Regular", "RemotePending"}
                 /\ last[u] = Arrival[channel.members[u]]
         ELSE last[u] \in {Nothing, "Leaving"}
  BY DEF ContactEventsTrue
<1>3. CASE OpenChannel
  <2>1. Members = {} /\ last' = last
    BY <1>3, OthersWriteNothing DEF OpenChannel, Control
  <2>2. \A u \in Contacts \ silent' : u \notin Members'
    BY <1>3, <2>1 DEF OpenChannel, Members
  <2>3. \A u \in Contacts \ silent' : u \notin silent
    BY <1>0
  <2> QED
    BY <1>2, <2>1, <2>2, <2>3 DEF ContactEventsTrue
<1>4. CASE MoveUnseen
  <2>1. PICK m \in Moves : Move(m) /\ silent' = silent \cup {m.who}
    BY <1>4 DEF MoveUnseen
  <2>2. channel'.members = m.members /\ Moved(m)
    BY <1>0, <2>1, MoveResult, MovesMove
  <2>3. last' = last
    BY <1>4 DEF MoveUnseen
  <2>4. \A u \in Contacts \ silent' :
           /\ u \notin silent
           /\ u \in Members' <=> u \in Members
           /\ u \in Members => channel'.members[u] = channel.members[u]
    BY <2>1, <2>2 DEF Moved, Members
  <2> QED
    BY <1>2, <2>3, <2>4 DEF ContactEventsTrue
<1>5. CASE CloseUnseen \/ TextChannelInvalidated
  <2>1. Members' = {} /\ Members \subseteq silent'
    BY <1>0, <1>5 DEF CloseUnseen, TextChannelInvalidated, Members, NoOne
  <2>2. \A u \in Contacts : last'[u] = last[u]
    BY <1>5, SelfWrites DEF CloseUnseen
  <2>3. \A u \in Contacts \ silent' : u \notin silent /\ u \notin Members
    BY <1>0, <2>1
  <2> QED
    BY <1>2, <2>1, <2>2, <2>3 DEF ContactEventsTrue
<1>6. CASE GroupMembersChanged
  <2>1. PICK m \in Moves :
              /\ Move(m)
              /\ IF MemberEvent(m) = Nothing
                 THEN last' = last /\ repeated' = repeated /\ silent' = silent \cup ({m.who} \ {Self})
                 ELSE /\ m.who \in Contacts /\ ContactMoved(m) /\ silent' = silent
                      /\ MemberEvent(m) = m.event /\ last'[m.who] = m.event
                      /\ \A u \in Users \ {m.who} : last'[u] = last[u]
    BY <1>6, MemberWrites
  <2>2. channel'.members = m.members /\ Moved(m)
    BY <1>0, <2>1, MoveResult, MovesMove
  <2>3. \A u \in Contacts \ {m.who} :
           /\ u \in Members' <=> u \in Members
           /\ u \in Members => channel'.members[u] = channel.members[u]
    BY <2>2 DEF Moved, Members
  <2>4. CASE MemberEvent(m) = Nothing
    <3>1. last' = last /\ \A u \in Contacts \ silent' : u # m.who /\ u \notin silent
      BY <1>0, <2>1, <2>4
    <3> QED
      BY <1>2, <2>3, <3>1 DEF ContactEventsTrue
  <2>5. CASE MemberEvent(m) # Nothing
    <3>1. /\ m.who \in Contacts /\ ContactMoved(m) /\ silent' = silent
          /\ m.event # Nothing /\ last'[m.who] = m.event
          /\ \A u \in Users \ {m.who} : last'[u] = last[u]
      BY <2>1, <2>5
    <3>2. \A u \in Contacts \ {m.who} : last'[u] = last[u]
      BY <1>0, <3>1
    <3>3. CASE m.who \in DOMAIN m.members
      <4>1. m.event = Arrival[m.members[m.who]] /\ m.who \in Members'
            /\ channel'.members[m.who] = m.members[m.who]
        BY <2>2, <3>1, <3>3 DEF ContactMoved, Members
      <4>2. m.members[m.who] \in MemberStates
        BY <2>2, <3>3, MapOfMembers DEF Moved
      <4>3. m.members[m.who] \in {"Regular", "RemotePending"}
        BY <3>1, <4>1, <4>2 DEF MemberStates, Arrival
      <4> QED
        BY <1>2, <2>3, <3>1, <3>2, <4>1, <4>3 DEF ContactEventsTrue
    <3>4. CASE m.who \notin DOMAIN m.members
      <4>1. m.event = "Leaving" /\ m.who \notin Members'
        BY <2>2, <3>1, <3>4 DEF ContactMoved, Members
      <4> QED
        BY <1>2, <2>3, <3>1, <3>2, <4>1 DEF ContactEventsTrue
    <3> QED
      BY <3>3, <3>4
  <2> QED
    BY <2>4, <2>5
<1>7. CASE InitialParticipants
  <2>1. \A u \in Contacts : last[u] = Nothing
    BY <1>0, <1>7 DEF InitialParticipants, NothingYet
  <2>2. \A u \in Contacts : last'[u] =
           IF u \in Members /\ channel.members[u] = "RemotePending" THEN "InvitationSent" ELSE last[u]
    BY <1>0, <1>7, InitialEvents
  <2>3. channel' = channel
    BY <1>7 DEF InitialParticipants, world
  <2> QED
    BY <2>1, <2>2, <2>3 DEF ContactEventsTrue, Members, Arrival
<1>8. CASE SelfJoined \/ SelfLeaving
  BY <1>1, <1>8, SelfWrites DEF SelfJoined, SelfLeaving, world
<1>9. CASE ConnectChannel \/ RoomPropertiesChanged
  <2>1. \A u \in Contacts : last'[u] = last[u]
    BY <1>0, <1>9, TitleSteps
  <2> QED
    BY <1>1, <1>9, <2>1 DEF ConnectChannel, RoomPropertiesChanged, world
<1>10. CASE RemoveThread
  <2>1. \A u \in Contacts : last'[u] = Nothing
    BY <1>0, <1>10 DEF RemoveThread
  <2> QED
    BY <2>1 DEF ContactEventsTrue
<1>11. CASE \/ TextChannelAvailable \/ SetJoined \/ MonitorProperties \/ SetLeft \/ RefreshMembers
            \/ RolesChanged \/ RefreshRoles \/ MessageReceived \/ Crash \/ UNCHANGED vars
  BY <1>1, <1>11 DEF TextChannelAvailable, SetJoined, MonitorProperties, SetLeft, RefreshMembers,
     RolesChanged, RefreshRoles, MessageReceived, Crash, vars, world, history
<1>12. ASSUME \/ \E u \in Users : ChangeRole(u)
              \/ \E s \in Subjects : ChangeSubject(s)
       PROVE  ContactEventsTrue'
  BY <1>1, <1>12 DEF ChangeRole, ChangeSubject, history
<1> QED
  BY <1>3, <1>4, <1>5, <1>6, <1>7, <1>8, <1>9, <1>10, <1>11, <1>12 DEF Next

\* We have neither come nor gone.
LEMMA SelfEventsFrame ==
    ASSUME SelfEventsTrue, last'[Self] = last[Self], Phone' <=> Phone,
           info' # NoThread => info # NoThread /\ (info'.joined <=> info.joined),
           at' = at \/ (at \notin {"left", "joined"} /\ at' \notin {"left", "joined"})
    PROVE  SelfEventsTrue'
BY DEF SelfEventsTrue, ThreadExists

LEMMA SelfEventsStep ==
    ASSUME Types, Control, NothingYet, SelfEventsTrue, ~torn', [Next]_vars
    PROVE  SelfEventsTrue'
<1>0. /\ WorldType /\ TablesType /\ (Phone' <=> Phone) /\ Self \in Users /\ ~MessageReceived
      /\ Crash => at = "idle"
  BY ProtocolStays, StillWhole DEF Types, HistoryType, Phone, Users
<1>1. /\ at = "left" => last[Self] \in LeaveTypes
      /\ last[Self] = "SelfJoined" /\ info # NoThread => info.joined \/ at = "joined"
      /\ info # NoThread /\ info.joined /\ ~Phone /\ at # "left" => last[Self] = "SelfJoined"
      /\ at = "joined" /\ ~Phone => last[Self] = "SelfJoined"
  BY DEF SelfEventsTrue, ThreadExists
<1>2. CASE OpenChannel \/ MoveUnseen \/ CloseUnseen \/ MonitorProperties \/ UNCHANGED vars
  BY <1>0, <1>2, SelfEventsFrame DEF OpenChannel, MoveUnseen, CloseUnseen, MonitorProperties,
     vars, daemon, tables, history
<1>3. ASSUME \/ \E u \in Users : ChangeRole(u)
             \/ \E s \in Subjects : ChangeSubject(s)
      PROVE  SelfEventsTrue'
  <2>1. last' = last /\ info' = info /\ at' = at
    BY <1>3 DEF ChangeRole, ChangeSubject, daemon, tables, history
  <2> QED
    BY <1>0, <2>1, SelfEventsFrame
<1>4. CASE TextChannelAvailable
  <2>1. CASE info = NoThread
    <3>1. last'[Self] = Nothing /\ at' = "participants" /\ ~info'.joined
      BY <1>0, <1>4, <2>1, Created DEF TextChannelAvailable, NothingYet, ThreadExists
    <3> QED
      BY <3>1, RoomAssumption DEF SelfEventsTrue
  <2>2. CASE info # NoThread
    BY <1>0, <1>4, <2>2, SelfEventsFrame DEF TextChannelAvailable, tables
  <2> QED
    BY <2>1, <2>2
<1>5. CASE InitialParticipants
  <2>1. last'[Self] = last[Self]
    <3>1. Self \notin Members
      BY <1>0, ChannelType, RoomAssumption
    <3> QED
      BY <1>0, <1>5, <3>1, InitialEvents
  <2> QED
    BY <1>0, <1>5, <2>1, SelfEventsFrame DEF InitialParticipants
<1>6. CASE SelfJoined
  <2>1. /\ info' = info /\ at' = "joined" /\ ~info.joined /\ info # NoThread
    BY <1>6 DEF SelfJoined, Control, ThreadExists
  <2>2. ~Phone => last'[Self] = "SelfJoined"
    BY <1>6, SelfWrites
  <2> QED
    BY <1>0, <2>1, <2>2 DEF SelfEventsTrue
<1>7. CASE SetJoined
  <2>1. /\ last' = last /\ at = "joined" /\ at' = "monitor" /\ UpdateRoomInfo("joined", TRUE, FALSE)
    BY <1>7 DEF SetJoined, history
  <2>2. info'.joined
    BY <1>0, <2>1, InfoUpdate DEF Control, ThreadExists
  <2> QED
    BY <1>0, <1>1, <2>1, <2>2 DEF SelfEventsTrue
<1>8. CASE ConnectChannel
  <2>1. last'[Self] = last[Self] /\ at = "connect" /\ at' = "idle" /\ info # NoThread
    BY <1>0, <1>8, TitleSteps DEF ConnectChannel, Control, ThreadExists
  <2>2. info' = [info EXCEPT !.subject = service.subject, !.persistent = service.persistent]
    BY <1>8, <2>1 DEF ConnectChannel
  <2>3. info'.joined = info.joined
    BY <1>0, <2>1, <2>2 DEF TablesType, InfoTypes
  <2> QED
    BY <1>0, <2>1, <2>3, SelfEventsFrame
<1>9. CASE GroupMembersChanged
  <2>1. last'[Self] = last[Self]
    <3>1. PICK m \in Moves :
            IF MemberEvent(m) = Nothing THEN last' = last
            ELSE m.who \in Contacts /\ \A u \in Users \ {m.who} : last'[u] = last[u]
      BY <1>9, MemberWrites
    <3> QED
      BY <1>0, <3>1, RoomAssumption
  <2> QED
    BY <1>0, <1>9, <2>1, SelfEventsFrame DEF GroupMembersChanged, Idle
<1>10. CASE SelfLeaving
  <2>1. last'[Self] \in LeaveTypes /\ at' = "left"
    BY <1>10, SelfWrites DEF SelfLeaving
  <2> QED
    BY <2>1 DEF SelfEventsTrue, LeaveTypes
<1>11. CASE SetLeft
  <2>1. /\ last' = last /\ at = "left" /\ at' \in {"members", "idle"}
        /\ UpdateRoomInfo("joined", FALSE, TRUE)
    BY <1>11 DEF SetLeft, history
  <2>2. ~info'.joined
    BY <1>0, <2>1, InfoUpdate DEF Control, ThreadExists
  <2> QED
    BY <1>0, <1>1, <2>1, <2>2 DEF SelfEventsTrue, LeaveTypes
<1>12. CASE RefreshMembers \/ RolesChanged
  BY <1>0, <1>12, SelfEventsFrame DEF RefreshMembers, RolesChanged, Idle
<1>13. CASE RefreshRoles
  <2>1. PICK value \in BOOLEAN : UpdateRoomInfo("selfAdmin", value, TRUE)
    <3>1. (Self \in rolesMap) \in BOOLEAN
      OBVIOUS
    <3> QED
      BY <1>13, <3>1 DEF RefreshRoles
  <2>2. info # NoThread /\ info'.joined = info.joined
    BY <1>0, <1>13, <2>1, InfoUpdate DEF RefreshRoles, Control, ThreadExists
  <2> QED
    BY <1>0, <1>13, <2>2, SelfEventsFrame DEF RefreshRoles, history
<1>14. CASE RoomPropertiesChanged
  <2>1. last'[Self] = last[Self]
    BY <1>0, <1>14, TitleSteps
  <2>2. /\ signals # <<>> /\ Head(signals).kind = "properties" /\ at' = at
        /\ UpdateRoomInfo("subject", Head(signals).subject, TRUE)
    BY <1>14 DEF RoomPropertiesChanged, daemon
  <2>3. Head(signals).subject \in Subjects
    BY <1>0, <2>2, NextSignal DEF Pair, RoleSignals, SubjectSignals
  <2>4. info' # NoThread => info # NoThread /\ info'.joined = info.joined
    BY <1>0, <2>2, <2>3, InfoUpdate
  <2> QED
    BY <1>0, <2>1, <2>2, <2>4, SelfEventsFrame
<1>15. CASE TextChannelInvalidated
  <2>1. info' = info /\ at = "idle"
    BY <1>15 DEF TextChannelInvalidated, Idle
  <2>2. CASE info # NoThread /\ ~info.persistent /\ ~Phone
    <3>1. last'[Self] = "SelfLeaving" /\ at' = "left"
      BY <1>15, <2>2, SelfWrites DEF TextChannelInvalidated
    <3> QED
      BY <3>1 DEF SelfEventsTrue, LeaveTypes
  <2>3. CASE ~(info # NoThread /\ ~info.persistent /\ ~Phone)
    <3>1. last' = last /\ at' = at
      BY <1>15, <2>3, SelfWrites DEF TextChannelInvalidated
    <3> QED
      BY <1>0, <2>1, <3>1, SelfEventsFrame
  <2> QED
    BY <2>2, <2>3
<1>16. CASE RemoveThread
  <2>1. info' = NoThread /\ at' = "idle"
    BY <1>16 DEF RemoveThread, daemon
  <2> QED
    BY <2>1 DEF SelfEventsTrue, ThreadExists
<1>17. CASE Crash
  BY <1>0, <1>17, SelfEventsFrame DEF Crash
<1> QED
  BY <1>0, <1>2, <1>3, <1>4, <1>5, <1>6, <1>7, <1>8, <1>9, <1>10, <1>11, <1>12, <1>13, <1>14, <1>15,
     <1>16, <1>17 DEF Next

\* Nobody has been said to be an admin.
LEMMA NoGrants ==
    ASSUME granted' = {}
    PROVE  GrantsStored'
BY DEF GrantsStored

\* Nothing that is stored of the admins changes.
LEMMA GrantsFrame ==
    ASSUME GrantsStored, rows' = rows, granted' \subseteq granted, rolesMap' \in {rolesMap, NoThread},
           at # "roles" \/ (at' = at /\ channel' = channel),
           granted = {} \/ (info'.selfAdmin <=> info.selfAdmin)
    PROVE  GrantsStored'
<1>1. Stored' = Stored
  BY DEF Stored
<1>2. rolesMap' # NoThread => granted' \subseteq rolesMap'
  BY DEF GrantsStored
<1>3. ASSUME NEW p \in Stored', p.id \in granted'
      PROVE  p.admin \/ (at' = "roles" /\ p.id \in Members')
  BY <1>1, <1>3 DEF GrantsStored, Members
<1>4. Self \in granted' /\ at' # "roles" => info'.selfAdmin
  BY DEF GrantsStored
<1> QED
  BY <1>2, <1>3, <1>4 DEF GrantsStored

\* updateRoomParticipants stores the roles it knows.
LEMMA GrantsUpdated ==
    ASSUME Types, GrantsStored, NEW notify \in BOOLEAN, UpdateRoomParticipants(notify),
           channel' = channel, at # "roles", granted = {} \/ (info'.selfAdmin <=> info.selfAdmin)
    PROVE  GrantsStored'
<1>1. rows' = ChannelRows(KnownRoles) /\ rolesMap' = KnownRoles /\ granted' = granted \cap KnownRoles
  BY DEF UpdateRoomParticipants
<1>2. ASSUME NEW p \in Stored', p.id \in granted'
      PROVE  p.admin
  <2>1. p \in RowTypes /\ ChannelRows(KnownRoles)[p] > 0
    BY <1>1 DEF Stored
  <2>2. p.id \in KnownRoles
    BY <1>1, <1>2
  <2>3. ChannelRows(KnownRoles)[p] # 0
    BY <2>1
  <2> QED
    BY <2>1, <2>2, <2>3, ChannelRow
<1>3. Self \in granted' /\ at' # "roles" => info'.selfAdmin
  BY <1>1 DEF GrantsStored
<1> QED
  BY <1>1, <1>2, <1>3 DEF GrantsStored

\* Who is said to have become an admin was not stored as one.
LEMMA NoGrantTwice ==
    ASSUME Types, GrantsStored, at = "idle", NEW roles
    PROVE  NewAdmins(roles) \cap granted = {}
<1>1. ASSUME NEW u \in NewAdmins(roles), u \in granted
      PROVE  FALSE
  <2>1. \/ \E p \in Stored : p.id = u /\ ~p.admin
        \/ u = Self /\ ~info.selfAdmin
    BY <1>1 DEF NewAdmins, Participants
  <2> QED
    BY <1>1, <2>1 DEF GrantsStored
<1> QED
  BY <1>1

LEMMA GrantsStoredStep ==
    ASSUME Types, Control, NothingYet, GrantsStored, ~torn', [Next]_vars
    PROVE  GrantsStored'
<1>0. /\ TablesType /\ WorldType /\ DaemonType /\ ~MessageReceived /\ (Crash => at = "idle")
      /\ Members \subseteq Contacts /\ Self \notin Contacts
      /\ info = NoThread => granted = {}
  BY StillWhole, ChannelType, RoomAssumption DEF Types, HistoryType, NothingYet, ThreadExists
<1>1. ASSUME rows' = rows, granted' = granted, rolesMap' \in {rolesMap, NoThread}, at # "roles",
             granted = {} \/ (info'.selfAdmin <=> info.selfAdmin)
      PROVE  GrantsStored'
  BY <1>1, GrantsFrame
<1>2. CASE OpenChannel \/ MoveUnseen \/ CloseUnseen
  <2>1. at # "roles"
    BY <1>2 DEF OpenChannel, MoveUnseen, CloseUnseen, Control
  <2> QED
    BY <1>1, <1>2, <2>1 DEF OpenChannel, MoveUnseen, CloseUnseen, daemon, tables
<1>3. ASSUME \/ \E u \in Users : ChangeRole(u)
             \/ \E s \in Subjects : ChangeSubject(s)
             \/ UNCHANGED vars
      PROVE  GrantsStored'
  <2>1. /\ rows' = rows /\ rolesMap' = rolesMap /\ at' = at /\ channel' = channel /\ info' = info
        /\ granted' \subseteq granted
    BY <1>3 DEF ChangeRole, ChangeSubject, vars, world, daemon, tables, history
  <2> QED
    BY <2>1, GrantsFrame
<1>4. CASE TextChannelAvailable
  <2>1. CASE info = NoThread
    BY <1>0, <1>4, <2>1, NoGrants DEF TextChannelAvailable
  <2>2. CASE info # NoThread
    BY <1>1, <1>4, <2>2 DEF TextChannelAvailable, tables
  <2> QED
    BY <2>1, <2>2
<1>5. CASE InitialParticipants \/ RefreshMembers
  <2>1. (~SelfContactIsPending) \in BOOLEAN
    BY DEF SelfContactIsPending
  <2>2. PICK notify \in BOOLEAN : UpdateRoomParticipants(notify)
    BY <1>5, <2>1 DEF InitialParticipants, RefreshMembers
  <2>3. channel' = channel /\ at # "roles" /\ info' = info
    BY <1>5 DEF InitialParticipants, RefreshMembers, world
  <2> QED
    BY <2>2, <2>3, GrantsUpdated
<1>6. CASE SelfJoined \/ MonitorProperties \/ SelfLeaving
  BY <1>1, <1>6 DEF SelfJoined, MonitorProperties, SelfLeaving, tables, history
<1>7. CASE SetJoined \/ SetLeft
  <2>1. PICK value \in BOOLEAN, notify \in BOOLEAN : UpdateRoomInfo("joined", value, notify)
    BY <1>7 DEF SetJoined, SetLeft
  <2>2. info # NoThread /\ at # "roles"
    BY <1>7 DEF SetJoined, SetLeft, Control, ThreadExists
  <2>3. info'.selfAdmin = info.selfAdmin
    BY <1>0, <2>1, <2>2, InfoUpdate
  <2> QED
    BY <1>1, <1>7, <2>2, <2>3 DEF SetJoined, SetLeft, history
<1>8. CASE ConnectChannel
  <2>1. at = "connect" /\ info # NoThread /\ channel' = channel
    BY <1>8 DEF ConnectChannel, Control, ThreadExists, world
  <2>2. info' = [info EXCEPT !.subject = service.subject, !.persistent = service.persistent]
    BY <1>8, <2>1 DEF ConnectChannel
  <2>3. info'.selfAdmin = info.selfAdmin
    BY <1>0, <2>1, <2>2 DEF TablesType, InfoTypes
  <2>4. CASE fresh
    BY <1>8, <2>1, <2>3, <2>4, GrantsUpdated DEF ConnectChannel
  <2>5. CASE ~fresh
    BY <1>1, <1>8, <2>1, <2>3, <2>5 DEF ConnectChannel
  <2> QED
    BY <2>4, <2>5
<1>9. CASE GroupMembersChanged
  BY <1>1, <1>9 DEF GroupMembersChanged, Idle
<1>10. CASE RolesChanged
  <2>1. PICK roles, news :
           /\ roles = ChangedRoles(Head(signals)) /\ news = NewAdmins(roles)
           /\ rolesMap' = roles /\ granted' = (granted \cup news) \cap roles
    BY <1>10 DEF RolesChanged
  <2>2. /\ at = "idle" /\ at' = (IF info = NoThread THEN "idle" ELSE "roles")
        /\ rows' = rows /\ info' = info /\ channel' = channel
    BY <1>10 DEF RolesChanged, Idle
  <2>3. CASE info = NoThread
    <3>1. news = {}
      BY <2>1, <2>3 DEF NewAdmins
    <3> QED
      BY <1>0, <2>1, <2>3, <3>1, NoGrants
  <2>4. CASE info # NoThread
    <3>1. ASSUME NEW p \in Stored', p.id \in granted'
          PROVE  p.admin \/ p.id \in Members
      <4>1. p \in Stored /\ p.id \in Contacts
        BY <2>2 DEF Stored, RowTypes
      <4>2. CASE p.id \in granted
        BY <2>2, <4>1, <4>2 DEF GrantsStored
      <4>3. CASE p.id \in news
        BY <1>0, <2>1, <4>1, <4>3 DEF NewAdmins
      <4> QED
        BY <2>1, <3>1, <4>2, <4>3
    <3>2. granted' \subseteq rolesMap' /\ at' = "roles" /\ Members' = Members
      BY <2>1, <2>2, <2>4 DEF Members
    <3> QED
      BY <3>1, <3>2 DEF GrantsStored
  <2> QED
    BY <2>3, <2>4
<1>11. CASE RefreshRoles
  <2>1. /\ rolesMap # NoThread /\ info # NoThread /\ at = "roles" /\ at' = "idle"
        /\ rolesMap' = rolesMap /\ granted' = granted
    BY <1>11 DEF RefreshRoles, Control, ThreadExists, history
  <2>2. PICK value \in BOOLEAN : value = (Self \in rolesMap)
    <3>1. (Self \in rolesMap) \in BOOLEAN
      OBVIOUS
    <3> QED
      BY <3>1
  <2>3. UpdateRoomInfo("selfAdmin", value, TRUE)
    BY <1>11, <2>2 DEF RefreshRoles
  <2>4. info'.selfAdmin = value
    BY <1>0, <2>1, <2>3, InfoUpdate
  <2>5. granted \subseteq rolesMap
    BY <2>1 DEF GrantsStored
  <2>6. ASSUME NEW p \in Stored', p.id \in granted
        PROVE  p.admin
    <3>1. p \in RowTypes /\ rows'[p] > 0 /\ p.admin \in BOOLEAN
      BY DEF Stored, RowTypes
    <3>2. CASE p.id \notin Members
      <4>1. rows'[p] = rows[p]
        BY <1>11, <3>1, <3>2 DEF RefreshRoles
      <4>2. p \in Stored
        BY <3>1, <4>1 DEF Stored
      <4> QED
        BY <2>6, <3>2, <4>2 DEF GrantsStored
    <3>3. CASE p.id \in Members
      <4>1. ASSUME ~p.admin
            PROVE  FALSE
        <5>1. p.id \in rolesMap
          BY <2>5, <2>6
        <5>2. p.admin # (p.id \in rolesMap)
          BY <3>1, <4>1, <5>1
        <5>3. rows'[p] = 0
          BY <1>11, <3>1, <3>3, <5>2 DEF RefreshRoles
        <5> QED
          BY <3>1, <5>3
      <4> QED
        BY <4>1
    <3> QED
      BY <3>2, <3>3
  <2> QED
    BY <2>1, <2>2, <2>4, <2>5, <2>6 DEF GrantsStored
<1>12. CASE RoomPropertiesChanged
  <2>1. /\ signals # <<>> /\ Head(signals).kind = "properties" /\ at = "idle"
        /\ UpdateRoomInfo("subject", Head(signals).subject, TRUE)
        /\ rows' = rows /\ granted' = granted /\ rolesMap' = rolesMap
    BY <1>12 DEF RoomPropertiesChanged, Idle, daemon
  <2>2. Head(signals).subject \in Subjects
    BY <1>0, <2>1, NextSignal DEF Pair, RoleSignals, SubjectSignals
  <2>3. info # NoThread => info'.selfAdmin = info.selfAdmin
    BY <1>0, <2>1, <2>2, InfoUpdate
  <2> QED
    BY <1>0, <1>1, <2>1, <2>3
<1>13. CASE TextChannelInvalidated
  BY <1>1, <1>13 DEF TextChannelInvalidated, Idle
<1>14. CASE RemoveThread
  BY <1>14, NoGrants DEF RemoveThread
<1>15. CASE Crash
  BY <1>0, <1>1, <1>15 DEF Crash
<1> QED
  BY <1>0, <1>2, <1>3, <1>4, <1>5, <1>6, <1>7, <1>8, <1>9, <1>10, <1>11, <1>12, <1>13, <1>14,
     <1>15 DEF Next

\* What was written twice, and could be, could still be.
LEMMA RepeatedStays ==
    ASSUME Types, NoneRepeated, [Next]_vars,
           \A r \in repeated' : \/ r \in repeated \/ r[1] = Title
                                \/ r[1] \in silent' \ {Self}
                                \/ r[1] = Self /\ r[2] \in Repeatable
    PROVE  NoneRepeated'
<1>1. silent \ {Self} \subseteq silent' /\ Repeatable' = Repeatable
  BY SilentGrows, ProtocolStays DEF Types, Repeatable, Phone
<1>2. ASSUME NEW r \in repeated'
      PROVE  \/ r[1] \in (silent' \ {Self}) \cup {Title}
             \/ r[1] = Self /\ r[2] \in Repeatable'
  BY <1>1 DEF NoneRepeated
<1> QED
  BY <1>2 DEF NoneRepeated

\* A member whose move was written before does not move that way again.
LEMMA MoveIsNew ==
    ASSUME Types, ContactEventsTrue, NEW m \in Moves, ContactMoved(m), m.event # Nothing,
           m.who \notin silent
    PROVE  m.event # last[m.who]
<1>1. /\ m.who \in Contacts \ silent /\ Moved(m)
      /\ Nothing \notin {"Joined", "InvitationSent", "Leaving"}
  BY MovesMove, RoomAssumption DEF Types, ContactMoved, ContactEvents
<1>2. IF m.who \in Members
      THEN \/ last[m.who] = Nothing
           \/ channel.members[m.who] \in {"Regular", "RemotePending"}
              /\ last[m.who] = Arrival[channel.members[m.who]]
      ELSE last[m.who] \in {Nothing, "Leaving"}
  BY <1>1 DEF ContactEventsTrue
<1>3. CASE m.who \in DOMAIN m.members
  <2>1. /\ m.event = Arrival[m.members[m.who]]
        /\ m.who \notin Members \/ (channel.members[m.who] # "Regular" /\ m.members[m.who] = "Regular")
    BY <1>3 DEF ContactMoved
  <2>2. m.members[m.who] \in {"Regular", "LocalPending", "RemotePending"}
    BY <1>1, <1>3, MapOfMembers DEF Moved, MemberStates
  <2>3. m.event \in {"Joined", "InvitationSent"}
    BY <2>1, <2>2 DEF Arrival
  <2>4. CASE m.who \notin Members
    BY <1>1, <1>2, <2>3, <2>4
  <2>5. CASE m.who \in Members
    <3>1. m.event = "Joined" /\ last[m.who] \in {Nothing, "InvitationSent"}
      BY <1>2, <2>1, <2>5 DEF Arrival
    <3> QED
      BY <1>1, <3>1
  <2> QED
    BY <2>4, <2>5
<1>4. CASE m.who \notin DOMAIN m.members
  <2>1. m.event = "Leaving" /\ m.who \in Members
    BY <1>4 DEF ContactMoved
  <2>2. last[m.who] \in {Nothing, "Joined", "InvitationSent"}
    BY <1>2, <2>1 DEF Arrival
  <2> QED
    BY <1>1, <2>1, <2>2
<1> QED
  BY <1>3, <1>4

LEMMA NoneRepeatedStep ==
    ASSUME Types, Control, NothingYet, ContactEventsTrue, SelfEventsTrue, GrantsStored,
           NoneRepeated, ~torn', [Next]_vars
    PROVE  NoneRepeated'
<1>0. Self \notin Contacts /\ Members \subseteq Contacts /\ Contacts \subseteq Users
  BY ChannelType, RoomAssumption DEF Types, Users
<1>1. ASSUME repeated' = repeated
      PROVE  NoneRepeated'
  BY <1>1, RepeatedStays
<1>2. CASE InitialParticipants
  <2>1. \A u \in Members : last[u] # "InvitationSent"
    BY <1>0, <1>2, RoomAssumption DEF InitialParticipants, NothingYet, ContactEvents
  <2>2. \A r \in repeated' : r \in repeated \/
           \E u \in Members : r[1] = u /\ last[u] = "InvitationSent"
    BY <1>2, InitialEvents
  <2> QED
    BY <2>1, <2>2, RepeatedStays
<1>3. CASE SelfJoined
  <2>1. CASE Phone
    BY <1>1, <1>3, <2>1, SelfWrites
  <2>2. CASE ~Phone
    <3>1. last'[Self] = "SelfJoined"
      BY <1>3, <2>2, SelfWrites
    <3>2. last[Self] # "SelfJoined"
      BY <1>3 DEF SelfJoined, SelfEventsTrue, Control
    <3>3. \A r \in repeated' : r \in repeated
      BY <1>3, <3>1, <3>2, SelfWrites
    <3> QED
      BY <3>3, RepeatedStays
  <2> QED
    BY <2>1, <2>2
<1>4. CASE SelfLeaving
  <2>1. last'[Self] \in LeaveTypes
    BY <1>4, SelfWrites
  <2>2. \A r \in repeated' : r \in repeated \/ (r = <<Self, last'[Self]>> /\ last'[Self] = last[Self])
    BY <1>4, SelfWrites
  <2>3. ~Phone => last[Self] = "SelfJoined"
    BY <1>4 DEF SelfLeaving, SelfEventsTrue, Control
  <2>4. \A r \in repeated' : r \in repeated \/ (r[1] = Self /\ r[2] \in Repeatable)
    BY <2>1, <2>2, <2>3 DEF LeaveTypes, Repeatable
  <2> QED
    BY <2>4, RepeatedStays
<1>5. CASE TextChannelInvalidated
  <2>1. CASE info # NoThread /\ ~info.persistent /\ ~Phone
    <3>1. last'[Self] = "SelfLeaving"
      BY <1>5, <2>1, SelfWrites
    <3>2. \A r \in repeated' : r \in repeated \/ r = <<Self, last'[Self]>>
      BY <1>5, SelfWrites
    <3>3. \A r \in repeated' : r \in repeated \/ (r[1] = Self /\ r[2] \in Repeatable)
      BY <2>1, <3>1, <3>2 DEF Repeatable
    <3> QED
      BY <3>3, RepeatedStays
  <2>2. CASE ~(info # NoThread /\ ~info.persistent /\ ~Phone)
    BY <1>1, <1>5, <2>2, SelfWrites
  <2> QED
    BY <2>1, <2>2
<1>6. CASE ConnectChannel \/ RoomPropertiesChanged
  <2>1. \A r \in repeated' : r \in repeated \/ r[1] = Title
    BY <1>6, TitleSteps
  <2> QED
    BY <2>1, RepeatedStays
<1>7. CASE GroupMembersChanged
  <2>1. PICK m \in Moves :
           /\ Move(m)
           /\ IF MemberEvent(m) = Nothing
              THEN last' = last /\ repeated' = repeated /\ silent' = silent \cup ({m.who} \ {Self})
              ELSE /\ m.who \in Contacts /\ ContactMoved(m) /\ silent' = silent
                   /\ MemberEvent(m) = m.event /\ last'[m.who] = m.event
                   /\ \A u \in Users \ {m.who} : last'[u] = last[u]
                   /\ \A r \in repeated' : r \in repeated \/
                         (r = <<m.who, m.event>> /\ m.event = last[m.who])
    BY <1>7, MemberWrites
  <2>2. CASE MemberEvent(m) = Nothing
    BY <1>1, <2>1, <2>2
  <2>3. CASE MemberEvent(m) # Nothing
    <3>1. /\ m.who \in Contacts /\ ContactMoved(m) /\ silent' = silent /\ m.event # Nothing
          /\ \A r \in repeated' : r \in repeated \/
                (r = <<m.who, m.event>> /\ m.event = last[m.who])
      BY <2>1, <2>3
    <3>2. m.event = last[m.who] => m.who \in silent' \ {Self}
      BY <1>0, <3>1, MoveIsNew
    <3>3. \A r \in repeated' : r \in repeated \/ r[1] \in silent' \ {Self}
      BY <3>1, <3>2
    <3> QED
      BY <3>3, RepeatedStays
  <2> QED
    BY <2>2, <2>3
<1>8. CASE RolesChanged
  <2>1. at = "idle"
    BY <1>8 DEF RolesChanged, Idle
  <2>2. PICK news : /\ news = NewAdmins(ChangedRoles(Head(signals)))
                    /\ repeated' = repeated \cup {<<u, "AdminGranted">> : u \in news \cap granted}
    BY <1>8 DEF RolesChanged
  <2>3. news \cap granted = {}
    BY <2>1, <2>2, NoGrantTwice
  <2> QED
    BY <1>1, <2>2, <2>3
<1>9. CASE RemoveThread
  BY <1>9 DEF RemoveThread, NoneRepeated
<1>10. CASE ~Writes
  BY <1>1, <1>10, OthersWriteNothing
<1> QED
  BY <1>2, <1>3, <1>4, <1>5, <1>6, <1>7, <1>8, <1>9, <1>10 DEF Writes

-----------------------------------------------------------------------------
(* The invariant                                                           *)

LEMMA InitInvariant ==
    ASSUME Init
    PROVE  IInv
<1>1. WorldType
  <2>1. service \in [protocol : Protocols, admins : SUBSET Users, subject : Subjects,
                     persistent : BOOLEAN]
    BY RoomAssumption DEF Init
  <2>2. signals \in Seq(RoleSignals \cup SubjectSignals)
    BY DEF Init
  <2> QED
    BY <2>1, <2>2, ClosedType DEF Init, WorldType
<1>2. DaemonType
  BY DEF Init, DaemonType, Steps
<1>3. TablesType
  BY DEF Init, TablesType, NoRows
<1>4. HistoryType
  BY DEF Init, HistoryType, Events
<1>5. Control
  BY DEF Init, Control, Heard, ThreadExists, Members, NoOne
<1>6. Signalled
  BY DEF Init, Signalled
<1>7. RolesKnown /\ SubjectKnown /\ RowsKnown /\ JoinedKnown
  BY DEF Init, RolesKnown, SubjectKnown, RowsKnown, JoinedKnown, ThreadExists, Listens
<1>8. ClientsKnowRoom /\ NothingYet
  BY DEF Init, ClientsKnowRoom, Settled, Idle, NothingYet, ThreadExists
<1>9. ContactEventsTrue /\ SelfEventsTrue
  BY RoomAssumption DEF Init, ContactEventsTrue, SelfEventsTrue, ThreadExists, Members, NoOne, Users,
     LeaveTypes
<1>10. GrantsStored /\ NoneRepeated
  BY DEF Init, GrantsStored, NoneRepeated
<1> QED
  BY <1>1, <1>2, <1>3, <1>4, <1>5, <1>6, <1>7, <1>8, <1>9, <1>10 DEF IInv, Types, Room, Conversation

LEMMA NextInvariant ==
    ASSUME IInv, [Next]_vars
    PROVE  IInv'
<1>1. Types /\ Control /\ Signalled /\ NothingYet /\ RolesKnown /\ SubjectKnown /\ RowsKnown
      /\ JoinedKnown /\ ClientsKnowRoom
  BY DEF IInv, Room
<1>2. Types'
  BY <1>1, TypesStep
<1>3. Room'
  BY <1>1, ControlStep, SignalledStep, RolesKnownStep, SubjectKnownStep, RowsKnownStep,
     JoinedKnownStep DEF Room
<1>4. ClientsKnowRoom' /\ NothingYet'
  BY <1>1, ClientsStep, NothingYetStep
<1>5. Conversation'
  <2> SUFFICES ASSUME ~torn'
               PROVE  ContactEventsTrue' /\ SelfEventsTrue' /\ GrantsStored' /\ NoneRepeated'
    BY DEF Conversation
  <2>1. ~torn
    BY <1>1, StillWhole DEF Types, HistoryType
  <2>2. ContactEventsTrue /\ SelfEventsTrue /\ GrantsStored /\ NoneRepeated
    BY <2>1 DEF IInv, Conversation
  <2> QED
    BY <1>1, <2>2, ContactEventsStep, SelfEventsStep, GrantsStoredStep, NoneRepeatedStep
<1> QED
  BY <1>2, <1>3, <1>4, <1>5 DEF IInv

\* The handlers of the room keep the invariant, wherever they are interrupted.
THEOREM Invariant == Spec => []IInv
<1>1. Init => IInv
  BY InitInvariant
<1>2. IInv /\ [Next]_vars => IInv'
  BY NextInvariant
<1> QED
  BY <1>1, <1>2, PTL DEF Spec

-----------------------------------------------------------------------------
(* What the tables say of the room                                         *)

LEMMA TypesAreRight ==
    ASSUME IInv
    PROVE  TypeOK
<1>1. WorldType /\ DaemonType /\ TablesType /\ Control
  BY DEF IInv, Types, Room
<1>2. /\ channel.self \in SelfStates /\ Members \subseteq Contacts
      /\ \A u \in Members : channel.members[u] \in MemberStates
  BY <1>1, ChannelType
<1>3. listening \subseteq {"roles", "properties", "members"} /\ (observed \/ listening = {})
  BY <1>1 DEF Control, Heard
<1> QED
  BY <1>1, <1>2, <1>3 DEF TypeOK, WorldType, DaemonType, TablesType

\* The rows of a thread whose participants have been rewritten.
LEMMA StoredRows ==
    ASSUME IInv, Settled, fresh
    PROVE  /\ rolesMap # NoThread
           /\ \A p \in Stored : /\ p \in RowTypes /\ rows[p] = 1
                                /\ p.id \in Members /\ p.state = channel.members[p.id]
                                /\ p.admin <=> p.id \in rolesMap
           /\ \A u \in Members : \E p \in Stored : p.id = u /\ p.state = channel.members[u]
<1>1. rolesMap # NoThread /\ rows = ChannelRows(rolesMap)
  BY DEF IInv, Room, RowsKnown, Settled, Idle, Listens
<1>2. ASSUME NEW p \in Stored
      PROVE  /\ p \in RowTypes /\ rows[p] = 1
             /\ p.id \in Members /\ p.state = channel.members[p.id]
             /\ p.admin <=> p.id \in rolesMap
  <2>1. p \in RowTypes /\ rows[p] # 0
    BY DEF Stored
  <2> QED
    BY <1>1, <2>1, ChannelRow
<1>3. ASSUME NEW u \in Members
      PROVE  \E p \in Stored : p.id = u /\ p.state = channel.members[u]
  <2>1. u \in Contacts /\ channel.members[u] \in MemberStates
    BY ChannelType DEF IInv, Types
  <2>2. PICK admin \in BOOLEAN : admin = (u \in rolesMap)
    <3>1. (u \in rolesMap) \in BOOLEAN
      OBVIOUS
    <3> QED
      BY <3>1
  <2>3. PICK p : p = Row(u, channel.members[u], admin)
    OBVIOUS
  <2>4. p \in RowTypes /\ p.id = u /\ p.state = channel.members[u] /\ p.admin = admin
    BY <2>1, <2>3 DEF Row, RowTypes
  <2>5. rows[p] = 1
    BY <1>1, <2>2, <2>4, ChannelRow
  <2>6. p \in Stored
    BY <2>4, <2>5 DEF Stored
  <2> QED
    BY <2>4, <2>6
<1> QED
  BY <1>1, <1>2, <1>3

LEMMA ParticipantsAreRight ==
    ASSUME IInv
    PROVE  ParticipantsFollowChannel
<1> SUFFICES ASSUME Settled, fresh
             PROVE  /\ {<<p.id, p.state>> : p \in Stored} = {<<u, channel.members[u]>> : u \in Members}
                    /\ \A p, q \in Stored : rows[p] = 1 /\ (p.id = q.id => p = q)
  BY DEF ParticipantsFollowChannel
<1>1. {<<p.id, p.state>> : p \in Stored} = {<<u, channel.members[u]>> : u \in Members}
  BY StoredRows
<1>2. ASSUME NEW p \in Stored, NEW q \in Stored
      PROVE  rows[p] = 1 /\ (p.id = q.id => p = q)
  <2>1. /\ p \in RowTypes /\ rows[p] = 1 /\ p.state = channel.members[p.id]
        /\ p.admin <=> p.id \in rolesMap
    BY StoredRows
  <2>2. q \in RowTypes /\ q.state = channel.members[q.id] /\ (q.admin <=> q.id \in rolesMap)
    BY StoredRows
  <2>3. /\ p = [id |-> p.id, state |-> p.state, admin |-> p.admin] /\ p.admin \in BOOLEAN
        /\ q = [id |-> q.id, state |-> q.state, admin |-> q.admin] /\ q.admin \in BOOLEAN
    BY <2>1, <2>2 DEF RowTypes
  <2>4. p.id = q.id => p.state = q.state /\ p.admin = q.admin
    BY <2>1, <2>2, <2>3
  <2> QED
    BY <2>1, <2>3, <2>4
<1> QED
  BY <1>1, <1>2

LEMMA RolesAreRight ==
    ASSUME IInv
    PROVE  RolesFollowRoom
<1> SUFFICES ASSUME Settled, fresh, ~Pending("roles"), NEW p \in Stored, p.id \notin lost
             PROVE  p.admin = (p.id \in service.admins)
  BY DEF RolesFollowRoom
<1>1. rolesMap # NoThread /\ p \in RowTypes /\ (p.admin <=> p.id \in rolesMap)
  BY StoredRows
<1>2. p.id \in Users /\ p.admin \in BOOLEAN
  BY <1>1 DEF RowTypes, Users
<1>3. ~Announced(p.id)
  BY DEF Announced, Pending
<1>4. p.id \in rolesMap <=> p.id \in service.admins
  BY <1>1, <1>2, <1>3 DEF IInv, Room, RolesKnown
<1> QED
  BY <1>1, <1>2, <1>4

LEMMA JoinedIsRight ==
    ASSUME IInv
    PROVE  JoinedFollowsSelf
<1>1. "members" \in listening => observed
  BY DEF IInv, Room, Control, Heard
<1> QED
  BY <1>1 DEF JoinedFollowsSelf, IInv, Room, JoinedKnown, InRoom, Idle

\* The daemon's room handlers: what the tables say of a room - its members and
\* their states, each once, their roles, the subject, whether we have joined -
\* is what the channel and the room's interfaces say, when no handler is running
\* and no signal about it is on its way.
THEOREM TablesAlwaysFollowRoom == Spec => []TablesFollowRoom
<1>1. IInv => TablesFollowRoom
  <2>1. IInv => SubjectFollowsRoom
    BY DEF IInv, Room, SubjectKnown, SubjectFollowsRoom, Settled, Idle, Listens
  <2> QED
    BY <2>1, TypesAreRight, ParticipantsAreRight, RolesAreRight, JoinedIsRight
       DEF TablesFollowRoom
<1> QED
  BY <1>1, Invariant, PTL

\* notifyThreadsModified: when no handler is running, the clients have been told
\* what is stored about the room.
THEOREM ClientsAlwaysKnowRoom == Spec => []ClientsKnowRoom
<1>1. IInv => ClientsKnowRoom
  BY DEF IInv
<1> QED
  BY <1>1, Invariant, PTL

\* writeInformationEvent: whatever the order of joins, invitations, roles and
\* leavings, the conversation never says the same of a person twice in a row.
THEOREM NoEventEverRepeated == Spec => []NoEventRepeated
<1>1. IInv => NoEventRepeated
  BY DEF IInv, Conversation, NoneRepeated, Repeatable, NoEventRepeated
<1> QED
  BY <1>1, Invariant, PTL

=============================================================================
