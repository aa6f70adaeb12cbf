--------------------------- MODULE SchemaUpgrade ---------------------------
(***************************************************************************)
(* The database file from one release to the next.                         *)
(*                                                                         *)
(* At every start the daemon creates its tables, or brings those of an     *)
(* older release to the present version: it runs the schema file of every  *)
(* version in between, stores the new version and converts the data, all   *)
(* in one transaction.  The daemon may be killed and any statement and the *)
(* COMMIT may fail at any point.                                           *)
(*                                                                         *)
(* The rows are those of one thread, which may have a twin: a thread of    *)
(* the other type with the same account and id, and so, as ids are made of *)
(* them, the same participants.  Its old values are what the triggers of   *)
(* the version that wrote them have made of them.                          *)
(***************************************************************************)
EXTENDS Naturals

CONSTANTS
    SchemaVersion,  \* mSchemaVersion: the number of schema files
    OldVersions,    \* the versions a database may come from
    MaxEvents,      \* bounds: events and participants of the thread,
    MaxFaults       \* kills and failing statements together

ASSUME VersionAssumption ==
    /\ SchemaVersion = 19
    /\ OldVersions \subseteq 1 .. SchemaVersion + 1
    /\ MaxEvents \in Nat /\ MaxFaults \in Nat

VARIABLES
    file,       \* the database file: "absent", "empty" (no tables) or "tables"
    disk,       \* what is committed
    conn,       \* what the connection sees
    pc,         \* where createOrUpdateDatabase is; "up" or "failed" when it has returned
    create,     \* the file did not exist when it began
    version,    \* existingVersion
    statements, \* the versions whose schema files are still to run, in their order
    inside,     \* a transaction is open
    faults,
    origin      \* history: the database as the older release left it

vars == <<file, disk, conn, pc, create, version, statements, inside, faults, origin>>

-----------------------------------------------------------------------------
(* Schemas                                                                 *)

\* what every schema file adds to the tables
Adds == [v \in 1 .. SchemaVersion |->
    CASE v = 1 -> {"schema_version", "threads", "thread_participants", "voice_events", "text_events"}
      [] v = 3 -> {"text_events.subject", "text_event_attachments"}
      [] v = 6 -> {"text_events.messageStatus"}
      [] v = 11 -> {"voice_events.remoteParticipant"}
      [] v = 12 -> {"thread_participants.normalizedId"}
      [] v = 13 -> {"threads.chatType", "thread_participants.alias", "thread_participants.state", "chat_room_info"}
      [] v = 15 -> {"thread_participants.roles"}
      [] v = 16 -> {"chat_room_info.joined", "chat_room_info.selfRoles"}
      [] v = 17 -> {"text_events.informationType"}
      [] v = 19 -> {"text_events.sentTime"}
      [] OTHER -> {}]

\* the triggers it drops and creates anew, or creates
TextTriggers == {"text_events_insert", "text_events_update", "text_events_delete"}
VoiceTriggers == {"voice_events_insert", "voice_events_update", "voice_events_delete"}
Replaces == [v \in 1 .. SchemaVersion |->
    CASE v = 1 -> TextTriggers \cup VoiceTriggers
      [] v = 2 -> {"text_events_delete", "voice_events_delete"}
      [] v = 3 -> {"text_events_delete"}
      [] v = 4 -> {"threads_delete"}
      [] v = 6 -> TextTriggers
      [] v = 8 -> TextTriggers \cup VoiceTriggers
      [] v = 9 -> TextTriggers
      [] v = 13 -> {"threads_delete"}
      [] v = 14 -> TextTriggers
      [] v = 18 -> {"text_threads_delete", "voice_threads_delete"}
      [] OTHER -> {}]

Triggers == UNION {Replaces[v] : v \in 1 .. SchemaVersion}

ColumnsOf(v) == UNION {Adds[i] : i \in 1 .. v}
\* which version's definition of a trigger is there, 0 for none
TriggersOf(v) ==
    [t \in Triggers |-> LET since == {i \in 1 .. v : t \in Replaces[i]}
                        IN IF since = {} THEN 0 ELSE CHOOSE i \in since : \A j \in since : j <= i]

-----------------------------------------------------------------------------
(* The rows of a thread                                                    *)

ThreadRows == [type : {"Text", "Voice"}, ofono : BOOLEAN, people : 0 .. MaxEvents, twin : BOOLEAN,
               messages : 0 .. MaxEvents,  \* events that are not information events
               infos : 0 .. MaxEvents]

\* the threads with its account and id
SameIds(row) == IF row.twin THEN 2 ELSE 1

\* the columns that triggers and schema files fill
Filled == [count : 0 .. 2 * MaxEvents, chatType : {"NULL", "None", "Contact", "Room"},
           roomInfo : 0 .. 2,          \* rows of type text in chat_room_info with its ids
           conversions : 0 .. 1,       \* how often timestamps were taken from local time to UTC
           normalized : BOOLEAN, remote : BOOLEAN]

\* the count as the triggers of a version keep it: information events count before version 9
Counted(row, textVersion) ==
    IF row.type = "Voice" THEN row.messages
    ELSE IF textVersion < 9 THEN row.messages + row.infos ELSE row.messages

(* UPDATE of all events: from version 14 on the triggers do not run for    *)
(* information events.                                                     *)
Touched(row, textVersion) == row.messages > 0 \/ (textVersion < 14 /\ row.infos > 0)
Refresh(db, type) ==
    IF db.row.type = type /\ (type = "Voice" \/ Touched(db.row, db.triggers["text_events_update"]))
    THEN [db EXCEPT !.fill.count = Counted(db.row, db.triggers["text_events_update"])]
    ELSE db

NoTables == [version |-> 0, columns |-> {}, triggers |-> TriggersOf(0),
             row |-> [type |-> "Text", ofono |-> FALSE, people |-> 0, twin |-> FALSE,
                     messages |-> 0, infos |-> 0],
             fill |-> [count |-> 0, chatType |-> "NULL", roomInfo |-> 0, conversions |-> 0,
                       normalized |-> FALSE, remote |-> FALSE]]

\* a database that an older release has created and filled
Old(v, row) ==
    [version |-> v, columns |-> ColumnsOf(IF v > SchemaVersion THEN SchemaVersion ELSE v),
     triggers |-> TriggersOf(IF v > SchemaVersion THEN SchemaVersion ELSE v), row |-> row,
     fill |-> [count |-> Counted(row, v),
               chatType |-> IF v < 13 THEN "NULL" ELSE IF row.people = 1 THEN "Contact" ELSE "None",
               roomInfo |-> 0, conversions |-> IF v < 10 THEN 0 ELSE 1,
               normalized |-> v >= 12, remote |-> v >= 11]]

\* a release of version 18 had the column of version 19 already
WithSentTime(db) == [db EXCEPT !.columns = @ \cup {"text_events.sentTime"}]

-----------------------------------------------------------------------------
(* The schema files as statements: what each does to the tables and rows   *)

\* ALTER TABLE ... ADD COLUMN and CREATE TABLE fail if it is there already
Applies(db, v) == Adds[v] \cap db.columns = {}

Fill(db, v) ==
    CASE v \in {7, 17} -> Refresh(db, "Text")
      [] v = 11 -> [Refresh(db, "Voice") EXCEPT !.fill.remote = TRUE]
      [] v = 12 -> [db EXCEPT !.fill.normalized = TRUE]
      [] v = 13 -> [db EXCEPT !.fill.chatType = IF db.row.people = 1 THEN "Contact" ELSE "None"]
      [] OTHER -> db

\* mistake for the checks: CREATE TRIGGER IF NOT EXISTS, without DROP TRIGGER
ApplyKeepingTriggers(db, v) ==
    Fill([db EXCEPT !.columns = @ \cup Adds[v],
                    !.triggers = [t \in Triggers |->
                        IF t \in Replaces[v] /\ @[t] = 0 THEN v ELSE @[t]]], v)
Apply(db, v) ==
    Fill([db EXCEPT !.columns = @ \cup Adds[v],
                    !.triggers = [t \in Triggers |-> IF t \in Replaces[v] THEN v ELSE @[t]]], v)

CreateAll(db) == [db EXCEPT !.columns = ColumnsOf(SchemaVersion), !.triggers = TriggersOf(SchemaVersion)]

\* changeTimestampsToUtc
ToUtc(db) == [Refresh(Refresh(db, "Text"), "Voice") EXCEPT !.fill.conversions = @ + 1]

\* mistake for the checks: UPDATE threads without INSERT INTO chat_room_info
ToRoomsOnly(db) ==
    IF db.row.ofono /\ db.row.people > 1 THEN [db EXCEPT !.fill.chatType = "Room"] ELSE db
(* convertOfonoGroupChatToRoom.  Threads of both types become rooms; each  *)
(* of them is selected for a row, and each row is inserted as type text.   *)
ToRooms(db) ==
    LET converted == [db EXCEPT !.fill.chatType = "Room"]
    IN IF db.row.ofono /\ db.row.people > 1
       THEN [converted EXCEPT !.fill.roomInfo = @ + SameIds(db.row)] ELSE db

-----------------------------------------------------------------------------
(* createOrUpdateDatabase                                                  *)

Init ==
    /\ \/ file = "absent" /\ disk = NoTables
       \/ file = "tables" /\ \E v \in OldVersions, row \in ThreadRows :
              \/ disk = Old(v, row)
              \/ v = 18 /\ disk = WithSentTime(Old(v, row))
    /\ conn = disk /\ origin = disk
    /\ pc = "down" /\ create = FALSE /\ version = 0 /\ statements = {}
    /\ inside = FALSE /\ faults = 0

\* mistake for the checks
upgradeAlways(v) == TRUE
upgradeNeeded(v) == v = 19 => "text_events.sentTime" \notin conn.columns

\* QFile::exists, and open, which leaves an empty file where there was none
Open ==
    /\ pc \in {"down", "failed"}
    /\ create' = (file = "absent")
    /\ file' = IF create' THEN "empty" ELSE file
    /\ conn' = disk /\ inside' = FALSE
    /\ pc' = "opened"
    /\ UNCHANGED <<disk, version, statements, faults, origin>>

ReadVersion ==
    /\ pc = "opened" /\ ~create
    /\ IF conn.version = 0 THEN pc' = "failed" /\ UNCHANGED <<version, statements, inside>>
       ELSE /\ version' = conn.version
            /\ statements' = {v \in 1 .. SchemaVersion : v > conn.version /\ upgradeNeeded(v)}
            /\ pc' = "statements" /\ inside' = TRUE
    /\ UNCHANGED <<file, disk, conn, create, faults, origin>>

\* schema.sql is what the schema files make of an empty database
CreateTables ==
    /\ pc = "opened" /\ create
    /\ inside' = TRUE
    /\ conn' = CreateAll(conn)
    /\ version' = 0 /\ pc' = "version"
    /\ UNCHANGED <<file, disk, create, statements, faults, origin>>

Rollback == conn' = disk /\ inside' = FALSE

\* mistake for the checks: every file is a transaction of its own
RunFileCommitting(v) == conn' = Apply(conn, v) /\ disk' = conn'
RunFile(v) == conn' = Apply(conn, v) /\ UNCHANGED disk

RunStatements ==
    /\ pc = "statements"
    /\ \E v \in statements :
          /\ \A w \in statements : v <= w
          /\ IF Applies(conn, v)
             THEN /\ RunFile(v)
                  /\ statements' = statements \ {v}
                  /\ UNCHANGED <<pc, inside>>
             ELSE /\ Rollback /\ pc' = "failed"
                  /\ UNCHANGED <<statements, disk>>
    /\ UNCHANGED <<file, create, version, faults, origin>>

StatementsDone ==
    /\ pc = "statements" /\ statements = {}
    /\ pc' = "version"
    /\ UNCHANGED <<file, disk, conn, create, version, statements, inside, faults, origin>>

\* mistake for the checks
SetVersionAlways == conn' = [conn EXCEPT !.version = SchemaVersion]
\* a newer version stays
SetVersion ==
    conn' = IF SchemaVersion > version THEN [conn EXCEPT !.version = SchemaVersion] ELSE conn

StoreVersion ==
    /\ pc = "version"
    /\ SetVersion
    /\ pc' = "data"
    /\ UNCHANGED <<file, disk, create, version, statements, inside, faults, origin>>

(* What data has to be converted for, by the version that was found: the   *)
(* times were local before version 10; the groups of an ofono account      *)
(* become rooms if AccountsService can be asked and has MMS groups on.     *)
\* mistake for the checks: the versions are not looked at
ConvertAny(db, groups) == IF groups THEN ToRooms(ToUtc(db)) ELSE ToUtc(db)
Convert(db, groups) ==
    LET timed == IF 0 < version /\ version < 10 THEN ToUtc(db) ELSE db
    IN IF 0 < version /\ version < 13 /\ groups THEN ToRooms(timed) ELSE timed

ConvertData ==
    /\ pc = "data"
    /\ \E groups \in BOOLEAN : conn' = Convert(conn, groups)
    /\ pc' = "commit"
    /\ UNCHANGED <<file, disk, create, version, statements, inside, faults, origin>>

Commit ==
    /\ pc = "commit"
    /\ disk' = conn /\ file' = "tables" /\ inside' = FALSE
    /\ pc' = "up"
    /\ UNCHANGED <<conn, create, version, statements, faults, origin>>

-----------------------------------------------------------------------------
(* Faults                                                                  *)

Fault == faults < MaxFaults /\ faults' = faults + 1

\* a statement fails, and everything is rolled back
StatementFails ==
    /\ Fault
    /\ pc \in {"statements", "version", "data"}
    /\ Rollback /\ pc' = "failed"
    /\ UNCHANGED <<file, disk, create, version, statements, origin>>

\* the result of COMMIT is not looked at: the daemon works inside the transaction
CommitFails ==
    /\ Fault
    /\ pc = "commit" /\ pc' = "up"
    /\ UNCHANGED <<file, disk, conn, create, version, statements, inside, origin>>

\* and the first operation after it ends the transaction
LaterCommit ==
    /\ pc = "up" /\ inside
    /\ disk' = conn /\ file' = "tables" /\ inside' = FALSE
    /\ UNCHANGED <<conn, pc, create, version, statements, faults, origin>>
LaterRollback ==
    /\ pc = "up" /\ inside
    /\ Rollback
    /\ UNCHANGED <<file, disk, pc, create, version, statements, faults, origin>>

Kill ==
    /\ Fault
    /\ pc # "down" /\ pc' = "down"
    /\ conn' = disk /\ inside' = FALSE
    /\ UNCHANGED <<file, disk, create, version, statements, origin>>

Steps ==
    \/ Open \/ ReadVersion \/ CreateTables \/ RunStatements \/ StatementsDone
    \/ StoreVersion \/ ConvertData \/ Commit

Next == Steps \/ StatementFails \/ CommitFails \/ LaterCommit \/ LaterRollback \/ Kill

\* systemd and D-Bus start the daemon again; the code in between does not wait
Spec == Init /\ [][Next]_vars /\ WF_vars(Steps)

-----------------------------------------------------------------------------
(* Properties                                                              *)

TypeOK ==
    /\ file \in {"absent", "empty", "tables"}
    /\ pc \in {"down", "opened", "statements", "version", "data", "commit", "up", "failed"}
    /\ \A db \in {disk, conn} :
           /\ db.version \in 0 .. SchemaVersion + 1
           /\ db.columns \subseteq ColumnsOf(SchemaVersion)
           /\ db.triggers \in [Triggers -> 0 .. SchemaVersion]
           /\ db.row \in ThreadRows /\ db.fill \in Filled
    /\ version \in 0 .. SchemaVersion + 1 /\ faults \in 0 .. MaxFaults
    /\ create \in BOOLEAN /\ inside \in BOOLEAN
    /\ file = "tables" <=> disk.version > 0

\* the tables and triggers that schema.sql creates
Created(db) ==
    /\ db.columns = ColumnsOf(SchemaVersion) /\ db.triggers = TriggersOf(SchemaVersion)
    /\ db.version >= SchemaVersion

(* Whatever fails and whenever the daemon is killed, the file holds the    *)
(* database of the older release untouched or one whose tables and         *)
(* triggers are those of a database created by this release: statements,   *)
(* version and data are one transaction, and a file that was run is not    *)
(* run again.                                                              *)
UpgradeIsAtomic == disk = origin \/ Created(disk)

\* A database of a later release keeps its version, or that release would
\* run its schema files a second time.
VersionNeverDecreases == [][disk'.version >= disk.version]_vars

(* Times are converted to UTC exactly once in the life of a database: by   *)
(* the upgrade past version 10, however often that was attempted.          *)
TimesConvertedOnce ==
    disk.version >= SchemaVersion /\ origin.version > 0 => disk.fill.conversions = 1

(* After the upgrade the count of a thread is the one its triggers would   *)
(* have kept, although older ones counted information events.  Nothing     *)
(* touches the count of a thread that has only such events.                *)
CountsFollowTriggers ==
    disk.version >= SchemaVersion /\ (origin.version >= 9 \/ disk.row.messages > 0) =>
        disk.fill.count = disk.row.messages

(* A text thread has become a room if and only if chat_room_info has a row *)
(* for it, which every later write to the room updates and none inserts;   *)
(* and however often the upgrade was tried, there are no more rows than    *)
(* threads with these ids.  Not claimed, as the code does otherwise: that  *)
(* a voice thread which became a room has a row of its own type, and that  *)
(* a text thread has only one row where its twin was converted as well.    *)
RoomsHaveInfo ==
    /\ disk.row.type = "Text" => (disk.fill.chatType = "Room" <=> disk.fill.roomInfo > 0)
    /\ disk.fill.roomInfo <= SameIds(disk.row)

(* A start after the last fault gives the daemon its database, unless it   *)
(* was interrupted while creating one.  That leaves an empty file, which   *)
(* is taken for a database from then on and has no version.                *)
UpgradeEnds == []<>(pc = "up" \/ file = "empty")

(* After the upgrade times are in UTC, counts are those of the triggers of *)
(* this release, and a text thread is a room exactly where it has the row  *)
(* that holds a room's details: each conversion was done once or not at    *)
(* all.                                                                    *)
ContentsAreConverted == TypeOK /\ TimesConvertedOnce /\ CountsFollowTriggers /\ RoomsHaveInfo
=============================================================================
