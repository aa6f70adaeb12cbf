------------------------ MODULE SchemaUpgradeProofs ------------------------
(***************************************************************************)
(* Proofs about SchemaUpgrade, for a database of any release, any contents *)
(* and any number of faults.                                               *)
(***************************************************************************)
EXTENDS SchemaUpgrade, TLAPS

-----------------------------------------------------------------------------
(* The inductive invariant                                                 *)

Databases == [version : 0 .. SchemaVersion + 1, columns : SUBSET ColumnsOf(SchemaVersion),
              triggers : [Triggers -> 0 .. SchemaVersion], row : ThreadRows, fill : Filled]

\* the one column that a database of the version before may have
Sent == {"text_events.sentTime"}

\* What the older release has left: its tables, and its rows as its triggers
\* and its upgrades had made them.
Origins == {NoTables} \cup {Old(v, row) : v \in 1 .. SchemaVersion + 1, row \in ThreadRows}
           \cup {WithSentTime(Old(18, row)) : row \in ThreadRows}

\* Counts are those of the present triggers, but where nothing has touched them yet.
CountIs(db, touched) ==
    \/ origin.version >= 9 \/ db.row.type = "Voice"
    \/ touched /\ db.row.messages > 0
    => db.fill.count = db.row.messages

RoomIs(db) == db.fill.roomInfo = IF db.fill.chatType = "Room" THEN SameIds(db.row) ELSE 0

\* A database whose upgrade, or creation, is complete.
Upgraded(db) ==
    /\ db \in Databases /\ Created(db) /\ db.row = origin.row
    /\ origin.version <= db.version
    /\ origin.version > 0 => db.fill.conversions = 1
    /\ CountIs(db, TRUE)
    /\ RoomIs(db)

\* All that was done to the data of a database found with this version, before
\* it is converted, is in its columns.
Unconverted(db) ==
    /\ db \in Databases /\ db.row = origin.row
    /\ origin.version > 0 => db.fill.conversions = IF version < 10 THEN 0 ELSE 1
    /\ origin.version <= version /\ (version < SchemaVersion => origin.version = version)
    /\ version < 13 => db.fill.roomInfo = 0 /\ db.fill.chatType # "Room"
    /\ RoomIs(db)

\* The tables and triggers are those of version n, and so are the counts.
Reached(db, n) ==
    /\ Unconverted(db)
    /\ db.columns \ Sent = ColumnsOf(n) \ Sent
    /\ n = SchemaVersion => Sent \subseteq db.columns
    /\ db.triggers = TriggersOf(n)
    /\ CountIs(db, n >= 17)

Running == pc \in {"statements", "version", "data", "commit"}

Basics ==
    /\ origin \in Origins
    /\ disk = origin \/ Upgraded(disk)
    /\ file \in {"absent", "empty", "tables"}
    /\ file = "tables" <=> disk.version > 0
    /\ pc \in {"down", "opened", "statements", "version", "data", "commit", "up", "failed"}
    /\ version \in 0 .. SchemaVersion + 1 /\ faults \in 0 .. MaxFaults
    /\ create \in BOOLEAN /\ inside \in BOOLEAN

\* What the connection sees in each stage: what is committed, unless an upgrade
\* runs or its COMMIT has failed.
Stages ==
    /\ pc \in {"down", "opened", "failed"} \/ (pc = "up" /\ ~inside) => conn = disk
    /\ pc \in {"down", "opened", "failed"} => ~inside
    /\ create /\ pc = "opened" => disk = NoTables
    /\ Running => inside /\ version = disk.version /\ disk.version <= conn.version
    /\ pc = "statements" =>
          \E n \in 1 .. SchemaVersion :
              /\ version <= n \/ n = SchemaVersion
              /\ version > 0 /\ Reached(conn, n)
              /\ statements = {v \in n + 1 .. SchemaVersion : v = 19 => Sent \cap conn.columns = {}}
    /\ pc \in {"version", "data"} => Reached(conn, SchemaVersion)
    /\ pc = "data" => conn.version >= SchemaVersion
    /\ pc = "commit" \/ (pc = "up" /\ inside) => Upgraded(conn) /\ disk.version <= conn.version

IInv == Basics /\ Stages

-----------------------------------------------------------------------------
(* The schema files                                                        *)

LEMMA SentTimeIsLast ==
    /\ Adds[19] = Sent /\ Replaces[19] = {}
    /\ \A v \in 1 .. 18 : "text_events.sentTime" \notin Adds[v]
<1>1. SchemaVersion = 19
  BY VersionAssumption
<1>2. Adds[19] = Sent /\ Replaces[19] = {}
  BY <1>1 DEF Adds, Replaces, Sent
<1>3. \A v \in 1 .. 18 : "text_events.sentTime" \notin Adds[v]
  BY <1>1 DEF Adds
<1> QED
  BY <1>2, <1>3

LEMMA ColumnsStep ==
    ASSUME NEW n \in 1 .. 18
    PROVE  /\ ColumnsOf(n + 1) = ColumnsOf(n) \cup Adds[n + 1]
           /\ ColumnsOf(n) \subseteq ColumnsOf(19) /\ Adds[n + 1] \subseteq ColumnsOf(19)
<1>1. /\ 1 .. n + 1 = (1 .. n) \cup {n + 1}
      /\ 1 .. n \subseteq 1 .. 19 /\ n + 1 \in 1 .. 19
  OBVIOUS
<1> QED
  BY <1>1 DEF ColumnsOf

\* Version 19 adds its column and replaces no trigger.
LEMMA LastColumns ==
    /\ ColumnsOf(19) = ColumnsOf(18) \cup Sent
    /\ \A n \in 1 .. 18 : "text_events.sentTime" \notin ColumnsOf(n)
<1>1. ColumnsOf(18 + 1) = ColumnsOf(18) \cup Adds[18 + 1]
  BY ColumnsStep
<1>2. \A n \in 1 .. 18 : "text_events.sentTime" \notin ColumnsOf(n)
  BY SentTimeIsLast DEF ColumnsOf
<1> QED
  BY <1>1, <1>2, SentTimeIsLast

LEMMA TriggersStep ==
    ASSUME NEW n \in 1 .. 18
    PROVE  TriggersOf(n + 1) = [t \in Triggers |-> IF t \in Replaces[n + 1] THEN n + 1
                                                  ELSE TriggersOf(n)[t]]
<1> DEFINE Since(v, t) == {i \in 1 .. v : t \in Replaces[i]}
           Greatest(S) == IF S = {} THEN 0 ELSE CHOOSE i \in S : \A j \in S : j <= i
           Last(v, t) == Greatest(Since(v, t))
<1>1. \A v \in 1 .. 19 : TriggersOf(v) = [t \in Triggers |-> Last(v, t)]
  BY DEF TriggersOf
<1>2. ASSUME NEW t \in Triggers
      PROVE  Last(n + 1, t) = IF t \in Replaces[n + 1] THEN n + 1 ELSE Last(n, t)
  <2>1. CASE t \in Replaces[n + 1]
    <3>1. n + 1 \in Since(n + 1, t) /\ \A j \in Since(n + 1, t) : j <= n + 1
      BY <2>1
    <3>2. \A i \in Since(n + 1, t) : (\A j \in Since(n + 1, t) : j <= i) => i = n + 1
      BY <3>1
    <3>3. Last(n + 1, t) \in Since(n + 1, t) /\ \A j \in Since(n + 1, t) : j <= Last(n + 1, t)
      <4> HIDE DEF Since
      <4> QED
        BY <3>1
    <3> QED
      BY <2>1, <3>2, <3>3
  <2>2. CASE t \notin Replaces[n + 1]
    <3>1. Since(n + 1, t) = Since(n, t)
      BY <2>2
    <3> HIDE DEF Greatest, Since
    <3> QED
      BY <2>2, <3>1
  <2> QED
    BY <2>1, <2>2
<1>3. n \in 1 .. 19 /\ n + 1 \in 1 .. 19
  OBVIOUS
<1> HIDE DEF Last
<1> QED
  BY <1>1, <1>2, <1>3

\* Information events do not count for the triggers of version 9 and later, and
\* do not run those of version 14.
LEMMA TextUpdateVersion ==
    /\ "text_events_update" \in Triggers
    /\ \A n \in 9 .. 13 : TriggersOf(n)["text_events_update"] = 9
    /\ \A n \in 14 .. 19 : TriggersOf(n)["text_events_update"] = 14
<1> DEFINE update == "text_events_update"
<1>1. /\ SchemaVersion = 19 /\ update \in TextTriggers
      /\ \A v \in 1 .. 19 : update \in Replaces[v] <=> v \in {1, 6, 8, 9, 14}
  BY VersionAssumption DEF Replaces, TextTriggers, VoiceTriggers
<1>2. update \in Triggers
  BY <1>1 DEF Triggers
<1>3. ASSUME NEW n \in 1 .. 18
      PROVE  TriggersOf(n + 1)[update] = IF n + 1 \in {1, 6, 8, 9, 14} THEN n + 1
                                        ELSE TriggersOf(n)[update]
  BY <1>1, <1>2, TriggersStep
<1> DEFINE At(n) == TriggersOf(n)[update]
<1>4. At(9) = 9 /\ At(14) = 14
  <2>1. At(8 + 1) = 8 + 1 /\ At(13 + 1) = 13 + 1
    BY <1>3
  <2> QED
    BY <2>1
<1>5. ASSUME NEW n \in {9, 10, 11, 12, 14, 15, 16, 17, 18}
      PROVE  At(n + 1) = At(n)
  BY <1>3
<1> HIDE DEF At
<1>6. At(10) = At(9) /\ At(11) = At(10) /\ At(12) = At(11) /\ At(13) = At(12)
  <2>1. At(9 + 1) = At(9) /\ At(10 + 1) = At(10) /\ At(11 + 1) = At(11) /\ At(12 + 1) = At(12)
    BY <1>5
  <2> QED
    BY <2>1
<1>7. At(15) = At(14) /\ At(16) = At(15) /\ At(17) = At(16) /\ At(18) = At(17) /\ At(19) = At(18)
  <2>1. At(14 + 1) = At(14) /\ At(15 + 1) = At(15) /\ At(16 + 1) = At(16) /\ At(17 + 1) = At(17)
        /\ At(18 + 1) = At(18)
    BY <1>5
  <2> QED
    BY <2>1
<1>8. /\ \A n \in 9 .. 13 : At(n) = 9
      /\ \A n \in 14 .. 19 : At(n) = 14
  <2>1. \A n \in 9 .. 13 : n = 9 \/ n = 10 \/ n = 11 \/ n = 12 \/ n = 13
    OBVIOUS
  <2>2. \A n \in 14 .. 19 : n = 14 \/ n = 15 \/ n = 16 \/ n = 17 \/ n = 18 \/ n = 19
    OBVIOUS
  <2> QED
    BY <1>4, <1>6, <1>7, <2>1, <2>2
<1> QED
  BY <1>2, <1>8 DEF At

LEMMA SchemaTypes ==
    ASSUME NEW n \in 1 .. 19
    PROVE  /\ TriggersOf(n) \in [Triggers -> 0 .. 19]
           /\ ColumnsOf(n) \subseteq ColumnsOf(19)
           /\ Adds[n] \subseteq ColumnsOf(19)
<1>1. \A v \in 1 .. n : v \in 0 .. 19
  OBVIOUS
<1>2. TriggersOf(n) \in [Triggers -> 0 .. 19]
  BY <1>1 DEF TriggersOf
<1>3. 1 .. n \subseteq 1 .. 19
  OBVIOUS
<1> QED
  BY <1>2, <1>3 DEF ColumnsOf

-----------------------------------------------------------------------------
(* What statements do to a database                                        *)

\* Everything but the columns that are filled stays.
SameTables(old, new) ==
    /\ new.version = old.version /\ new.columns = old.columns
    /\ new.triggers = old.triggers /\ new.row = old.row

LEMMA CountedType ==
    ASSUME NEW row \in ThreadRows, NEW v \in Nat
    PROVE  /\ Counted(row, v) \in 0 .. 2 * MaxEvents
           /\ v >= 9 => Counted(row, v) = row.messages
<1>1. MaxEvents \in Nat /\ row.messages \in 0 .. MaxEvents /\ row.infos \in 0 .. MaxEvents
  BY VersionAssumption DEF ThreadRows
<1> QED
  BY <1>1 DEF Counted

\* An UPDATE of all events has the triggers count what they are written to count.
LEMMA RefreshDoes ==
    ASSUME NEW db \in Databases, NEW type \in {"Text", "Voice"}
    PROVE  LET after == Refresh(db, type)
           IN  /\ after \in Databases /\ SameTables(db, after)
               /\ after.fill.conversions = db.fill.conversions
               /\ after.fill.roomInfo = db.fill.roomInfo
               /\ after.fill.chatType = db.fill.chatType
               /\ \/ after.fill.count = db.fill.count
                  \/ after.fill.count = Counted(db.row, db.triggers["text_events_update"])
               /\ db.row.type = type /\ db.row.messages > 0 =>
                     after.fill.count = Counted(db.row, db.triggers["text_events_update"])
<1> DEFINE counted == Counted(db.row, db.triggers["text_events_update"])
<1>1. db.row \in ThreadRows /\ db.fill \in Filled /\ db.triggers["text_events_update"] \in Nat
  BY TextUpdateVersion, VersionAssumption DEF Databases
<1>2. counted \in 0 .. 2 * MaxEvents
  BY <1>1, CountedType
<1> HIDE DEF counted
<1>3. LET after == [db EXCEPT !.fill.count = counted]
      IN  /\ after \in Databases /\ SameTables(db, after)
          /\ after.fill.conversions = db.fill.conversions
          /\ after.fill.roomInfo = db.fill.roomInfo
          /\ after.fill.chatType = db.fill.chatType
          /\ after.fill.count = counted
  BY <1>1, <1>2 DEF Databases, Filled, SameTables
<1>4. Refresh(db, type) = [db EXCEPT !.fill.count = counted] \/ Refresh(db, type) = db
  BY DEF Refresh, counted
<1>5. db.row.type = type /\ db.row.messages > 0 =>
          Refresh(db, type) = [db EXCEPT !.fill.count = counted]
  BY DEF Refresh, Touched, counted
<1> QED
  BY <1>3, <1>4, <1>5 DEF SameTables, counted

\* A schema file fills columns.
LEMMA FillDoes ==
    ASSUME NEW db \in Databases, NEW v \in 1 .. 19
    PROVE  LET after == Fill(db, v)
           IN  /\ after \in Databases /\ SameTables(db, after)
               /\ after.fill.conversions = db.fill.conversions
               /\ after.fill.roomInfo = db.fill.roomInfo
               /\ v # 13 => after.fill.chatType = db.fill.chatType
               /\ v = 13 => after.fill.chatType \in {"Contact", "None"}
               /\ \/ after.fill.count = db.fill.count
                  \/ after.fill.count = Counted(db.row, db.triggers["text_events_update"])
               /\ v = 17 /\ db.row.type = "Text" /\ db.row.messages > 0 =>
                     after.fill.count = Counted(db.row, db.triggers["text_events_update"])
<1>0. db.fill \in Filled
  BY DEF Databases
<1>1. CASE v \in {7, 17}
  <2> DEFINE refreshed == Refresh(db, "Text")
  <2>1. Fill(db, v) = refreshed
    BY <1>1 DEF Fill
  <2>2. /\ refreshed \in Databases /\ SameTables(db, refreshed)
        /\ refreshed.fill.conversions = db.fill.conversions
        /\ refreshed.fill.roomInfo = db.fill.roomInfo
        /\ refreshed.fill.chatType = db.fill.chatType
        /\ \/ refreshed.fill.count = db.fill.count
           \/ refreshed.fill.count = Counted(db.row, db.triggers["text_events_update"])
        /\ db.row.type = "Text" /\ db.row.messages > 0 =>
              refreshed.fill.count = Counted(db.row, db.triggers["text_events_update"])
    BY RefreshDoes
  <2> HIDE DEF refreshed
  <2> QED
    BY <1>1, <2>1, <2>2
<1>2. CASE v = 11
  <2> DEFINE refreshed == Refresh(db, "Voice")
  <2>1. Fill(db, v) = [refreshed EXCEPT !.fill.remote = TRUE]
    BY <1>2 DEF Fill
  <2>2. /\ refreshed \in Databases /\ SameTables(db, refreshed)
        /\ refreshed.fill.conversions = db.fill.conversions
        /\ refreshed.fill.roomInfo = db.fill.roomInfo
        /\ refreshed.fill.chatType = db.fill.chatType
        /\ \/ refreshed.fill.count = db.fill.count
           \/ refreshed.fill.count = Counted(db.row, db.triggers["text_events_update"])
    BY RefreshDoes
  <2> HIDE DEF refreshed
  <2> DEFINE filled == [refreshed EXCEPT !.fill.remote = TRUE]
  <2>3. refreshed.fill \in Filled
    BY <2>2 DEF Databases
  <2>4. /\ filled \in Databases /\ SameTables(refreshed, filled)
        /\ filled.fill.conversions = refreshed.fill.conversions
        /\ filled.fill.roomInfo = refreshed.fill.roomInfo
        /\ filled.fill.chatType = refreshed.fill.chatType
        /\ filled.fill.count = refreshed.fill.count
    BY <2>2, <2>3 DEF Databases, Filled, SameTables
  <2>5. Fill(db, v) = filled
    BY <2>1
  <2> HIDE DEF filled
  <2> QED
    BY <1>2, <2>2, <2>4, <2>5 DEF SameTables
<1>3. CASE v = 12
  <2> DEFINE filled == [db EXCEPT !.fill.normalized = TRUE]
  <2>1. Fill(db, v) = filled
    BY <1>3 DEF Fill
  <2>2. /\ filled \in Databases /\ SameTables(db, filled)
        /\ filled.fill.conversions = db.fill.conversions
        /\ filled.fill.roomInfo = db.fill.roomInfo
        /\ filled.fill.chatType = db.fill.chatType
        /\ filled.fill.count = db.fill.count
    BY <1>0 DEF Databases, Filled, SameTables
  <2> HIDE DEF filled
  <2> QED
    BY <1>3, <2>1, <2>2 DEF Databases, Filled, SameTables
<1>4. CASE v = 13
  <2>1. PICK chat \in {"Contact", "None"} : Fill(db, v) = [db EXCEPT !.fill.chatType = chat]
    BY <1>4 DEF Fill
  <2> DEFINE filled == [db EXCEPT !.fill.chatType = chat]
  <2>2. /\ filled \in Databases /\ SameTables(db, filled)
        /\ filled.fill.conversions = db.fill.conversions
        /\ filled.fill.roomInfo = db.fill.roomInfo
        /\ filled.fill.chatType = chat
        /\ filled.fill.count = db.fill.count
    BY <1>0 DEF Databases, Filled, SameTables
  <2>3. Fill(db, v) = filled
    BY <2>1
  <2> HIDE DEF filled
  <2> QED
    BY <1>4, <2>2, <2>3 DEF Databases, Filled, SameTables
<1>5. CASE v \notin {7, 11, 12, 13, 17}
  <2>1. Fill(db, v) = db
    BY <1>5 DEF Fill
  <2> QED
    BY <1>5, <2>1 DEF SameTables
<1> QED
  BY <1>1, <1>2, <1>3, <1>4, <1>5

-----------------------------------------------------------------------------
(* An upgrade step by step                                                 *)

\* A file of the next version brings the database to that version.
LEMMA FileReaches ==
    ASSUME NEW n \in 1 .. 18, Reached(conn, n), version \in Nat, version <= n,
           origin.version \in Nat,
           n = 18 => Sent \cap conn.columns = {}
    PROVE  /\ Reached(Apply(conn, n + 1), n + 1)
           /\ Apply(conn, n + 1).version = conn.version
           /\ Apply(conn, n + 1).columns = conn.columns \cup Adds[n + 1]
<1> DEFINE added == [conn EXCEPT !.columns = @ \cup Adds[n + 1],
                                 !.triggers = [t \in Triggers |->
                                     IF t \in Replaces[n + 1] THEN n + 1 ELSE @[t]]]
           after == Fill(added, n + 1)
<1>0. /\ SchemaVersion = 19 /\ n + 1 \in 1 .. 19 /\ n \in 1 .. 19
      /\ conn \in Databases /\ Unconverted(conn)
      /\ conn.columns \ Sent = ColumnsOf(n) \ Sent
      /\ conn.triggers = TriggersOf(n)
      /\ CountIs(conn, n >= 17)
  BY VersionAssumption DEF Reached, Unconverted
<1>1. Apply(conn, n + 1) = after
  BY DEF Apply
<1>2. [t \in Triggers |-> IF t \in Replaces[n + 1] THEN n + 1 ELSE conn.triggers[t]]
         = TriggersOf(n + 1)
  BY <1>0, TriggersStep
<1>3. /\ added \in Databases
      /\ added.version = conn.version /\ added.row = conn.row /\ added.fill = conn.fill
      /\ added.columns = conn.columns \cup Adds[n + 1]
      /\ added.triggers = TriggersOf(n + 1)
  BY <1>0, <1>2, SchemaTypes DEF Databases
<1> HIDE DEF added
<1>4. /\ after \in Databases /\ SameTables(added, after)
      /\ after.fill.conversions = conn.fill.conversions
      /\ after.fill.roomInfo = conn.fill.roomInfo
      /\ n + 1 # 13 => after.fill.chatType = conn.fill.chatType
      /\ n + 1 = 13 => after.fill.chatType \in {"Contact", "None"}
      /\ \/ after.fill.count = conn.fill.count
         \/ after.fill.count = Counted(conn.row, TriggersOf(n + 1)["text_events_update"])
      /\ n + 1 = 17 /\ conn.row.type = "Text" /\ conn.row.messages > 0 =>
            after.fill.count = Counted(conn.row, TriggersOf(n + 1)["text_events_update"])
  <2>1. /\ after \in Databases /\ SameTables(added, after)
        /\ after.fill.conversions = added.fill.conversions
        /\ after.fill.roomInfo = added.fill.roomInfo
        /\ n + 1 # 13 => after.fill.chatType = added.fill.chatType
        /\ n + 1 = 13 => after.fill.chatType \in {"Contact", "None"}
        /\ \/ after.fill.count = added.fill.count
           \/ after.fill.count = Counted(added.row, added.triggers["text_events_update"])
        /\ n + 1 = 17 /\ added.row.type = "Text" /\ added.row.messages > 0 =>
              after.fill.count = Counted(added.row, added.triggers["text_events_update"])
    BY <1>0, <1>3, FillDoes
  <2> HIDE DEF after
  <2> QED
    BY <1>3, <2>1
<1> HIDE DEF after
<1>5. after.columns \ Sent = ColumnsOf(n + 1) \ Sent
  BY <1>0, <1>3, <1>4, ColumnsStep DEF SameTables
<1>6. n + 1 = 19 => Sent \subseteq after.columns
  BY <1>3, <1>4, SentTimeIsLast DEF SameTables
<1>7. after.triggers = TriggersOf(n + 1)
  BY <1>3, <1>4 DEF SameTables
<1>8. Unconverted(after)
  <2>1. after.row = origin.row /\ after.fill.conversions = conn.fill.conversions
        /\ after.fill.roomInfo = conn.fill.roomInfo
    BY <1>0, <1>3, <1>4 DEF Unconverted, SameTables
  <2>2. CASE n + 1 = 13
    <3>1. version < 13 /\ conn.fill.roomInfo = 0
      BY <1>0, <2>2 DEF Unconverted
    <3> QED
      BY <1>0, <1>4, <2>1, <2>2, <3>1 DEF Unconverted, RoomIs
  <2>3. CASE n + 1 # 13
    BY <1>0, <1>4, <2>1, <2>3 DEF Unconverted, RoomIs
  <2> QED
    BY <2>2, <2>3
<1>9. CountIs(after, n + 1 >= 17)
  <2>1. conn.row \in ThreadRows /\ TriggersOf(n + 1)["text_events_update"] \in Nat
    <3>1. conn.row \in ThreadRows
      BY <1>0 DEF Databases
    <3>2. TriggersOf(n + 1)["text_events_update"] \in Nat
      <4>1. n + 1 \in 1 .. 19
        OBVIOUS
      <4>2. TriggersOf(n + 1) \in [Triggers -> 0 .. 19]
        BY <4>1, SchemaTypes
      <4>3. TriggersOf(n + 1)["text_events_update"] \in 0 .. 19
        BY <4>2, TextUpdateVersion
      <4> QED
        BY <4>3
    <3> QED
      BY <3>1, <3>2
  <2>2. n + 1 >= 9 => Counted(conn.row, TriggersOf(n + 1)["text_events_update"]) = conn.row.messages
    <3>1. ASSUME n + 1 >= 9 PROVE TriggersOf(n + 1)["text_events_update"] >= 9
      <4>1. n + 1 \in 9 .. 13 \/ n + 1 \in 14 .. 19
        BY <3>1
      <4> QED
        BY <4>1, TextUpdateVersion
    <3> QED
      BY <2>1, <3>1, CountedType
  <2>7. conn.row.type = "Voice" =>
            Counted(conn.row, TriggersOf(n + 1)["text_events_update"]) = conn.row.messages
    BY DEF Counted
  <2>8. conn.row.type = "Text" \/ conn.row.type = "Voice"
    BY <2>1 DEF ThreadRows
  <2>3. origin.version >= 9 => n + 1 >= 9
    BY <1>0 DEF Unconverted
  <2>4. after.row = conn.row
    BY <1>3, <1>4 DEF SameTables
  <2>5. CASE origin.version >= 9
    BY <1>0, <1>4, <2>2, <2>3, <2>4, <2>5 DEF CountIs
  <2>9. CASE conn.row.type = "Voice"
    BY <1>0, <1>4, <2>4, <2>7, <2>9 DEF CountIs
  <2>6. CASE n + 1 >= 17 /\ conn.row.messages > 0
    <3>1. CASE n >= 17
      BY <1>0, <1>4, <2>2, <2>4, <2>6, <3>1 DEF CountIs
    <3>2. CASE n + 1 = 17
      BY <1>4, <2>2, <2>4, <2>6, <2>8, <2>9, <3>2 DEF CountIs
    <3> QED
      BY <2>6, <3>1, <3>2
  <2> QED
    BY <2>4, <2>5, <2>6, <2>9 DEF CountIs
<1>10. after.version = conn.version /\ after.columns = conn.columns \cup Adds[n + 1]
  BY <1>3, <1>4 DEF SameTables
<1> QED
  BY <1>0, <1>1, <1>5, <1>6, <1>7, <1>8, <1>9, <1>10 DEF Reached

\* Times become UTC once; the triggers of the present version count.
LEMMA UtcConverts ==
    ASSUME NEW db \in Databases, db.triggers = TriggersOf(19), db.fill.conversions = 0
    PROVE  LET after == ToUtc(db)
           IN  /\ after \in Databases /\ SameTables(db, after)
               /\ after.fill.conversions = 1
               /\ after.fill.roomInfo = db.fill.roomInfo
               /\ after.fill.chatType = db.fill.chatType
               /\ after.fill.count = db.fill.count \/ after.fill.count = db.row.messages
<1> DEFINE texts == Refresh(db, "Text")
           both == Refresh(texts, "Voice")
           after == [both EXCEPT !.fill.conversions = @ + 1]
<1>1. db.row \in ThreadRows /\ TriggersOf(19)["text_events_update"] = 14
  BY TextUpdateVersion DEF Databases
<1>2. Counted(db.row, 14) = db.row.messages
  BY <1>1, CountedType
<1>3. /\ texts \in Databases /\ SameTables(db, texts)
      /\ texts.fill.conversions = 0
      /\ texts.fill.roomInfo = db.fill.roomInfo /\ texts.fill.chatType = db.fill.chatType
      /\ texts.fill.count = db.fill.count \/ texts.fill.count = db.row.messages
  <2>1. /\ texts \in Databases /\ SameTables(db, texts)
        /\ texts.fill.conversions = db.fill.conversions
        /\ texts.fill.roomInfo = db.fill.roomInfo
        /\ texts.fill.chatType = db.fill.chatType
        /\ \/ texts.fill.count = db.fill.count
           \/ texts.fill.count = Counted(db.row, db.triggers["text_events_update"])
    BY RefreshDoes
  <2> HIDE DEF texts
  <2> QED
    BY <1>1, <1>2, <2>1
<1> HIDE DEF texts
<1>4. texts.row = db.row /\ texts.triggers = db.triggers
  BY <1>3 DEF SameTables
<1>5. /\ both \in Databases /\ SameTables(texts, both)
      /\ both.fill.conversions = 0
      /\ both.fill.roomInfo = db.fill.roomInfo /\ both.fill.chatType = db.fill.chatType
      /\ both.fill.count = db.fill.count \/ both.fill.count = db.row.messages
  <2>1. /\ both \in Databases /\ SameTables(texts, both)
        /\ both.fill.conversions = texts.fill.conversions
        /\ both.fill.roomInfo = texts.fill.roomInfo
        /\ both.fill.chatType = texts.fill.chatType
        /\ \/ both.fill.count = texts.fill.count
           \/ both.fill.count = Counted(texts.row, texts.triggers["text_events_update"])
    BY <1>3, RefreshDoes
  <2> HIDE DEF both
  <2> QED
    BY <1>1, <1>2, <1>3, <1>4, <2>1
<1> HIDE DEF both
<1>6. both.fill \in Filled
  BY <1>5 DEF Databases
<1>7. /\ after \in Databases /\ SameTables(both, after)
      /\ after.fill.conversions = 1
      /\ after.fill.roomInfo = both.fill.roomInfo /\ after.fill.chatType = both.fill.chatType
      /\ after.fill.count = both.fill.count
  BY <1>5, <1>6 DEF Databases, Filled, SameTables
<1>8. ToUtc(db) = after
  BY DEF ToUtc, both, texts
<1> HIDE DEF after
<1> QED
  BY <1>3, <1>5, <1>7, <1>8 DEF SameTables

LEMMA RoomsConvert ==
    ASSUME NEW db \in Databases, db.fill.roomInfo = 0, db.fill.chatType # "Room"
    PROVE  LET after == ToRooms(db)
           IN  /\ after \in Databases /\ SameTables(db, after)
               /\ after.fill.conversions = db.fill.conversions
               /\ after.fill.count = db.fill.count
               /\ RoomIs(after)
<1>1. db.fill \in Filled
  BY DEF Databases
<1>4. SameIds(db.row) \in {1, 2}
  BY DEF SameIds
<1>2. CASE ToRooms(db) = db
  BY <1>2 DEF SameTables, RoomIs
<1> DEFINE converted == [db EXCEPT !.fill.chatType = "Room"]
           after == [converted EXCEPT !.fill.roomInfo = @ + SameIds(db.row)]
<1>3. CASE ToRooms(db) = after
  <2>1. /\ converted \in Databases /\ SameTables(db, converted) /\ converted.fill \in Filled
        /\ converted.fill.conversions = db.fill.conversions
        /\ converted.fill.count = db.fill.count
        /\ converted.fill.chatType = "Room" /\ converted.fill.roomInfo = 0
    BY <1>1 DEF Databases, Filled, SameTables
  <2> HIDE DEF converted
  <2>2. /\ after \in Databases /\ SameTables(converted, after)
        /\ after.fill.conversions = converted.fill.conversions
        /\ after.fill.count = converted.fill.count
        /\ after.fill.chatType = "Room" /\ after.fill.roomInfo = SameIds(db.row)
    BY <1>4, <2>1 DEF Databases, Filled, SameTables
  <2> HIDE DEF after
  <2> QED
    BY <1>3, <2>1, <2>2 DEF RoomIs, SameTables
<1> QED
  BY <1>2, <1>3 DEF ToRooms

LEMMA AllColumns ==
    ASSUME NEW db, Reached(db, 19)
    PROVE  db.columns = ColumnsOf(19) /\ db.triggers = TriggersOf(19)
<1>1. Sent \subseteq ColumnsOf(19)
  BY LastColumns
<1> QED
  BY <1>1, VersionAssumption DEF Reached

LEMMA DataConverts ==
    ASSUME Reached(conn, 19), conn.version >= 19, conn.version >= version, NEW groups \in BOOLEAN,
           version \in 0 .. 20, origin.version \in 0 .. 20
    PROVE  Upgraded(Convert(conn, groups)) /\ Convert(conn, groups).version = conn.version
<1> DEFINE timed == IF 0 < version /\ version < 10 THEN ToUtc(conn) ELSE conn
           after == IF 0 < version /\ version < 13 /\ groups THEN ToRooms(timed) ELSE timed
<1>0. /\ SchemaVersion = 19 /\ conn \in Databases /\ conn.row = origin.row
      /\ conn.columns = ColumnsOf(19) /\ conn.triggers = TriggersOf(19)
      /\ origin.version > 0 => conn.fill.conversions = IF version < 10 THEN 0 ELSE 1
      /\ origin.version <= version /\ (version < 19 => origin.version = version)
      /\ version < 13 => conn.fill.roomInfo = 0 /\ conn.fill.chatType # "Room"
      /\ RoomIs(conn) /\ CountIs(conn, TRUE)
  BY VersionAssumption, AllColumns DEF Reached, Unconverted, CountIs
<1>1. /\ timed \in Databases /\ SameTables(conn, timed)
      /\ origin.version > 0 => timed.fill.conversions = 1
      /\ timed.fill.roomInfo = conn.fill.roomInfo /\ timed.fill.chatType = conn.fill.chatType
      /\ timed.fill.count = conn.fill.count \/ timed.fill.count = conn.row.messages
  <2>1. CASE 0 < version /\ version < 10
    BY <1>0, <2>1, UtcConverts
  <2>2. CASE ~(0 < version /\ version < 10)
    BY <1>0, <2>2 DEF SameTables
  <2> QED
    BY <2>1, <2>2
<1>2. Convert(conn, groups) = after
  BY DEF Convert
<1> HIDE DEF timed
<1>3. /\ after \in Databases /\ SameTables(conn, after)
      /\ after.fill.conversions = timed.fill.conversions
      /\ after.fill.count = timed.fill.count
      /\ RoomIs(after)
  <2>1. CASE 0 < version /\ version < 13 /\ groups
    <3>1. timed.fill.roomInfo = 0 /\ timed.fill.chatType # "Room"
      BY <1>0, <1>1, <2>1
    <3> QED
      BY <1>1, <2>1, <3>1, RoomsConvert DEF SameTables
  <2>2. CASE ~(0 < version /\ version < 13 /\ groups)
    <3>1. after = timed /\ timed.row = conn.row
      BY <1>1, <2>2 DEF SameTables
    <3> QED
      BY <1>0, <1>1, <3>1 DEF RoomIs
  <2> QED
    BY <2>1, <2>2
<1> HIDE DEF after
<1>4. CountIs(after, TRUE)
  BY <1>0, <1>1, <1>3 DEF CountIs, SameTables
<1>5. Created(after) /\ after.row = origin.row /\ after.version = conn.version
  BY <1>0, <1>3 DEF Created, SameTables
<1>6. origin.version <= after.version
  <2>1. conn.version \in 0 .. 20
    BY <1>0 DEF Databases
  <2> QED
    BY <1>0, <1>5, <2>1
<1> QED
  BY <1>1, <1>2, <1>3, <1>4, <1>5, <1>6 DEF Upgraded

-----------------------------------------------------------------------------
(* Where an upgrade begins                                                 *)

LEMMA EmptyDatabase ==
    /\ NoTables \in Databases /\ NoTables.version = 0
    /\ NoTables.fill.conversions = 0 /\ NoTables.fill.count = 0
    /\ NoTables.fill.roomInfo = 0 /\ NoTables.fill.chatType = "NULL"
    /\ NoTables.row.messages = 0
<1>1. TriggersOf(0) \in [Triggers -> 0 .. 19]
  <2>1. 1 .. 0 = {}
    OBVIOUS
  <2> QED
    BY <2>1 DEF TriggersOf
<1>2. NoTables.row \in ThreadRows /\ NoTables.fill \in Filled
  BY VersionAssumption DEF NoTables, ThreadRows, Filled
<1> QED
  BY <1>1, <1>2, VersionAssumption DEF NoTables, Databases

\* What a release of version v has left, with the column of version 19 or without.
LeftBehind(db, v, row, n) ==
    /\ db \in Databases /\ db.version = v /\ db.row = row
    /\ db.columns \ Sent = ColumnsOf(n) \ Sent
    /\ n = 19 => Sent \subseteq db.columns
    /\ db.triggers = TriggersOf(n)
    /\ db.fill.conversions = IF v < 10 THEN 0 ELSE 1
    /\ db.fill.roomInfo = 0 /\ db.fill.chatType # "Room"
    /\ db.row.type = "Voice" \/ v >= 9 => db.fill.count = row.messages

LEMMA OldDatabase ==
    ASSUME NEW v \in 1 .. 20, NEW row \in ThreadRows, NEW db,
           db = Old(v, row) \/ (v = 18 /\ db = WithSentTime(Old(v, row)))
    PROVE  LeftBehind(db, v, row, IF v > 19 THEN 19 ELSE v)
<1> DEFINE n == IF v > 19 THEN 19 ELSE v
           old == Old(v, row)
<1>1. n \in 1 .. 19 /\ SchemaVersion = 19 /\ v \in Nat
  BY VersionAssumption
<1>2. TriggersOf(n) \in [Triggers -> 0 .. 19] /\ ColumnsOf(n) \subseteq ColumnsOf(19)
  BY <1>1, SchemaTypes
<1>3. /\ Counted(row, v) \in 0 .. 2 * MaxEvents
      /\ row.type = "Voice" \/ v >= 9 => Counted(row, v) = row.messages
  BY <1>1, CountedType DEF Counted
<1>4. /\ old.version = v /\ old.row = row /\ old.columns = ColumnsOf(n)
      /\ old.triggers = TriggersOf(n)
      /\ old.fill.conversions = IF v < 10 THEN 0 ELSE 1
      /\ old.fill.roomInfo = 0 /\ old.fill.chatType \in {"NULL", "Contact", "None"}
      /\ old.fill.count = Counted(row, v)
  BY <1>1 DEF Old
<1>5. old.fill \in Filled
  BY <1>1, <1>3 DEF Old, Filled
<1>6. old \in Databases
  BY <1>1, <1>2, <1>5 DEF Old, Databases
<1>7. Sent \subseteq ColumnsOf(19)
  BY LastColumns
<1> HIDE DEF n, old
<1>8. CASE db = old
  BY <1>1, <1>3, <1>4, <1>6, <1>7, <1>8 DEF n, LeftBehind
<1>9. CASE v = 18 /\ db = WithSentTime(old)
  <2>1. /\ db \in Databases /\ db.version = old.version /\ db.row = old.row
        /\ db.triggers = old.triggers /\ db.fill = old.fill
        /\ db.columns = old.columns \cup Sent
    BY <1>1, <1>6, <1>7, <1>9 DEF WithSentTime, Databases, Sent
  <2> QED
    BY <1>1, <1>3, <1>4, <1>9, <2>1 DEF n, LeftBehind
<1> QED
  BY <1>8, <1>9 DEF n, old

LEMMA OriginKnown ==
    ASSUME origin \in Origins
    PROVE  /\ origin \in Databases
           /\ \/ origin = NoTables
              \/ \E v \in 1 .. 20, row \in ThreadRows :
                    \/ origin = Old(v, row)
                    \/ v = 18 /\ origin = WithSentTime(Old(v, row))
<1>1. \/ origin = NoTables
      \/ \E v \in 1 .. 20, row \in ThreadRows :
            origin = Old(v, row) \/ (v = 18 /\ origin = WithSentTime(Old(v, row)))
  BY VersionAssumption DEF Origins
<1> QED
  BY <1>1, EmptyDatabase, OldDatabase DEF LeftBehind

\* The database an upgrade finds, read as one that reached its own version.
Found(db) == IF db.version > 19 THEN 19 ELSE db.version

LEMMA FoundDatabase ==
    ASSUME origin \in Origins, disk = origin \/ Upgraded(disk), disk.version > 0,
           version' = disk.version, conn' = disk, origin' = origin, NEW n, n = Found(disk)
    PROVE  /\ disk.version \in 1 .. 20 /\ n \in 1 .. 19
           /\ Reached(conn, n)'
<1>0. SchemaVersion = 19
  BY VersionAssumption
<1>1. CASE Upgraded(disk)
  <2>1. /\ disk \in Databases /\ disk.version \in 19 .. 20 /\ n = 19
        /\ disk.columns = ColumnsOf(19) /\ disk.triggers = TriggersOf(19)
        /\ disk.row = origin.row /\ RoomIs(disk) /\ CountIs(disk, TRUE)
        /\ origin.version <= disk.version
        /\ origin.version > 0 => disk.fill.conversions = 1
    <3>1. /\ disk \in Databases /\ disk.version >= 19
          /\ disk.columns = ColumnsOf(19) /\ disk.triggers = TriggersOf(19)
          /\ disk.row = origin.row /\ RoomIs(disk) /\ CountIs(disk, TRUE)
          /\ origin.version <= disk.version
          /\ origin.version > 0 => disk.fill.conversions = 1
      BY <1>0, <1>1 DEF Upgraded, Created
    <3>2. disk.version \in 0 .. 20
      BY <1>0, <3>1 DEF Databases
    <3>3. disk.version \in 19 .. 20
      BY <3>1, <3>2
    <3>4. n = 19
      BY <3>3 DEF Found
    <3> QED
      BY <3>1, <3>3, <3>4
  <2>2. Sent \subseteq ColumnsOf(19)
    BY LastColumns
  <2>3. Unconverted(conn)'
    BY <1>0, <2>1 DEF Unconverted, RoomIs
  <2> QED
    BY <1>0, <2>1, <2>2, <2>3 DEF Reached, CountIs
<1>2. CASE disk = origin
  <2>1. PICK v \in 1 .. 20, row \in ThreadRows :
            disk = Old(v, row) \/ (v = 18 /\ disk = WithSentTime(Old(v, row)))
    BY <1>2, OriginKnown, EmptyDatabase
  <2>2. /\ disk \in Databases /\ disk.version = v /\ n = (IF v > 19 THEN 19 ELSE v) /\ disk.row = row
        /\ disk.columns \ Sent = ColumnsOf(n) \ Sent
        /\ n = 19 => Sent \subseteq disk.columns
        /\ disk.triggers = TriggersOf(n)
        /\ disk.fill.conversions = IF v < 10 THEN 0 ELSE 1
        /\ disk.fill.roomInfo = 0 /\ disk.fill.chatType # "Room"
        /\ disk.row.type = "Voice" \/ v >= 9 => disk.fill.count = row.messages
    <3> DEFINE m == IF v > 19 THEN 19 ELSE v
    <3>1. LeftBehind(disk, v, row, m)
      BY <2>1, OldDatabase
    <3>2. n = m
      BY <3>1 DEF Found, LeftBehind
    <3> QED
      BY <3>1, <3>2 DEF LeftBehind
  <2>3. n \in 1 .. 19 /\ (n >= 17 => v >= 9)
    BY <2>2
  <2>4. Unconverted(conn)'
    BY <1>0, <1>2, <2>2 DEF Unconverted, RoomIs
  <2>5. CountIs(conn, n >= 17)'
    BY <1>2, <2>2, <2>3 DEF CountIs
  <2> QED
    BY <1>0, <2>2, <2>3, <2>4, <2>5 DEF Reached
<1> QED
  BY <1>1, <1>2

-----------------------------------------------------------------------------
(* Every step keeps the invariant                                          *)

LEMMA InitInvariant == Init => IInv
<1> SUFFICES ASSUME Init PROVE IInv
  OBVIOUS
<1>0. SchemaVersion = 19 /\ MaxFaults \in Nat /\ OldVersions \subseteq 1 .. 20
  BY VersionAssumption
<1>1. origin = disk /\ conn = disk /\ pc = "down" /\ create = FALSE /\ version = 0
      /\ inside = FALSE /\ faults = 0
  BY DEF Init
<1>2. /\ file \in {"absent", "tables"} /\ origin \in Origins
      /\ file = "tables" <=> disk.version > 0
  <2>1. CASE file = "absent" /\ disk = NoTables
    BY <1>1, <2>1, EmptyDatabase DEF Origins
  <2>2. CASE /\ file = "tables"
             /\ \E v \in OldVersions, row \in ThreadRows :
                   disk = Old(v, row) \/ (v = 18 /\ disk = WithSentTime(Old(v, row)))
    <3>1. PICK v \in 1 .. 20, row \in ThreadRows :
              disk = Old(v, row) \/ (v = 18 /\ disk = WithSentTime(Old(v, row)))
      BY <1>0, <2>2
    <3>2. disk.version = v
      BY <3>1, OldDatabase DEF LeftBehind
    <3>3. origin \in Origins
      BY <1>0, <1>1, <3>1 DEF Origins
    <3> QED
      BY <2>2, <3>2, <3>3
  <2> QED
    BY <2>1, <2>2 DEF Init
<1>3. Basics
  <2>1. version \in 0 .. SchemaVersion + 1 /\ faults \in 0 .. MaxFaults
    BY <1>0, <1>1
  <2>2. /\ disk = origin
        /\ file \in {"absent", "empty", "tables"}
        /\ create \in BOOLEAN /\ inside \in BOOLEAN
        /\ pc \in {"down", "opened", "statements", "version", "data", "commit", "up", "failed"}
    BY <1>1, <1>2
  <2> QED
    BY <1>2, <2>1, <2>2, Zenon DEF Basics
<1>4. Stages
  BY <1>1 DEF Stages, Running
<1> QED
  BY <1>3, <1>4 DEF IInv

\* The database is closed, or open and as it is on the disk.
LEMMA QuietStep ==
    ASSUME IInv, UNCHANGED <<disk, version, origin>>, conn' = disk, ~inside',
           create' \in BOOLEAN, inside' \in BOOLEAN, pc' \in {"down", "opened", "failed", "up"},
           faults' \in 0 .. MaxFaults, file' \in {"absent", "empty", "tables"},
           file' = "tables" <=> disk.version > 0,
           create' /\ pc' = "opened" => disk = NoTables
    PROVE  IInv'
<1>1. Upgraded(disk) => Upgraded(disk)'
  BY DEF Upgraded, CountIs, RoomIs, Created
<1>2. disk' = disk /\ version' = version /\ origin' = origin /\ conn' = disk'
  OBVIOUS
<1>3. disk' = origin' \/ Upgraded(disk)'
  BY <1>1, <1>2 DEF IInv, Basics
<1>4. Basics'
  BY <1>2, <1>3 DEF IInv, Basics
<1>5. Stages'
  BY <1>2 DEF Stages, Running
<1> QED
  BY <1>4, <1>5 DEF IInv

LEMMA FaultCounts ==
    ASSUME IInv, Fault
    PROVE  faults' \in 0 .. MaxFaults
<1>1. MaxFaults \in Nat /\ faults \in 0 .. MaxFaults /\ faults < MaxFaults /\ faults' = faults + 1
  BY VersionAssumption DEF IInv, Basics, Fault
<1> QED
  BY <1>1

\* Without tables there is nothing.
LEMMA NothingWithoutTables ==
    ASSUME Basics, file # "tables"
    PROVE  disk = NoTables
<1>0. disk \in Databases
  BY OriginKnown DEF Basics, Upgraded
<1>1. ~(disk.version > 0) /\ disk.version \in Nat
  BY <1>0, VersionAssumption DEF Basics, Databases
<1>2. ASSUME Upgraded(disk) PROVE FALSE
  <2>1. disk.version >= SchemaVersion
    BY <1>2 DEF Upgraded, Created
  <2> QED
    BY <1>1, <2>1, VersionAssumption
<1>3. origin = disk
  BY <1>2 DEF Basics
<1>4. CASE \E v \in 1 .. 20, row \in ThreadRows :
              origin = Old(v, row) \/ (v = 18 /\ origin = WithSentTime(Old(v, row)))
  <2>1. PICK v \in 1 .. 20, row \in ThreadRows :
              origin = Old(v, row) \/ (v = 18 /\ origin = WithSentTime(Old(v, row)))
    BY <1>4
  <2>2. origin.version = v
    BY <2>1, OldDatabase DEF LeftBehind
  <2> QED
    BY <1>1, <1>3, <2>2
<1> QED
  BY <1>3, <1>4, OriginKnown DEF Basics

LEMMA QuietActions ==
    ASSUME IInv,
           \/ Open \/ StatementFails \/ LaterRollback \/ Kill
           \/ ReadVersion /\ pc' = "failed"
           \/ RunStatements /\ pc' = "failed"
    PROVE  IInv'
<1>0. /\ file \in {"absent", "empty", "tables"} /\ (file = "tables" <=> disk.version > 0)
      /\ create \in BOOLEAN /\ faults \in 0 .. MaxFaults
      /\ pc \in {"opened", "failed"} => conn = disk /\ ~inside /\ inside \in BOOLEAN
      /\ create /\ pc = "opened" => disk = NoTables
  BY DEF IInv, Basics, Stages
<1>1. CASE Open
  <2>1. file # "tables" => disk = NoTables
    BY NothingWithoutTables DEF IInv
  <2> QED
    BY <1>0, <1>1, <2>1, QuietStep DEF Open
<1>2. CASE StatementFails
  <2>1. faults' \in 0 .. MaxFaults
    BY <1>2, FaultCounts DEF StatementFails
  <2> QED
    BY <1>0, <1>2, <2>1, QuietStep DEF StatementFails, Rollback
<1>3. CASE LaterRollback
  BY <1>0, <1>3, QuietStep DEF LaterRollback, Rollback
<1>4. CASE Kill
  <2>1. faults' \in 0 .. MaxFaults
    BY <1>4, FaultCounts DEF Kill
  <2> QED
    BY <1>0, <1>4, <2>1, QuietStep DEF Kill
<1>5. CASE ReadVersion /\ pc' = "failed"
  <2>1. UNCHANGED <<file, disk, conn, create, version, inside, faults, origin>> /\ pc = "opened"
    BY <1>5 DEF ReadVersion
  <2> QED
    BY <1>0, <1>5, <2>1, QuietStep
<1>6. CASE RunStatements /\ pc' = "failed"
  <2>1. UNCHANGED <<file, disk, create, version, faults, origin>> /\ Rollback
    BY <1>6 DEF RunStatements
  <2> QED
    BY <1>0, <1>6, <2>1, QuietStep DEF Rollback
<1> QED
  BY <1>1, <1>2, <1>3, <1>4, <1>5, <1>6

LEMMA BasicsStep ==
    ASSUME Basics, UNCHANGED <<file, disk, origin>>, create' \in BOOLEAN, inside' \in BOOLEAN,
           version' \in 0 .. 20, faults' \in 0 .. MaxFaults,
           pc' \in {"statements", "version", "data", "commit", "up"}
    PROVE  Basics'
<1>1. disk' = disk /\ origin' = origin /\ file' = file
  OBVIOUS
<1>2. Upgraded(disk) => Upgraded(disk)'
  BY DEF Upgraded, CountIs, RoomIs, Created
<1>3. disk' = origin' \/ Upgraded(disk)'
  BY <1>1, <1>2 DEF Basics
<1> QED
  BY <1>1, <1>3, VersionAssumption DEF Basics

LEMMA VersionRead ==
    ASSUME IInv, ReadVersion, pc' # "failed"
    PROVE  IInv'
<1>0. SchemaVersion = 19
  BY VersionAssumption
<1>1. /\ Basics /\ pc = "opened" /\ conn = disk /\ origin \in Origins
      /\ disk = origin \/ Upgraded(disk)
      /\ create \in BOOLEAN /\ faults \in 0 .. MaxFaults
  BY DEF IInv, Basics, Stages, ReadVersion
<1>2. /\ UNCHANGED <<file, disk, conn, create, faults, origin>>
      /\ conn.version # 0 /\ version' = conn.version
      /\ statements' = {v \in 1 .. 19 : v > conn.version /\ upgradeNeeded(v)}
      /\ pc' = "statements" /\ inside' = TRUE
  BY <1>0 DEF ReadVersion
<1>3. disk \in Databases
  BY <1>1, OriginKnown DEF Upgraded
<1>4. disk.version > 0 /\ disk.version \in 0 .. 20
  BY <1>0, <1>1, <1>2, <1>3 DEF Databases
<1> PICK n : n = Found(disk)
  OBVIOUS
<1>5. disk.version \in 1 .. 20 /\ n \in 1 .. 19 /\ Reached(conn, n)'
  BY <1>1, <1>2, <1>4, FoundDatabase
<1>6. n = IF disk.version > 19 THEN 19 ELSE disk.version
  BY DEF Found
<1>7. statements' = {v \in n + 1 .. 19 : v = 19 => Sent \cap conn'.columns = {}}
  <2>1. \A v : v = 19 => (upgradeNeeded(v) <=> Sent \cap conn.columns = {})
    BY DEF upgradeNeeded, Sent
  <2>2. \A v \in 1 .. 18 : upgradeNeeded(v)
    BY DEF upgradeNeeded
  <2>3. \A v : v \in n + 1 .. 19 <=> v \in 1 .. 19 /\ v > disk.version
    BY <1>5, <1>6
  <2>4. conn' = conn /\ conn.version = disk.version
    BY <1>1, <1>2
  <2>5. \A v \in 1 .. 19 : v = 19 \/ v \in 1 .. 18
    OBVIOUS
  <2>6. \A v \in 1 .. 19 : upgradeNeeded(v) <=> (v = 19 => Sent \cap conn'.columns = {})
    BY <2>1, <2>2, <2>4, <2>5
  <2>7. \A v : v \in statements' <=> v \in 1 .. 19 /\ v > disk.version /\ upgradeNeeded(v)
    BY <1>2, <2>4
  <2>8. \A v : v \in statements' <=>
            v \in n + 1 .. 19 /\ (v = 19 => Sent \cap conn'.columns = {})
    BY <2>3, <2>6, <2>7, Zenon
  <2> QED
    BY <2>8, Zenon
<1>8. Basics'
  BY <1>0, <1>1, <1>2, <1>4, BasicsStep
<1>9. Stages'
  <2>1. version' <= n \/ n = 19
    BY <1>1, <1>2, <1>5, <1>6
  <2>2. version' > 0 /\ version' = disk'.version /\ disk'.version <= conn'.version
    BY <1>1, <1>2, <1>4
  <2> QED
    BY <1>0, <1>2, <1>5, <1>7, <2>1, <2>2 DEF Stages, Running
<1> QED
  BY <1>8, <1>9 DEF IInv

LEMMA TablesCreated ==
    ASSUME IInv, CreateTables
    PROVE  IInv'
<1>0. SchemaVersion = 19
  BY VersionAssumption
<1>1. /\ Basics /\ conn = disk /\ disk = NoTables
      /\ create \in BOOLEAN /\ faults \in 0 .. MaxFaults
  BY DEF IInv, Basics, Stages, CreateTables
<1>2. /\ UNCHANGED <<file, disk, create, faults, origin>>
      /\ version' = 0 /\ pc' = "version" /\ inside' = TRUE /\ conn' = CreateAll(NoTables)
  BY <1>1 DEF CreateTables
<1>3. origin = NoTables
  <2>1. ASSUME Upgraded(disk) PROVE FALSE
    <3>1. disk.version >= 19
      BY <1>0, <2>1 DEF Upgraded, Created
    <3> QED
      BY <1>1, <3>1, EmptyDatabase
  <2> QED
    BY <1>1, <2>1 DEF Basics
<1>4. /\ conn' \in Databases /\ conn'.version = 0 /\ conn'.row = NoTables.row
      /\ conn'.columns = ColumnsOf(19) /\ conn'.triggers = TriggersOf(19)
      /\ conn'.fill = NoTables.fill
  <2>1. TriggersOf(19) \in [Triggers -> 0 .. 19]
    BY SchemaTypes
  <2> QED
    BY <1>0, <1>2, <2>1, EmptyDatabase DEF CreateAll, Databases
<1>5. Unconverted(conn)'
  BY <1>0, <1>2, <1>3, <1>4, EmptyDatabase DEF Unconverted, RoomIs
<1>6. Reached(conn, 19)'
  <2>1. Sent \subseteq ColumnsOf(19)
    BY LastColumns
  <2>2. CountIs(conn, 19 >= 17)'
    BY <1>2, <1>3, <1>4, EmptyDatabase DEF CountIs
  <2> QED
    BY <1>0, <1>4, <1>5, <2>1, <2>2 DEF Reached
<1>7. Basics'
  BY <1>1, <1>2, BasicsStep
<1>8. Stages'
  <2>1. disk' = NoTables
    BY <1>1, <1>2
  <2>2. version' = disk'.version /\ disk'.version <= conn'.version
    BY <1>2, <1>4, <2>1, EmptyDatabase
  <2> QED
    BY <1>0, <1>2, <1>6, <2>2 DEF Stages, Running
<1> QED
  BY <1>7, <1>8 DEF IInv

\* What an upgrade that has run the files up to n knows of its state.
Reading(n) ==
    /\ n \in 1 .. 19
    /\ version <= n \/ n = 19
    /\ version > 0 /\ Reached(conn, n)
    /\ statements = {v \in n + 1 .. 19 : v = 19 => Sent \cap conn.columns = {}}

LEMMA FileRun ==
    ASSUME IInv, RunStatements, pc' # "failed"
    PROVE  IInv'
<1>0. SchemaVersion = 19
  BY VersionAssumption
<1>1. /\ Basics /\ pc = "statements" /\ version = disk.version /\ disk.version <= conn.version
      /\ version \in 0 .. 20 /\ create \in BOOLEAN /\ faults \in 0 .. MaxFaults
      /\ inside /\ inside \in BOOLEAN
  BY <1>0 DEF IInv, Basics, Stages, RunStatements, Running
<1>2. PICK n \in 1 .. 19 : Reading(n)
  BY <1>0, <1>1 DEF IInv, Stages, Reading
<1>3. PICK v \in statements : /\ \A w \in statements : v <= w
                              /\ conn' = Apply(conn, v) /\ statements' = statements \ {v}
  BY DEF RunStatements, RunFile
<1>4. /\ UNCHANGED <<file, disk, create, version, faults, origin, pc, inside>>
  BY DEF RunStatements, RunFile
<1>5. \A w : w \in statements <=> w \in n + 1 .. 19 /\ (w = 19 => Sent \cap conn.columns = {})
  BY <1>2 DEF Reading
<1>6. v = n + 1 /\ n \in 1 .. 18
  <2>1. v \in n + 1 .. 19
    BY <1>3, <1>5
  <2>2. n \in 1 .. 18
    BY <2>1
  <2>3. CASE n + 1 = 19
    BY <2>1, <2>3
  <2>4. CASE n + 1 # 19
    <3>1. n + 1 \in statements
      BY <1>5, <2>2, <2>4
    <3>2. v <= n + 1
      BY <1>3, <3>1
    <3> QED
      BY <2>1, <2>2, <3>2
  <2> QED
    BY <2>2, <2>3, <2>4
<1>7. /\ Reached(conn', n + 1)
      /\ conn'.version = conn.version /\ conn'.columns = conn.columns \cup Adds[n + 1]
  <2>1. origin.version \in Nat
    BY <1>0, <1>1, OriginKnown DEF Basics, Databases
  <2>2. version <= n /\ Reached(conn, n)
    BY <1>2, <1>6 DEF Reading
  <2>3. n = 18 => Sent \cap conn.columns = {}
    BY <1>3, <1>5, <1>6
  <2> QED
    BY <1>1, <1>3, <1>6, <2>1, <2>2, <2>3, FileReaches
<1>8. Reached(conn, n + 1)'
  BY <1>4, <1>7 DEF Reached, Unconverted, CountIs, RoomIs
<1>9. statements' = {w \in (n + 1) + 1 .. 19 : w = 19 => Sent \cap conn'.columns = {}}
  <2>1. \A w : w \in (n + 1) + 1 .. 19 <=> w \in n + 1 .. 19 /\ w # n + 1
    BY <1>6
  <2>2. n + 1 # 19 => (Sent \cap conn'.columns = {} <=> Sent \cap conn.columns = {})
    BY <1>6, <1>7, SentTimeIsLast DEF Sent
  <2>3. n + 1 = 19 => \A w : ~(w \in (n + 1) + 1 .. 19)
    OBVIOUS
  <2>4. \A w : w \in statements' <=> w \in statements /\ w # n + 1
    BY <1>3, <1>6
  <2>5. \A w : w \in n + 1 .. 19 /\ w # n + 1 /\ w = 19 => n + 1 # 19
    OBVIOUS
  <2>6. \A w : w \in statements' <=>
            w \in (n + 1) + 1 .. 19 /\ (w = 19 => Sent \cap conn'.columns = {})
    BY <1>5, <2>1, <2>2, <2>4, <2>5, Zenon
  <2> QED
    BY <2>6, Zenon
<1>10. Basics'
  BY <1>1, <1>4, BasicsStep
<1>11. Stages'
  <2>1. version' <= n + 1 /\ n + 1 \in 1 .. 19 /\ version' > 0
    BY <1>1, <1>2, <1>4, <1>6 DEF Reading
  <2>2. version' = disk'.version /\ disk'.version <= conn'.version
    BY <1>1, <1>4, <1>7
  <2>3. pc' = "statements" /\ inside'
    BY <1>1, <1>4
  <2> QED
    BY <1>0, <1>8, <1>9, <2>1, <2>2, <2>3 DEF Stages, Running
<1> QED
  BY <1>10, <1>11 DEF IInv

LEMMA FilesDone ==
    ASSUME IInv, StatementsDone
    PROVE  IInv'
<1>0. SchemaVersion = 19
  BY VersionAssumption
<1>1. /\ Basics /\ pc = "statements" /\ version = disk.version /\ disk.version <= conn.version
      /\ version \in 0 .. 20 /\ create \in BOOLEAN /\ faults \in 0 .. MaxFaults
      /\ inside /\ inside \in BOOLEAN
  BY <1>0 DEF IInv, Basics, Stages, StatementsDone, Running
<1>2. PICK n \in 1 .. 19 : Reading(n)
  BY <1>0, <1>1 DEF IInv, Stages, Reading
<1>3. /\ UNCHANGED <<file, disk, conn, create, version, inside, faults, origin>>
      /\ pc' = "version" /\ statements = {}
  BY DEF StatementsDone
<1>4. n = 19 \/ (n = 18 /\ Sent \subseteq conn.columns)
  <2>1. \A w : w \in n + 1 .. 19 => w = 19 /\ ~(Sent \cap conn.columns = {})
    BY <1>2, <1>3 DEF Reading
  <2>2. n < 19 => n + 1 \in n + 1 .. 19
    BY <1>2
  <2>3. n < 19 => n + 1 = 19 /\ ~(Sent \cap conn.columns = {})
    BY <2>1, <2>2
  <2>4. ~(Sent \cap conn.columns = {}) => Sent \subseteq conn.columns
    BY DEF Sent
  <2>5. n = 19 \/ n < 19
    BY <1>2
  <2>6. n + 1 = 19 => n = 18
    BY <1>2
  <2> QED
    BY <2>3, <2>4, <2>5, <2>6
<1>5. Reached(conn, 19)
  <2>1. CASE n = 19
    BY <1>2, <2>1 DEF Reading
  <2>2. CASE n = 18 /\ Sent \subseteq conn.columns
    <3>1. ColumnsOf(19) \ Sent = ColumnsOf(18) \ Sent
      BY LastColumns
    <3>2. TriggersOf(19) = TriggersOf(18)
      <4>1. TriggersOf(18 + 1) = [t \in Triggers |-> IF t \in Replaces[18 + 1] THEN 18 + 1
                                                    ELSE TriggersOf(18)[t]]
        BY TriggersStep
      <4>2. TriggersOf(18) \in [Triggers -> 0 .. 19]
        BY SchemaTypes
      <4> QED
        BY <4>1, <4>2, SentTimeIsLast
    <3>3. CountIs(conn, 18 >= 17) => CountIs(conn, 19 >= 17)
      BY DEF CountIs
    <3> QED
      BY <1>0, <1>2, <2>2, <3>1, <3>2, <3>3 DEF Reading, Reached
  <2> QED
    BY <1>4, <2>1, <2>2
<1>6. Reached(conn, 19)'
  BY <1>3, <1>5 DEF Reached, Unconverted, CountIs, RoomIs
<1>7. Basics'
  BY <1>1, <1>3, BasicsStep
<1>8. Stages'
  BY <1>0, <1>1, <1>3, <1>6 DEF Stages, Running
<1> QED
  BY <1>7, <1>8 DEF IInv

LEMMA VersionStored ==
    ASSUME IInv, StoreVersion
    PROVE  IInv'
<1>0. SchemaVersion = 19
  BY VersionAssumption
<1>1. /\ Basics /\ Reached(conn, 19) /\ version = disk.version /\ disk.version <= conn.version
      /\ version \in 0 .. 20 /\ create \in BOOLEAN /\ faults \in 0 .. MaxFaults
      /\ inside /\ inside \in BOOLEAN
  BY <1>0 DEF IInv, Basics, Stages, StoreVersion, Running
<1>2. /\ UNCHANGED <<file, disk, create, version, statements, inside, faults, origin>>
      /\ pc' = "data"
      /\ conn' = IF 19 > version THEN [conn EXCEPT !.version = 19] ELSE conn
  BY <1>0 DEF StoreVersion, SetVersion
<1>3. conn \in Databases /\ conn.version \in 0 .. 20
  BY <1>0, <1>1 DEF Reached, Unconverted, Databases
<1>4. /\ conn' \in Databases
      /\ conn'.columns = conn.columns /\ conn'.triggers = conn.triggers
      /\ conn'.row = conn.row /\ conn'.fill = conn.fill
      /\ conn'.version = IF 19 > version THEN 19 ELSE conn.version
  BY <1>0, <1>2, <1>3 DEF Databases
<1>5. conn'.version >= 19 /\ version <= conn'.version
  BY <1>1, <1>3, <1>4
<1>6. Reached(conn, 19)'
  BY <1>1, <1>2, <1>4 DEF Reached, Unconverted, CountIs, RoomIs
<1>7. Basics'
  BY <1>1, <1>2, BasicsStep
<1>8. Stages'
  BY <1>0, <1>1, <1>2, <1>5, <1>6 DEF Stages, Running
<1> QED
  BY <1>7, <1>8 DEF IInv

LEMMA DataConverted ==
    ASSUME IInv, ConvertData
    PROVE  IInv'
<1>0. SchemaVersion = 19
  BY VersionAssumption
<1>1. /\ Basics /\ Reached(conn, 19) /\ version = disk.version /\ disk.version <= conn.version
      /\ conn.version >= 19
      /\ version \in 0 .. 20 /\ create \in BOOLEAN /\ faults \in 0 .. MaxFaults
      /\ inside /\ inside \in BOOLEAN
  BY <1>0 DEF IInv, Basics, Stages, ConvertData, Running
<1>2. PICK groups \in BOOLEAN : conn' = Convert(conn, groups)
  BY DEF ConvertData
<1>3. /\ UNCHANGED <<file, disk, create, version, statements, inside, faults, origin>>
      /\ pc' = "commit"
  BY DEF ConvertData
<1>4. Upgraded(conn') /\ conn'.version = conn.version
  <2>1. origin.version \in 0 .. 20
    BY <1>0, <1>1, OriginKnown DEF Basics, Databases
  <2>2. conn.version \in 0 .. 20
    BY <1>0, <1>1 DEF Reached, Unconverted, Databases
  <2>3. conn.version >= version
    BY <1>1, <2>2
  <2> QED
    BY <1>1, <1>2, <2>1, <2>3, DataConverts
<1>5. Upgraded(conn)'
  BY <1>3, <1>4 DEF Upgraded, CountIs, RoomIs, Created
<1>6. Basics'
  BY <1>1, <1>3, BasicsStep
<1>7. Stages'
  BY <1>1, <1>3, <1>4, <1>5 DEF Stages, Running
<1> QED
  BY <1>6, <1>7 DEF IInv

\* What is committed is complete.
LEMMA Committed ==
    ASSUME IInv, Commit \/ LaterCommit
    PROVE  IInv' /\ disk.version <= disk'.version
<1>0. SchemaVersion = 19
  BY VersionAssumption
<1>1. /\ Upgraded(conn) /\ disk.version <= conn.version /\ origin \in Origins
      /\ version \in 0 .. SchemaVersion + 1 /\ faults \in 0 .. MaxFaults /\ create \in BOOLEAN
  BY DEF IInv, Basics, Stages, Commit, LaterCommit
<1>2. /\ disk' = conn /\ file' = "tables" /\ inside' = FALSE /\ pc' = "up"
      /\ UNCHANGED <<conn, create, version, statements, faults, origin>>
  BY DEF Commit, LaterCommit
<1>3. Upgraded(conn) => Upgraded(disk)'
  BY <1>2 DEF Upgraded, CountIs, RoomIs, Created
<1>4. disk'.version > 0
  <2>1. conn.version \in 0 .. 20 /\ conn.version >= 19
    BY <1>0, <1>1 DEF Upgraded, Databases, Created
  <2> QED
    BY <1>2, <2>1
<1>5. Basics'
  <2>1. file' = "tables" <=> disk'.version > 0
    BY <1>2, <1>4
  <2>2. Upgraded(disk)' /\ origin' \in Origins /\ version' \in 0 .. SchemaVersion + 1
        /\ faults' \in 0 .. MaxFaults /\ create' \in BOOLEAN /\ inside' \in BOOLEAN
        /\ file' \in {"absent", "empty", "tables"}
        /\ pc' \in {"down", "opened", "statements", "version", "data", "commit", "up", "failed"}
    BY <1>1, <1>2, <1>3
  <2> QED
    BY <2>1, <2>2, Zenon DEF Basics
<1>6. Stages'
  BY <1>2 DEF Stages, Running
<1> QED
  BY <1>1, <1>2, <1>5, <1>6 DEF IInv

LEMMA CommitFailed ==
    ASSUME IInv, CommitFails
    PROVE  IInv'
<1>0. SchemaVersion = 19
  BY VersionAssumption
<1>1. /\ Basics /\ Upgraded(conn) /\ disk.version <= conn.version
      /\ inside
      /\ create \in BOOLEAN /\ inside \in BOOLEAN /\ version \in 0 .. 20
  BY <1>0 DEF IInv, Basics, Stages, CommitFails, Running
<1>2. UNCHANGED <<file, disk, conn, create, version, statements, inside, origin>> /\ pc' = "up"
  BY DEF CommitFails
<1>3. faults' \in 0 .. MaxFaults
  BY FaultCounts DEF CommitFails
<1>4. Upgraded(conn) => Upgraded(conn)'
  BY <1>2 DEF Upgraded, CountIs, RoomIs, Created
<1>5. Basics'
  BY <1>1, <1>2, <1>3, BasicsStep
<1>6. Stages'
  BY <1>1, <1>2, <1>4 DEF Stages, Running
<1> QED
  BY <1>5, <1>6 DEF IInv

LEMMA NextInvariant == IInv /\ [Next]_vars => IInv'
<1> SUFFICES ASSUME IInv, [Next]_vars PROVE IInv'
  OBVIOUS
<1>1. CASE Open \/ StatementFails \/ LaterRollback \/ Kill
  BY <1>1, QuietActions
<1>2. CASE ReadVersion
  BY <1>2, QuietActions, VersionRead
<1>3. CASE CreateTables
  BY <1>3, TablesCreated
<1>4. CASE RunStatements
  BY <1>4, QuietActions, FileRun
<1>5. CASE StatementsDone
  BY <1>5, FilesDone
<1>6. CASE StoreVersion
  BY <1>6, VersionStored
<1>7. CASE ConvertData
  BY <1>7, DataConverted
<1>8. CASE Commit \/ LaterCommit
  BY <1>8, Committed
<1>9. CASE CommitFails
  BY <1>9, CommitFailed
<1>10. CASE UNCHANGED vars
  <2>1. /\ file' = file /\ disk' = disk /\ conn' = conn /\ pc' = pc /\ create' = create
        /\ version' = version /\ statements' = statements /\ inside' = inside
        /\ faults' = faults /\ origin' = origin
    BY <1>10 DEF vars
  <2>2. Basics'
    BY <2>1 DEF IInv, Basics, Upgraded, CountIs, RoomIs, Created
  <2>3. Stages'
    BY <2>1 DEF IInv, Stages, Running, Reached, Unconverted, Upgraded, CountIs, RoomIs, Created
  <2> QED
    BY <2>2, <2>3 DEF IInv
<1> QED
  BY <1>1, <1>2, <1>3, <1>4, <1>5, <1>6, <1>7, <1>8, <1>9, <1>10 DEF Next, Steps

LEMMA DiskType == IInv => disk \in Databases
  BY OriginKnown DEF IInv, Basics, Upgraded

LEMMA Invariance == Spec => []IInv
  BY InitInvariant, NextInvariant, PTL DEF Spec

-----------------------------------------------------------------------------
(* The theorems                                                            *)

\* For a database of any release with any contents, however many statements and
\* commits fail and however often the daemon is killed: the file holds what the
\* older release left, or the tables and triggers of this release.
THEOREM UpgradesAreAtomic == Spec => []UpgradeIsAtomic
<1>1. IInv => UpgradeIsAtomic
  BY DEF IInv, Basics, Upgraded, UpgradeIsAtomic
<1> QED
  BY <1>1, Invariance, PTL

\* The version in the file never decreases, so no older upgrade runs again.
THEOREM VersionsNeverDecrease == Spec => VersionNeverDecreases
<1>1. IInv /\ [Next]_vars => [disk'.version >= disk.version]_vars
  <2> SUFFICES ASSUME IInv, Next PROVE disk'.version >= disk.version
    BY DEF vars
  <2>1. IInv'
    BY NextInvariant
  <2>2. disk.version \in Nat /\ disk'.version \in Nat
    <3>1. disk \in Databases
      BY DiskType
    <3>2. (disk \in Databases)'
      <4>1. IInv' => (disk \in Databases)'
        BY DiskType, PTL
      <4> QED
        BY <2>1, <4>1
    <3> QED
      BY <3>1, <3>2, VersionAssumption DEF Databases
  <2>3. CASE Commit \/ LaterCommit
    BY <2>2, <2>3, Committed
  <2>4. CASE ~(Commit \/ LaterCommit)
    <3>1. disk' = disk
      BY <2>4 DEF Next, Steps, Open, ReadVersion, CreateTables, RunStatements, RunFile,
                  StatementsDone, StoreVersion, ConvertData, StatementFails, CommitFails,
                  LaterRollback, Kill
    <3> QED
      BY <2>2, <3>1
  <2> QED
    BY <2>3, <2>4
<1> QED
  BY <1>1, Invariance, PTL DEF Spec, VersionNeverDecreases

\* What createOrUpdateDatabase does to the rows, however often it is tried: times
\* are taken to UTC once, counts are as the triggers count, a text thread is a room
\* if and only if there is a row of chat_room_info for it, and there are never more
\* of these rows than threads with its ids.
THEOREM ContentsAreAlwaysConverted == Spec => []ContentsAreConverted
<1>1. IInv => ContentsAreConverted
  <2> SUFFICES ASSUME IInv PROVE ContentsAreConverted
    OBVIOUS
  <2>0. SchemaVersion = 19
    BY VersionAssumption
  <2>1. disk \in Databases /\ (disk = origin \/ Upgraded(disk)) /\ origin \in Origins
    BY OriginKnown DEF IInv, Basics, Upgraded
  <2>2. conn \in Databases
    BY <2>1 DEF IInv, Basics, Stages, Reached, Unconverted, Upgraded
  <2>3. TypeOK
    <3>1. \A db \in Databases :
             /\ db.version \in 0 .. SchemaVersion + 1
             /\ db.columns \subseteq ColumnsOf(SchemaVersion)
             /\ db.triggers \in [Triggers -> 0 .. SchemaVersion]
             /\ db.row \in ThreadRows /\ db.fill \in Filled
      BY DEF Databases
    <3>2. \A db \in {disk, conn} : db \in Databases
      BY <2>1, <2>2
    <3> HIDE DEF IInv
    <3>3. /\ file \in {"absent", "empty", "tables"}
          /\ pc \in {"down", "opened", "statements", "version", "data", "commit", "up", "failed"}
          /\ version \in 0 .. SchemaVersion + 1 /\ faults \in 0 .. MaxFaults
          /\ create \in BOOLEAN /\ inside \in BOOLEAN
          /\ file = "tables" <=> disk.version > 0
      BY DEF IInv, Basics
    <3> QED
      BY <3>1, <3>2, <3>3, Zenon DEF TypeOK
  <2>4. CASE Upgraded(disk)
    <3>1. TimesConvertedOnce
      BY <2>4 DEF Upgraded, TimesConvertedOnce
    <3>2. CountsFollowTriggers
      BY <2>4 DEF Upgraded, CountIs, CountsFollowTriggers
    <3>3. RoomsHaveInfo
      BY <2>4 DEF Upgraded, RoomIs, RoomsHaveInfo, SameIds
    <3> QED
      BY <2>3, <3>1, <3>2, <3>3 DEF ContentsAreConverted
  <2>5. CASE disk = origin
    <3>1. CASE disk = NoTables
      BY <2>0, <2>3, <2>5, <3>1, EmptyDatabase
         DEF ContentsAreConverted, TimesConvertedOnce, CountsFollowTriggers, RoomsHaveInfo, SameIds
    <3>2. CASE disk # NoTables
      <4>1. PICK v \in 1 .. 20, row \in ThreadRows :
                disk = Old(v, row) \/ (v = 18 /\ disk = WithSentTime(Old(v, row)))
        BY <2>1, <2>5, <3>2, OriginKnown
      <4>2. /\ disk.version = v /\ disk.row = row
            /\ disk.fill.conversions = IF v < 10 THEN 0 ELSE 1
            /\ disk.fill.roomInfo = 0 /\ disk.fill.chatType # "Room"
            /\ v >= 9 => disk.fill.count = row.messages
        <5>1. LeftBehind(disk, v, row, IF v > 19 THEN 19 ELSE v)
          BY <4>1, OldDatabase
        <5> QED
          BY <5>1 DEF LeftBehind
      <4>3. TimesConvertedOnce
        BY <2>0, <4>2 DEF TimesConvertedOnce
      <4>4. CountsFollowTriggers
        BY <2>0, <4>2 DEF CountsFollowTriggers
      <4>5. RoomsHaveInfo
        BY <2>0, <4>2 DEF RoomsHaveInfo, SameIds
      <4> QED
        BY <2>3, <4>3, <4>4, <4>5 DEF ContentsAreConverted
    <3> QED
      BY <3>1, <3>2
  <2> QED
    BY <2>1, <2>4, <2>5
<1> QED
  BY <1>1, Invariance, PTL

=============================================================================
