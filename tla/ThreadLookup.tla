---------------------------- MODULE ThreadLookup ----------------------------
(***************************************************************************)
(* Which thread a conversation belongs to.                                 *)
(*                                                                         *)
(* Whoever has something to store names the conversation by its account,   *)
(* its chat type and its participants (or the room's identifier), and the  *)
(* daemon looks for a thread with these participants or creates one.       *)
(* Phone numbers are the same when libphonenumber says so, a relation that *)
(* need not be transitive: a short number matches several long ones that   *)
(* do not match each other.                                                *)
(*                                                                         *)
(* Neither table has a key: nothing but the lookup keeps the threads       *)
(* apart.                                                                  *)
(***************************************************************************)
EXTENDS Naturals, FiniteSets, SequencesExt

CONSTANTS
    Accounts,        \* account ids
    Protocol,        \* [Accounts -> protocol name]
    Ids,             \* participants as connections and clients write them
    RoomIds,         \* identifiers of rooms
    Normal,          \* [Ids -> Numbers]: normalizePhoneNumber (libphonenumber)
    LongNumbers,     \* normalised numbers of at least 7 characters
    SimilarNumbers,  \* IsNumberMatch: sets of two different numbers
    Lists,           \* the lists of participants that occur
    NoThread,
    MaxThreads       \* bound: threads at a time

Types == {"Text", "Voice"}
ChatTypes == {"None", "Contact", "Room"}

\* threadId: the participants joined with "%", a hash of them, or the room's own
ThreadIds == [chat : {"None", "Contact"}, of : Lists] \cup [chat : {"Room"}, of : RoomIds]

Conversations ==
    [account : Accounts, type : Types, chat : {"None"}, of : Lists]
        \cup [account : Accounts, type : Types, chat : {"Contact"}, of : {l \in Lists : Len(l) = 1}]
        \cup [account : Accounts, type : {"Text"}, chat : {"Room"}, of : RoomIds]

ASSUME LookupAssumption ==
    /\ Protocol \in [Accounts -> STRING]
    /\ DOMAIN Normal = Ids
    /\ \A pair \in SimilarNumbers : pair \subseteq Range(Normal) /\ Cardinality(pair) = 2
    /\ \A list \in Lists : list \in Seq(Ids)
    /\ NoThread \notin [account : Accounts, type : Types, id : ThreadIds]
    /\ MaxThreads \in Nat

VARIABLES
    tables       \* .threads and .people (thread_participants), in the order of their rows

ThreadRows == [account : Accounts, type : Types, id : ThreadIds, chat : ChatTypes]
PersonRows == [account : Accounts, type : Types, id : ThreadIds,
               who : Ids, normal : Range(Normal) \cup Ids]

Key(row) == [account |-> row.account, type |-> row.type, id |-> row.id]
Keys == [account : Accounts, type : Types, id : ThreadIds]

-----------------------------------------------------------------------------
(* Comparing participants                                                  *)

\* Utils::matchFlagsForAccount, for the library and the plugin
MatchesNumbers(account) == Protocol[account] \in {"ofono", "multimedia", "sip"}

\* HistoryDaemon::matchFlagsForChannel, for what comes from channels
ChannelMatchesNumbers(account) == Protocol[account] \in {"ofono", "multimedia"}

\* mistake for the checks: the id is stored as it is written
NormalizeNothing(account, id) == id

normalizeId(account, id) == IF MatchesNumbers(account) THEN Normal[id] ELSE id

compareNormalizedPhoneNumbers(a, b) ==
    \/ a = b
    \/ {a, b} \subseteq LongNumbers /\ {a, b} \in SimilarNumbers

\* The first of some places in a list, or in a table.
First(places) == CHOOSE i \in places : \A j \in places : i <= j

(* Where in `second` the n-th of `first` finds one that is the same and    *)
(* that none before it has taken: the first such, or 0 if there is none.   *)
PartnerOf(first, second, partner, n) ==
    LET free == {j \in DOMAIN second : /\ compareNormalizedPhoneNumbers(second[j], first[n])
                                       /\ \A m \in 1 .. n - 1 : partner[m] # j}
    IN  IF free = {} THEN 0 ELSE First(free)

Partners(first, second) ==
    LET partner[n \in DOMAIN first] == PartnerOf(first, second, partner, n) IN partner

\* mistake: the lists have to name everyone in the same order
CompareInOrder(first, second, numbers) ==
    /\ Len(first) = Len(second)
    /\ \A i \in DOMAIN first :
          IF numbers THEN compareNormalizedPhoneNumbers(first[i], second[i]) ELSE first[i] = second[i]

compareNormalizedParticipants(first, second, numbers) ==
    /\ Len(first) = Len(second)
    /\ IF numbers THEN \A n \in DOMAIN first : Partners(first, second)[n] # 0
                  ELSE Range(first) \subseteq Range(second)

-----------------------------------------------------------------------------
(* The lookup in the plugin                                                *)

\* The rows at these places, in their order.
NthOf(places, n) == CHOOSE i \in places : Cardinality({j \in places : j <= i}) = n
Selected(rows, places) == [n \in 1 .. Cardinality(places) |-> rows[NthOf(places, n)]]

Rows(db, key) == Selected(db.people, {i \in DOMAIN db.people : Key(db.people[i]) = key})

(* SELECT chatType FROM threads WHERE threadId and type are the row's: the *)
(* account is not looked at.                                               *)
ChatTypeOf(db, row) ==
    LET found == {i \in DOMAIN db.threads : db.threads[i].id = row.id /\ db.threads[i].type = row.type}
    IN  IF found = {} THEN "NULL" ELSE db.threads[First(found)].chat

ListsFirst(row, account, type, participant, numbers) ==
    /\ row.account = account /\ row.type = type
    /\ IF numbers THEN compareNormalizedPhoneNumbers(row.normal, Normal[participant])
                  ELSE row.who = participant

\* mistake for the checks of the properties: rooms as well
CandidatesWithRooms(db, account, type, participant, numbers) ==
    {i \in DOMAIN db.people : ListsFirst(db.people[i], account, type, participant, numbers)}

\* The rows of threads that list the first participant and are no rooms.
Candidates(db, account, type, participant, numbers) ==
    {i \in DOMAIN db.people :
        /\ ListsFirst(db.people[i], account, type, participant, numbers)
        /\ ChatTypeOf(db, db.people[i]) \notin {"NULL", "Room"}}

Asked(list, numbers) == [i \in DOMAIN list |-> IF numbers THEN Normal[list[i]] ELSE list[i]]
Listed(db, key, numbers) ==
    LET rows == Rows(db, key) IN [i \in DOMAIN rows |-> IF numbers THEN rows[i].normal ELSE rows[i].who]

getSingleThread(db, key) ==
    IF \E t \in Range(db.threads) : Key(t) = key THEN key ELSE NoThread

\* mistake: the newest thread is taken
NewestMatch(db, matches) == Key(db.people[CHOOSE i \in matches : \A j \in matches : j <= i])

FirstMatch(db, matches) == Key(db.people[First(matches)])

(* The first thread, in the order of the participants' rows, that lists    *)
(* the same participants.                                                  *)
threadForParticipants(db, account, type, list, numbers) ==
    LET matches == {i \in Candidates(db, account, type, list[1], numbers) :
                       compareNormalizedParticipants(Listed(db, Key(db.people[i]), numbers),
                                                     Asked(list, numbers), numbers)}
    IN  IF list = <<>> \/ matches = {} THEN NoThread
        ELSE getSingleThread(db, FirstMatch(db, matches))

NewThreadId(c) == [chat |-> c.chat, of |-> c.of]
KeyFor(c) == [account |-> c.account, type |-> c.type, id |-> NewThreadId(c)]

threadForProperties(db, c, numbers) ==
    IF c.chat = "Room" THEN getSingleThread(db, KeyFor(c))
    ELSE threadForParticipants(db, c.account, c.type, c.of, numbers)

\* of a room the thread id is known: whether the thread exists is not looked up
threadIdForProperties(db, c, numbers) ==
    IF c.chat = "Room" THEN KeyFor(c)
    ELSE threadForParticipants(db, c.account, c.type, c.of, numbers)

-----------------------------------------------------------------------------
(* Creating and removing threads                                           *)

Participants(c, list) ==
    [i \in DOMAIN list |-> [account |-> c.account, type |-> c.type, id |-> NewThreadId(c),
                            who |-> list[i], normal |-> normalizeId(c.account, list[i])]]

\* does not look for an existing thread, and no constraint forbids a second row
createThreadForProperties(c, list) ==
    /\ Len(tables.threads) < MaxThreads
    /\ tables' = [threads |-> Append(tables.threads, [account |-> c.account, type |-> c.type,
                                                     id |-> NewThreadId(c), chat |-> c.chat]),
                  people |-> tables.people \o Participants(c, list)]

Stay == UNCHANGED tables

\* HistoryDaemon::threadForProperties with create, and the thread it returns
FindOrCreate(c, list, numbers) ==
    IF threadForProperties(tables, c, numbers) # NoThread
    THEN Stay ELSE createThreadForProperties(c, list)

FoundOrCreated(c, numbers) ==
    LET found == threadForProperties(tables, c, numbers)
    IN IF found # NoThread THEN found ELSE KeyFor(c)

Chats == {c \in Conversations : c.chat # "Room"}

\* a client's ThreadForProperties with create
ClientAsks(conversations) ==
    \E c \in conversations : FindOrCreate(c, c.of, MatchesNumbers(c.account))

(* The D-Bus method ThreadForParticipants sends the participants under a   *)
(* name that the plugin does not read.                                     *)
ThreadForParticipants ==
    \E account \in Accounts, type \in Types :
        LET c == [account |-> account, type |-> type, chat |-> "None", of |-> <<>>]
        IN <<>> \in Lists /\ FindOrCreate(c, <<>>, MatchesNumbers(account))

\* onMessageSent; onTextChannelAvailable does the same for rooms
ChannelAsks ==
    \E c \in {c \in Conversations : c.type = "Text"} :
        \E list \in IF c.chat = "Room" THEN Lists ELSE {c.of} :
            FindOrCreate(c, list, ChannelMatchesNumbers(c.account))

\* onMessageReceived: HistoryDaemon::threadIdForProperties with create
MessageReceived ==
    \E c \in {c \in Conversations : c.type = "Text"} :
        IF threadIdForProperties(tables, c, ChannelMatchesNumbers(c.account)) # NoThread
        THEN Stay ELSE createThreadForProperties(c, c.of)

\* What a DELETE of the key's rows leaves: the others, in their order.
Without(rows, key) == Selected(rows, {i \in DOMAIN rows : Key(rows[i]) # key})

\* mistake: no trigger on the table
RemoveThreadOnly ==
    \E key \in {Key(t) : t \in Range(tables.threads)} :
        tables' = [tables EXCEPT !.threads = Without(@, key)]

\* removeThread, with the trigger on the table: every row of the key goes
RemoveThread ==
    \E key \in {Key(t) : t \in Range(tables.threads)} :
        tables' = [threads |-> Without(tables.threads, key),
                   people |-> Without(tables.people, key)]

LookupInit == tables = [threads |-> <<>>, people |-> <<>>]
LookupNext == ClientAsks(Chats) \/ ThreadForParticipants \/ ChannelAsks \/ MessageReceived \/ RemoveThread

LookupSpec == LookupInit /\ [][LookupNext]_tables

-----------------------------------------------------------------------------
(* Properties                                                              *)

(* The threads are rows of the table, at most as many as the bound, and    *)
(* every participant belongs to one.                                       *)
LookupTypeOK ==
    /\ Range(tables.threads) \subseteq ThreadRows /\ Range(tables.people) \subseteq PersonRows
    /\ Len(tables.threads) <= MaxThreads
    /\ \A row \in Range(tables.people) : \E t \in Range(tables.threads) : Key(t) = Key(row)

SameId(a, b, numbers) ==
    IF numbers THEN compareNormalizedPhoneNumbers(Normal[a], Normal[b]) ELSE a = b

\* the reference: everyone in one list can be paired with someone in the other who is the same
PairedOff(first, second, numbers) ==
    /\ Len(first) = Len(second)
    /\ \E pairing \in [DOMAIN first -> DOMAIN second] :
          /\ IsInjective(pairing)
          /\ \A i \in DOMAIN first : SameId(first[i], second[pairing[i]], numbers)

Who(db, key) == LET rows == Rows(db, key) IN [i \in DOMAIN rows |-> rows[i].who]

(* The thread is one of these people.  Where numbers are not compared, a   *)
(* thread whose list names somebody twice escapes the comparison           *)
(* (utils.cpp:139).                                                        *)
IsThreadOf(db, key, list, numbers) ==
    \/ PairedOff(Who(db, key), list, numbers)
    \/ ~numbers /\ ~IsInjective(Who(db, key))

\* the flags that a caller has for a conversation: numbers are not always compared
FlagsFor(c) == {numbers \in BOOLEAN : numbers => MatchesNumbers(c.account)}

(* A lookup by participants returns a thread of the account and the type   *)
(* that is not a room and whose participants are the ones asked for, each  *)
(* once: nobody's message ends up in somebody else's conversation.         *)
AnswersMatch ==
    \A c \in Chats : \A numbers \in FlagsFor(c) :
        LET found == threadForProperties(tables, c, numbers)
        IN (found # NoThread) =>
              /\ found.account = c.account /\ found.type = c.type
              /\ \A t \in Range(tables.threads) : Key(t) = found => t.chat # "Room"
              /\ IsThreadOf(tables, found, c.of, numbers)

(* No two rows have the same key, which nothing in the schema enforces:    *)
(* every creation is preceded by a lookup that would have found the other. *)
(* A conversation without participants is never found and created again.   *)
KeysAreUnique ==
    \A i, j \in DOMAIN tables.threads :
        (i # j /\ Key(tables.threads[i]) = Key(tables.threads[j])) => tables.threads[i].id.of = <<>>

\* Among these participants, to be the same is transitive: no short number is
\* the same as two long ones.
NumbersAgree(list) ==
    \A a, b, c \in Range(list) : SameId(a, b, TRUE) /\ SameId(b, c, TRUE) => SameId(a, c, TRUE)

(* Nobody has two conversations with the same people: of two threads of an *)
(* account the participants differ, and where numbers are compared they    *)
(* differ as numbers too, unless the daemon and the library disagree on    *)
(* whether the account's protocol uses numbers.  A group with a short      *)
(* number that two of its long ones match is not always recognised when it *)
(* is named in another order (utils.cpp:129 takes the first that matches). *)
ConversationsAreUnique ==
    \A i, j \in DOMAIN tables.threads :
        LET first == tables.threads[i]
            second == tables.threads[j]
            numbers == MatchesNumbers(first.account) /\ ChannelMatchesNumbers(first.account)
        IN (/\ i # j /\ "Room" \notin {first.chat, second.chat}
            /\ first.account = second.account /\ first.type = second.type
            /\ first.id.of # <<>>)
           => /\ (MatchesNumbers(first.account) => NumbersAgree(first.id.of)) =>
                     ~PairedOff(Who(tables, Key(first)), Who(tables, Key(second)), FALSE)
              /\ numbers => Listed(tables, Key(first), TRUE) # Listed(tables, Key(second), TRUE)

(* A conversation does not move: whoever has been answered with a thread   *)
(* is answered with this thread for as long as it exists, although a new   *)
(* thread may match as well and be a better match.                         *)
ConversationsStay ==
    [][LET after == tables'
       IN \A c \in Chats, numbers \in BOOLEAN :
              LET found == threadForProperties(tables, c, numbers)
              IN (found # NoThread /\ getSingleThread(after, found) # NoThread)
                     => threadForProperties(after, c, numbers) = found]_tables

\* The tables are well-formed and hold no thread twice, by key or by participants.
NoThreadTwice == LookupTypeOK /\ KeysAreUnique /\ ConversationsAreUnique
=============================================================================
