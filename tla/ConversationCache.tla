------------------------- MODULE ConversationCache -------------------------
(***************************************************************************)
(* The SQLite plugin's cache of grouped conversations: the text threads of *)
(* phone accounts whose participants have the same numbers are shown as    *)
(* one conversation, under the key of the thread with the newest message.  *)
(*                                                                         *)
(* mConversationsCache maps the displayed thread's key to the copies of    *)
(* its threads, mConversationsCacheKeys every thread's key to the key of   *)
(* its conversation.  The writers of HistoryStore keep both up to date;    *)
(* a rolled back batch does not touch them, and a restart builds them from *)
(* the threads table.  A key is accountId + threadId, without the type: a  *)
(* text thread and the voice thread with the same person share it.         *)
(***************************************************************************)
EXTENDS Integers, Sequences, FiniteSets

CONSTANTS
    Threads,      \* the text threads (and their keys)
    KeyOrder,     \* the keys in the order of QMap
    Grouping,     \* the threads shouldGroupThread accepts
    ChatType,     \* their chat types
    SameNumbers,  \* pairs compareNormalizedParticipants accepts
    VoiceKeys,    \* the keys a voice thread has too
    Stamps,       \* timestamps
    NoConversation, \* mConversationsCache has no such key
    NoKey           \* mConversationsCacheKeys has no such key

\* time = 0: the copy has no timestamp, which is before every other.
Copy == [thread : Threads, time : Stamps \cup {0}]

ASSUME CacheAssumption ==
    /\ KeyOrder \in Seq(Threads)
    /\ \A t \in Threads : \E i \in DOMAIN KeyOrder : KeyOrder[i] = t
    /\ Grouping \subseteq Threads
    /\ SameNumbers \subseteq Threads \X Threads
    /\ VoiceKeys \subseteq Threads
    /\ Stamps \subseteq Nat \ {0}
    /\ NoConversation \notin Seq(Copy) /\ NoKey \notin Threads

VARIABLES
    stored,        \* the threads table: the lastEventTimestamp, or 0 without a row
    conversations, \* mConversationsCache
    keys,          \* mConversationsCacheKeys
    loading,       \* threads generateContactCache has still to add
    lost,          \* threads dropped from the cache that are still stored (history)
    stale,         \* threads whose copy is not what is stored (history)
    before,        \* the conversations before a restart, while it loads, if whole (history)
    torn           \* a voice thread's removal has dropped a conversation (history)

cache == <<conversations, keys>>
vars == <<stored, conversations, keys, loading, lost, stale, before, torn>>

Stored == {t \in Threads : stored[t] # 0}

-----------------------------------------------------------------------------
(* The two maps as one value c, and what the plugin does to them.          *)

ThreadsIn(copies) == {copies[i].thread : i \in DOMAIN copies}

\* The elements of a list that are kept, in their order.
InOrder(list, kept) ==
    [n \in 1 .. Cardinality(kept) |->
        list[CHOOSE i \in kept : Cardinality({j \in kept : j <= i}) = n]]

\* The copies of the other threads.
RemoveAll(copies, t) == InOrder(copies, {i \in DOMAIN copies : copies[i].thread # t})

\* QMap::operator[] on a missing key yields (and inserts) an empty list.
At(c, k) == IF c.conversations[k] = NoConversation THEN <<>> ELSE c.conversations[k]

Forget(ks, ts) == [t \in Threads |-> IF t \in ts THEN NoKey ELSE ks[t]]

\* Mutant: the last copy added is displayed.
LastAdded(copies) == Len(copies)

\* The first of the newest copies.
Newest(copies) ==
    CHOOSE i \in DOMAIN copies :
        \A j \in DOMAIN copies : /\ copies[j].time <= copies[i].time
                                 /\ j < i => copies[j].time < copies[i].time

DisplayedThread(copies) == copies[Newest(copies)].thread

\* The conversation moves to the key of its displayed thread.
UpdateDisplayedThread(c, k) ==
    LET copies == c.conversations[k]
        shown == DisplayedThread(copies)
    IN  [conversations |-> [c.conversations EXCEPT ![k] = NoConversation, ![shown] = copies],
         keys |-> [t \in Threads |-> IF t \in ThreadsIn(copies) THEN shown ELSE c.keys[t]]]

\* Mutant: the timestamp is converted to UTC twice, which moves it.
AddAloneShifted(c, t, time) ==
    [conversations |-> [c.conversations EXCEPT ![t] = <<[thread |-> t, time |-> time + 1]>>],
     keys |-> [c.keys EXCEPT ![t] = t]]

AddAlone(c, t, time) ==
    [conversations |-> [c.conversations EXCEPT ![t] = <<[thread |-> t, time |-> time]>>],
     keys |-> [c.keys EXCEPT ![t] = t]]

\* Mutant: the copy the cache has is kept.
KeepCopy(c, t, time) == UpdateDisplayedThread(c, c.keys[t])

\* A thread the cache knows: its copy is replaced.
Replace(c, t, time) ==
    LET k == c.keys[t]
        copies == At(c, k)
    IN  UpdateDisplayedThread(
            [conversations |-> [c.conversations EXCEPT ![k] =
                                    Append(RemoveAll(copies, t), [thread |-> t, time |-> time])],
             keys |-> Forget(c.keys, ThreadsIn(copies) \cup {t})], k)

\* Mutant: the chat types are not compared.
MatchesAnyChat(t, copies) ==
    \E u \in ThreadsIn(copies) \cap Grouping : <<t, u>> \in SameNumbers

\* Does t belong to a conversation with these threads?
Matches(t, copies) ==
    \E u \in ThreadsIn(copies) \cap Grouping : ChatType[t] = ChatType[u] /\ <<t, u>> \in SameNumbers

\* The first conversation, in the order of its keys, that t belongs to.
Matching(c, t) ==
    {i \in DOMAIN KeyOrder : Matches(t, At(c, KeyOrder[i]))}

Join(c, t, time) ==
    LET first == CHOOSE i \in Matching(c, t) : \A j \in Matching(c, t) : i <= j
        k == KeyOrder[first]
    IN  UpdateDisplayedThread(
            [conversations |-> [c.conversations EXCEPT ![k] =
                                    Append(At(c, k), [thread |-> t, time |-> time])],
             keys |-> Forget(c.keys, ThreadsIn(At(c, k)))], k)

\* Mutant: a new thread joins no conversation.
AddSeparately(c, t, time) ==
    IF t \in Grouping /\ c.keys[t] # NoKey THEN Replace(c, t, time)
    ELSE AddAlone(c, t, time)

\* addThreadsToCache for one text thread
Add(c, t, time) ==
    IF t \notin Grouping THEN AddAlone(c, t, time)
    ELSE IF c.keys[t] # NoKey THEN Replace(c, t, time)
    ELSE IF Matching(c, t) # {} THEN Join(c, t, time)
    ELSE AddAlone(c, t, time)

\* The first branch of removeThreadFromCache: threads that are not grouped,
\* and voice threads.
Drop(c, k) == [conversations |-> [c.conversations EXCEPT ![k] = NoConversation],
               keys |-> [c.keys EXCEPT ![k] = NoKey]]

\* The displayed thread leaves; the others are promoted, if there are any.
RemoveDisplayed(c, t) ==
    LET rest == RemoveAll(c.conversations[t], t)
        k == rest[1].thread
        left == [conversations |-> [c.conversations EXCEPT ![t] = NoConversation],
                 keys |-> Forget(c.keys, ThreadsIn(rest) \cup {t})]
    IN  IF rest = <<>> THEN left
        ELSE UpdateDisplayedThread([left EXCEPT !.conversations[k] = rest], k)

\* Mutant: only the entry of t's own key is removed.
RemoveOwnEntry(c, t) == Drop(c, t)

\* Another thread of a conversation leaves. What is removed here is the entry
\* of t's own key (a second threadKey shadows the conversation's).
RemoveGrouped(c, t) ==
    LET holders == {i \in DOMAIN KeyOrder : t \in ThreadsIn(At(c, KeyOrder[i]))}
        first == CHOOSE i \in holders : \A j \in holders : i <= j
        copies == At(c, KeyOrder[first])
        rest == RemoveAll(copies, t)
        k == rest[1].thread
    IN  IF holders = {} THEN c
        ELSE IF Len(copies) = 1 THEN Drop(c, t)
        ELSE UpdateDisplayedThread([Drop(c, t) EXCEPT !.conversations[k] = rest], k)

\* Mutants: the key of a displayed thread that leaves is not forgotten; its
\* conversation goes with it.
RemoveKeepingKey(c, t) ==
    IF c.conversations[t] # NoConversation
    THEN [RemoveDisplayed(c, t) EXCEPT !.keys[t] = c.keys[t]]
    ELSE RemoveGrouped(c, t)

RemoveConversation(c, t) ==
    IF c.conversations[t] # NoConversation THEN Drop(c, t) ELSE RemoveGrouped(c, t)

\* removeThreadFromCache for a text thread
RemoveCached(c, t) ==
    IF t \notin Grouping THEN Drop(c, t)
    ELSE IF c.conversations[t] # NoConversation THEN RemoveDisplayed(c, t)
    ELSE RemoveGrouped(c, t)

-----------------------------------------------------------------------------
(* Actions                                                                 *)

Cache == [conversations |-> conversations, keys |-> keys]
Becomes(c) == conversations' = c.conversations /\ keys' = c.keys

\* The threads the cache holds, and how it groups them.
CachedIn(c) == UNION {ThreadsIn(At(c, k)) : k \in Threads}
Groups == {ThreadsIn(conversations[k]) : k \in {l \in Threads : conversations[l] # NoConversation}}

Ready == loading = {}

\* createThreadForProperties: the cached copy has no timestamp.
CreateThread(t, now) ==
    /\ Ready
    /\ t \notin Stored
    /\ stored' = [stored EXCEPT ![t] = now]
    /\ Becomes(Add(Cache, t, 0))
    /\ stale' = stale \cup {t}
    /\ UNCHANGED <<loading, lost, before, torn>>

\* writeTextEvent, removeTextEvent, markThreadAsRead and the room updates:
\* the thread's row changes and is copied.
UpdateThread(t, time) ==
    /\ Ready
    /\ t \in Stored
    /\ stored' = [stored EXCEPT ![t] = time]
    /\ Becomes(Add(Cache, t, time))
    /\ stale' = stale \ {t}
    /\ lost' = lost \ {t}
    /\ UNCHANGED <<loading, before, torn>>

\* A batch that removed an event of t is rolled back (bound: while the copies of
\* the other threads are current).
UpdateRolledBack(t, time) ==
    /\ Ready
    /\ stale \subseteq {t}
    /\ t \in Stored
    /\ Becomes(Add(Cache, t, time))
    /\ stale' = stale \cup {t}
    /\ lost' = lost \ {t}
    /\ UNCHANGED <<stored, loading, before, torn>>

\* removeThread
RemoveThread(t) ==
    /\ Ready
    /\ t \in Stored
    /\ stored' = [stored EXCEPT ![t] = 0]
    /\ Becomes(RemoveCached(Cache, t))
    /\ stale' = stale \ {t}
    /\ lost' = lost \ {t}
    /\ UNCHANGED <<loading, before, torn>>

\* A batch that removed t is rolled back: t comes back in the table only.
RemovalRolledBack(t) ==
    /\ Ready
    /\ t \in Stored
    /\ Becomes(RemoveCached(Cache, t))
    /\ lost' = lost \cup {t}
    /\ UNCHANGED <<stored, loading, stale, before, torn>>

\* removeThread of the voice thread with the key of t (bound: at most one until
\* the next restart tears the cache)
RemoveVoiceThread(t) ==
    /\ Ready
    /\ t \in VoiceKeys
    /\ ~torn
    /\ Becomes(Drop(Cache, t))
    /\ lost' = lost \cup (Stored \ CachedIn([conversations |-> conversations', keys |-> keys']))
    /\ torn' = (conversations[t] # NoConversation \/ keys[t] # NoKey)
    /\ UNCHANGED <<stored, loading, stale, before>>

\* The daemon is started again (whether it was killed or not).
Restart ==
    /\ Ready
    /\ conversations' = [t \in Threads |-> NoConversation]
    /\ keys' = [t \in Threads |-> NoKey]
    /\ loading' = Stored
    /\ before' = IF Stored = {} \/ torn THEN {} ELSE Groups
    /\ torn' = FALSE
    /\ UNCHANGED <<stored, lost, stale>>

\* Mutant: what does not fit on the first page is not loaded.
LoadFirstPage(t) ==
    /\ t \in loading
    /\ Becomes(Add(Cache, t, stored[t]))
    /\ loading' = {}
    /\ before' = {}
    /\ lost' = lost \cup (loading \ {t})
    /\ stale' = stale \ {t}
    /\ UNCHANGED <<stored, torn>>

\* generateContactCache adds the threads page by page, in the order of their
\* last messages' timestamps; the model adds them in any order. Nothing else
\* runs before it is done.
LoadThread(t) ==
    /\ t \in loading
    /\ Becomes(Add(Cache, t, stored[t]))
    /\ loading' = loading \ {t}
    /\ lost' = lost \ {t}
    /\ stale' = stale \ {t}
    /\ before' = IF loading = {t} THEN {} ELSE before
    /\ UNCHANGED <<stored, torn>>

Init == /\ stored = [t \in Threads |-> 0]
        /\ conversations = [t \in Threads |-> NoConversation]
        /\ keys = [t \in Threads |-> NoKey]
        /\ loading = {}
        /\ lost = {}
        /\ stale = {}
        /\ before = {}
        /\ torn = FALSE

Next ==
    \/ \E t \in Threads :
         \/ \E time \in Stamps : \/ CreateThread(t, time)
                                 \/ UpdateThread(t, time)
                                 \/ UpdateRolledBack(t, time)
         \/ RemoveThread(t)
         \/ RemovalRolledBack(t)
         \/ RemoveVoiceThread(t)
         \/ LoadThread(t)
    \/ Restart

Spec == Init /\ [][Next]_vars

-----------------------------------------------------------------------------
(* Properties                                                              *)

TypeOK == /\ stored \in [Threads -> Stamps \cup {0}]
          /\ conversations \in [Threads -> Seq(Copy) \cup {NoConversation}]
          /\ keys \in [Threads -> Threads \cup {NoKey}]
          /\ loading \subseteq Threads
          /\ lost \subseteq Threads
          /\ stale \subseteq Threads
          /\ before \subseteq SUBSET Threads
          /\ torn \in BOOLEAN

\* The two maps agree: a thread is in one conversation at most, once, and its
\* key names that conversation; no conversation is empty, and its key is the
\* key of one of its threads.
MapsAgree == ~torn =>
    /\ \A t \in Threads : keys[t] # NoKey =>
          conversations[keys[t]] # NoConversation /\ t \in ThreadsIn(conversations[keys[t]])
    /\ \A k \in Threads : conversations[k] # NoConversation =>
          /\ k \in ThreadsIn(conversations[k])
          /\ \A i \in DOMAIN conversations[k] : keys[conversations[k][i].thread] = k
          /\ \A i, j \in DOMAIN conversations[k] :
                i # j => conversations[k][i].thread # conversations[k][j].thread

\* A conversation is shown under the thread with the newest timestamp.
NewestIsDisplayed ==
    \A k \in Threads : conversations[k] # NoConversation =>
        \E i \in DOMAIN conversations[k] :
            /\ conversations[k][i].thread = k
            /\ \A j \in DOMAIN conversations[k] :
                   conversations[k][j].time <= conversations[k][i].time

\* Threads are in one conversation only if they can be grouped, have the same
\* chat type and match in their numbers (which must be transitive), and they
\* are then in one, unless a voice thread's removal has torn a conversation.
SameConversation(t, u) ==
    t = u \/ ({t, u} \subseteq Grouping /\ ChatType[t] = ChatType[u] /\ <<t, u>> \in SameNumbers)
ConversationsAreComplete ==
    \A t, u \in CachedIn(Cache) :
        /\ (\E g \in Groups : {t, u} \subseteq g) => SameConversation(t, u)
        /\ ~torn /\ SameConversation(t, u) => \E g \in Groups : {t, u} \subseteq g

\* The cache holds the threads of the table, unless it is torn: none that is
\* gone, and all that are stored but those lost with a rolled back removal.
CacheFollowsTable == ~torn =>
    /\ CachedIn(Cache) \subseteq Stored
    /\ Stored \ CachedIn(Cache) \subseteq lost \cup loading

\* The copies are what the table says, but those of threads created since
\* their last event and of rolled back batches; updating one thread leaves
\* the copies of the others alone.
CopiesAreCurrent == ~torn =>
    \A k \in Threads : conversations[k] # NoConversation =>
        \A i \in DOMAIN conversations[k] :
            LET copy == conversations[k][i]
            IN  copy.thread \notin stale => copy.time = stored[copy.thread]

\* Once a restart has loaded the threads, in whatever order, the conversations
\* are those before it, unless the cache had lost threads.
RestartKeepsConversations ==
    [][loading # {} /\ loading' = {} /\ UNION before = Stored => Groups' = before]_vars

\* When a displayed thread is removed "the next grouped thread, if any," is
\* promoted: no step but a restart, and the removal of a voice thread that tears
\* a conversation, takes more than one thread out of the cache.
RemovalPromotesOthers ==
    [][Ready /\ Ready' /\ ~torn /\ ~torn' =>
         \A t, u \in CachedIn(Cache) \ CachedIn(Cache)' : t = u]_vars

\* The two maps are well-formed, inverse to each other, and show each
\* conversation under its newest thread (updateDisplayedThread).
CacheIsWellFormed == TypeOK /\ MapsAgree /\ NewestIsDisplayed

\* The cache has the threads of the table, each as it is stored.
CacheMirrorsTable == CacheFollowsTable /\ CopiesAreCurrent
=============================================================================
