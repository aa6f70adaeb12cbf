--------------------------- MODULE ContactMatcher ---------------------------
(***************************************************************************)
(* ContactMatcher knows for each identifier that was asked for, or that is *)
(* watched, the contact of the address book with that number.  It asks the *)
(* book with requests, at most one for an identifier, and follows the book *)
(* by its signals.  HistoryModel reads it for the rows it shows, and reads *)
(* it again when it announces a change: from within the handler.           *)
(*                                                                         *)
(* The address book is external: its signals and answers come in the order *)
(* in which it sends them, each signal about one contact.                  *)
(***************************************************************************)
EXTENDS Integers, FiniteSets, Sequences

CONSTANTS
    Ids,           \* the identifiers of an account
    Normal,        \* normalizeId
    Addressable,   \* identifiers of accounts with addressable fields
    Contacts,      \* the contacts there may be
    Nobody,        \* no contact
    NotKnown,      \* mContactMap has no such identifier
    NotShown,      \* no row has such an identifier
    MaxOperations  \* bound: changes of the book, new infos and failures

\* What is known of an identifier: the contact in some version, or nobody.
Unmatched == [contact |-> Nobody, version |-> 0]
Info == [contact : Contacts, version : 1..MaxOperations + 1] \cup {Unmatched}
hasMatch(info) == info.contact # Nobody

\* An identifier is one of an account, and so is its normal form.
ASSUME ContactMatcherAssumption ==
    /\ Normal \in [Ids -> Ids]
    /\ \A id \in Ids : /\ Normal[Normal[id]] = Normal[id]
                       /\ id \in Addressable <=> Normal[id] \in Addressable
    /\ Addressable \subseteq Ids
    /\ Nobody \notin Contacts
    /\ NotKnown \notin Info /\ NotShown \notin Info \cup {NotKnown}
    /\ MaxOperations \in Nat

VARIABLES
    book,       \* what the address book has: numbers and a version of the rest
    asked,      \* requests the book has not answered
    inbox,      \* its signals and answers
    operations, \* how many operations there have been
    ready,      \* TelepathyHelper::ready
    matcher,    \* the matcher and the rows of the model:
                \*   map:      mContactMap, the contact and its version
                \*   requests: mRequests, how many there are for an identifier
                \*   started:  those of them that are sent in this step
                \*   pending:  mPendingRequests
                \*   rows:     what the model shows for an identifier
    excused,    \* entries that were never asked for, or in vain (history)
    stale       \* rows whose entry changed without an announcement (history)

vars == <<book, asked, inbox, operations, ready, matcher, excused, stale>>

\* A contact as the book returns it.
NoCopy == [contact |-> Nobody, version |-> 0, numbers |-> {}]
Copy(c) == [contact |-> c, version |-> book[c].version, numbers |-> book[c].numbers]
InBook(c) == book[c].version # 0
WithNumber(id) == {c \in Contacts : InBook(c) /\ id \in book[c].numbers}

-----------------------------------------------------------------------------
(* The matcher m and what its functions do to it. Each is for a set of     *)
(* identifiers, those the code calls it for in one loop over mContactMap:  *)
(* a call changes only the entry and the rows of its identifier, so their  *)
(* order makes no difference.                                              *)

Known(m) == {id \in Ids : m.map[id] # NotKnown}
Put(map, ids, info) == [id \in Ids |-> IF id \in ids THEN info ELSE map[id]]

\* Mutant: a request that is under way is not waited for.
RequestAgain(m, ids) ==
    LET requested == {n \in Ids : \E id \in ids \cap Addressable : Normal[id] = n}
    IN  [m EXCEPT !.map = Put(@, ids \ Addressable, Unmatched),
                  !.requests = [n \in Ids |-> IF n \in requested THEN @[n] + 1 ELSE @[n]],
                  !.started = [n \in Ids |-> IF n \in requested THEN @[n] + 1 ELSE @[n]]]

\* requestContactInfo, asynchronous
requestContactInfo(m, ids) ==
    LET requested == {n \in Ids : m.requests[n] = 0 /\ \E id \in ids \cap Addressable : Normal[id] = n}
    IN  [m EXCEPT !.map = Put(@, ids \ Addressable, Unmatched),
                  !.requests = [n \in Ids |-> IF n \in requested THEN 1 ELSE @[n]],
                  !.started = [n \in Ids |-> IF n \in requested THEN 1 ELSE @[n]]]

\* Mutant: what is asked before the accounts are known is not asked later.
ContactInfoNow(m, ids) ==
    LET new == {n \in Ids \ Known(m) : \E id \in ids : Normal[id] = n}
    IN  [(IF ready THEN requestContactInfo(m, new) ELSE m) EXCEPT !.map = Put(@, new, Unmatched)]

\* contactInfo, asynchronous: what is not known is asked for, and nobody until
\* the answer comes.
contactInfo(m, ids) ==
    LET new   == {n \in Ids \ Known(m) : \E id \in ids : Normal[id] = n}
        asking == IF ready THEN requestContactInfo(m, new) ELSE [m EXCEPT !.pending = @ \cup new]
    IN  [asking EXCEPT !.map = Put(@, new, Unmatched)]

\* HistoryModel::data of these rows
Read(m, ids) ==
    LET asking == contactInfo(m, ids)
    IN  [asking EXCEPT !.rows = [id \in Ids |-> IF id \in ids THEN asking.map[Normal[id]] ELSE @[id]]]

\* Mutant: only the rows with the very identifier are read again.
AnnounceExactly(m, ids) == Read(m, {id \in ids : m.rows[id] # NotShown})

\* contactInfoChanged: HistoryModel::onContactInfoChanged has the rows with
\* these identifiers read again at once.
contactInfoChanged(m, ids) == Read(m, {id \in Ids : m.rows[id] # NotShown /\ Normal[id] \in ids})

Fits(id, copy) == id \in Addressable \cap copy.numbers

\* matchAndUpdate
matchAndUpdate(m, ids, copy) ==
    LET fit  == {id \in ids : Fits(id, copy)}
        info == [contact |-> copy.contact, version |-> copy.version]
    IN  contactInfoChanged([m EXCEPT !.map = Put(@, fit, info)], fit)

\* Entries with a match are skipped.
ContactsAdded(m, copy) == matchAndUpdate(m, {id \in Known(m) : ~hasMatch(m.map[id])}, copy)

Matching(m, c) == {id \in Known(m) : m.map[id].contact = c}

\* The identifiers that matched the contact and do not any more.
Left(m, copy) == {id \in Matching(m, copy.contact) : ~Fits(id, copy)}

\* Mutant: what does not match any more is kept.
ChangedKeeping(m, copy) == matchAndUpdate(m, Known(m), copy)

\* All entries are matched again; those that matched and do not any more are
\* forgotten and asked for, without an announcement.
ContactsChanged(m, copy) ==
    LET left == Left(m, copy)
    IN  requestContactInfo([matchAndUpdate(m, Known(m), copy) EXCEPT !.map = Put(@, left, NotKnown)],
                           left)

\* Mutant: the entries are asked for while they are still known.
RemovedKeeping(m, c) == contactInfoChanged(contactInfo(m, Matching(m, c)), Matching(m, c))

ContactsRemoved(m, c) ==
    LET left == Matching(m, c)
    IN  contactInfoChanged(contactInfo([m EXCEPT !.map = Put(@, left, NotKnown)], left), left)

\* onDataChanged: everything is forgotten, announced and asked for.
DataChanged(m) ==
    requestContactInfo(contactInfoChanged([m EXCEPT !.map = Put(@, Ids, NotKnown)], Known(m)), Known(m))

-----------------------------------------------------------------------------
Numbers == {id \in Addressable : Normal[id] = id}
Zero == [id \in Ids |-> 0]

Init ==
    /\ book \in [Contacts -> [version : {0}, numbers : {{}}]
                                \cup [version : {1}, numbers : SUBSET Numbers]]
    /\ asked = Zero /\ inbox = <<>> /\ operations = 0 /\ ready = FALSE
    /\ matcher = [map |-> [id \in Ids |-> NotKnown], requests |-> Zero, started |-> Zero,
                  pending |-> {}, rows |-> [id \in Ids |-> NotShown]]
    /\ excused = {} /\ stale = {}

Operate == operations < MaxOperations /\ operations' = operations + 1

\* What a step leaves of the matcher: requests are sent.  An entry is excused
\* until it changes, a row until it shows its entry.
Becomes(m, excuses, silent) ==
    /\ matcher' = [m EXCEPT !.started = Zero]
    /\ asked' = [id \in Ids |-> asked[id] + m.started[id]]
    /\ excused' = excuses \cup {id \in excused : m.map[id] = matcher.map[id]}
    /\ stale' = {id \in Ids : /\ id \in stale \/ Normal[id] \in silent
                              /\ m.rows[id] \notin {NotShown, m.map[Normal[id]]}}

-----------------------------------------------------------------------------
(* The address book.                                                       *)

\* One contact changes, and the book says so; or it says that it has changed.
BookOperation(c, entry, kind) ==
    /\ Operate
    /\ book' = [book EXCEPT ![c] = entry]
    /\ \/ inbox' = Append(inbox, [kind |-> kind, contact |-> c])
       \/ inbox' = Append(inbox, [kind |-> "data"])
    /\ UNCHANGED <<asked, ready, matcher, excused, stale>>

AddContact ==
    \E c \in Contacts, numbers \in SUBSET Numbers :
        /\ ~InBook(c)
        /\ BookOperation(c, [version |-> operations + 2, numbers |-> numbers], "added")

ChangeContact ==
    \E c \in Contacts, numbers \in SUBSET Numbers :
        /\ InBook(c)
        /\ BookOperation(c, [version |-> operations + 2, numbers |-> numbers], "changed")

RemoveContact ==
    \E c \in Contacts :
        /\ InBook(c)
        /\ BookOperation(c, [version |-> 0, numbers |-> {}], "removed")

\* A request is answered with one contact with the number.
Found(id) == IF WithNumber(id) = {} THEN {NoCopy} ELSE {Copy(c) : c \in WithNumber(id)}

Answer ==
    \E id \in Ids : \E copy \in Found(id) :
        /\ asked[id] > 0
        /\ asked' = [asked EXCEPT ![id] = @ - 1]
        /\ inbox' = Append(inbox, [kind |-> "answer", id |-> id, copy |-> copy, failed |-> FALSE])
        /\ UNCHANGED <<book, operations, ready, matcher, excused, stale>>

\* A request fails, or is cancelled.
AnswerFails ==
    \E id \in Ids :
        /\ Operate
        /\ asked[id] > 0
        /\ asked' = [asked EXCEPT ![id] = @ - 1]
        /\ inbox' = Append(inbox, [kind |-> "answer", id |-> id, copy |-> NoCopy, failed |-> TRUE])
        /\ UNCHANGED <<book, ready, matcher, excused, stale>>

-----------------------------------------------------------------------------
(* The matcher.                                                            *)

onSetupReady ==
    /\ ~ready
    /\ ready' = TRUE
    /\ Becomes([requestContactInfo(matcher, matcher.pending) EXCEPT !.pending = {}], {}, {})
    /\ UNCHANGED <<book, inbox, operations>>

\* A view reads a row.
ShowRow ==
    \E id \in Ids :
        /\ Becomes(Read(matcher, {id}), {}, {})
        /\ UNCHANGED <<book, inbox, operations, ready>>

\* contactInfo, synchronous; before the accounts are known nobody is asked.
SynchronousInfo ==
    \E id \in Ids \ Known(matcher) : \E copy \in Found(id) :
        /\ Normal[id] = id
        /\ IF ready /\ Fits(id, copy)
           THEN Becomes(matchAndUpdate(matcher, {id}, copy), {}, {})
           ELSE Becomes([matcher EXCEPT !.map[id] = Unmatched], IF ready THEN {} ELSE {id}, {})
        /\ UNCHANGED <<book, inbox, operations, ready>>

\* watchIdentifier: what the service had said of the identifier replaces what
\* is known of it.
watchIdentifier ==
    \E id \in Ids : \E info \in {Unmatched} \cup
                        {[contact |-> c, version |-> book[c].version] : c \in WithNumber(id)} :
        /\ Operate
        /\ Becomes([matcher EXCEPT !.map[id] = info], {id}, {id})
        /\ UNCHANGED <<book, inbox, ready>>

Receive(kind) ==
    /\ inbox # <<>> /\ Head(inbox).kind = kind
    /\ inbox' = Tail(inbox)
    /\ UNCHANGED <<book, operations, ready>>

\* The contact is read from the book as it is now.
onContactsAdded ==
    /\ Receive("added")
    /\ LET c == Head(inbox).contact
       IN  Becomes(IF InBook(c) THEN ContactsAdded(matcher, Copy(c)) ELSE matcher, {}, {})

onContactsChanged ==
    /\ Receive("changed")
    /\ LET c == Head(inbox).contact
       IN  IF InBook(c) THEN Becomes(ContactsChanged(matcher, Copy(c)), {}, Left(matcher, Copy(c)))
           ELSE Becomes(matcher, {}, {})

onContactsRemoved ==
    /\ Receive("removed")
    /\ Becomes(ContactsRemoved(matcher, Head(inbox).contact), {}, {})

onDataChanged == Receive("data") /\ Becomes(DataChanged(matcher), {}, {})

onRequestStateChanged ==
    /\ Receive("answer")
    /\ LET id == Head(inbox).id
       IN  Becomes(matchAndUpdate([matcher EXCEPT !.requests[id] = @ - 1], {id}, Head(inbox).copy),
                   IF Head(inbox).failed THEN {id} ELSE {}, {})

Book == AddContact \/ ChangeContact \/ RemoveContact \/ Answer \/ AnswerFails
Reader == onSetupReady \/ ShowRow \/ SynchronousInfo \/ watchIdentifier
Handlers ==
    \/ onContactsAdded \/ onContactsChanged \/ onContactsRemoved
    \/ onDataChanged \/ onRequestStateChanged

Next == Book \/ Reader \/ Handlers

Spec == Init /\ [][Next]_vars

-----------------------------------------------------------------------------
Matchers == [map : [Ids -> Info \cup {NotKnown}], requests : [Ids -> {0, 1}],
             started : [Ids -> {0, 1}], pending : SUBSET {id \in Ids : Normal[id] = id},
             rows : [Ids -> Info \cup {NotShown}]]

\* The answers about an identifier that have arrived.
Answers(id) == {i \in DOMAIN inbox : inbox[i].kind = "answer" /\ inbox[i].id = id}

\* The matcher's maps stay within the identifiers that were asked for, and
\* there is never more than one request for an identifier (requestContactInfo).
TypeOK ==
    /\ matcher \in Matchers
    /\ \A id \in Ids : matcher.requests[id] = asked[id] + Cardinality(Answers(id))
    /\ excused \subseteq Ids /\ stale \subseteq Ids

\* Everything the book has said is handled, and every question answered.
Quiet == ready /\ inbox = <<>> /\ asked = Zero

\* The right thing to say about an identifier.
RightAbout(id, info) ==
    IF WithNumber(Normal[id]) = {} THEN info = Unmatched
    ELSE \E c \in WithNumber(Normal[id]) : info = [contact |-> c, version |-> book[c].version]

\* When the book is quiet the matcher is right about every identifier it knows,
\* whatever happened to the book while requests were under way
\* (onContactsAdded, onContactsChanged, onContactsRemoved, onDataChanged).
EntriesMatchBook ==
    Quiet => \A id \in Ids \ excused :
                 matcher.map[id] # NotKnown => RightAbout(id, matcher.map[id])

\* And so are the rows: every change of an entry reaches the rows of all the
\* identifiers it is normalized from (contactInfoChanged, onContactInfoChanged).
ShownMatchesBook ==
    Quiet => \A id \in Ids : /\ Normal[id] \notin excused /\ id \notin stale
                             /\ matcher.rows[id] # NotShown
                             => RightAbout(id, matcher.rows[id])

\* The matcher is well-formed, asks once at a time, and is right when the book
\* is quiet.
MatcherFollowsBook == TypeOK /\ EntriesMatchBook
=============================================================================
