------------------------ MODULE ContactMatcherProofs ------------------------
(***************************************************************************)
(* Proofs about the matcher and the rows of ContactMatcher, for any        *)
(* identifiers and normal forms, any contacts and any number of operations *)
(* of the address book.                                                    *)
(***************************************************************************)
EXTENDS ContactMatcher, FiniteSetTheorems, SequenceTheorems, TLAPS

-----------------------------------------------------------------------------
(* What the matcher's functions do, field by field.                        *)

\* A request that is sent in this step is one of the matcher's.
Sound(m) == m \in Matchers /\ \A n \in Ids : m.started[n] = 1 => m.requests[n] = 1

\* What all of them may do to requests: start new ones, and note some for later.
Asks(m, r) ==
    /\ Sound(r)
    /\ \A n \in Ids : r.requests[n] = m.requests[n] + (r.started[n] - m.started[n])
    /\ \A n \in Ids : m.requests[n] = 1 => r.requests[n] = 1
    /\ m.pending \subseteq r.pending

LEMMA AsksTwice ==
    ASSUME NEW m, NEW r, NEW q, Sound(m), Asks(m, r), Asks(r, q)
    PROVE  Asks(m, q)
<1>1. \A n \in Ids : /\ m.requests[n] \in {0, 1} /\ m.started[n] \in {0, 1}
                     /\ r.requests[n] \in {0, 1} /\ r.started[n] \in {0, 1}
                     /\ q.requests[n] \in {0, 1} /\ q.started[n] \in {0, 1}
  BY DEF Asks, Sound, Matchers
<1> QED
  BY <1>1 DEF Asks

LEMMA Constants ==
    /\ Unmatched \in Info /\ Unmatched # NotKnown /\ ~hasMatch(Unmatched)
    /\ \A info \in Info : info # NotKnown /\ info # NotShown /\ (~hasMatch(info) <=> info = Unmatched)
    /\ \A id \in Ids : Normal[id] \in Ids /\ Normal[Normal[id]] = Normal[id]
    /\ \A id \in Ids : id \in Addressable <=> Normal[id] \in Addressable
<1>1. ~hasMatch(Unmatched) /\ Unmatched \in Info
  BY DEF hasMatch, Unmatched, Info
<1>2. \A info \in Info : info # NotKnown /\ info # NotShown
  BY ContactMatcherAssumption
<1>3. \A info \in Info : ~hasMatch(info) => info = Unmatched
  BY ContactMatcherAssumption DEF hasMatch, Unmatched, Info
<1>4. \A id \in Ids : Normal[id] \in Ids /\ Normal[Normal[id]] = Normal[id]
  BY ContactMatcherAssumption
<1>5. \A id \in Ids : id \in Addressable <=> Normal[id] \in Addressable
  BY ContactMatcherAssumption
<1> QED
  BY <1>1, <1>2, <1>3, <1>4, <1>5

LEMMA PutTyped ==
    ASSUME NEW map \in [Ids -> Info \cup {NotKnown}], NEW ids, NEW info \in Info \cup {NotKnown}
    PROVE  /\ Put(map, ids, info) \in [Ids -> Info \cup {NotKnown}]
           /\ \A id \in Ids : Put(map, ids, info)[id] = IF id \in ids THEN info ELSE map[id]
BY DEF Put

\* Each addressable identifier gets a request if there is none for its normal
\* form; the others are not asked for.
LEMMA RequestEffect ==
    ASSUME NEW m, Sound(m), NEW ids \in SUBSET Ids
    PROVE  LET r == requestContactInfo(m, ids)
           IN  /\ Asks(m, r)
               /\ r.rows = m.rows /\ r.pending = m.pending
               /\ \A id \in ids \cap Addressable : r.requests[Normal[id]] = 1
               /\ \A id \in Ids : r.map[id] = IF id \in ids \ Addressable THEN Unmatched ELSE m.map[id]
<1> DEFINE r == requestContactInfo(m, ids)
           Requested(n) == m.requests[n] = 0 /\ \E id \in ids \cap Addressable : Normal[id] = n
           map == Put(m.map, ids \ Addressable, Unmatched)
           requests == [n \in Ids |-> IF Requested(n) THEN 1 ELSE m.requests[n]]
           started == [n \in Ids |-> IF Requested(n) THEN 1 ELSE m.started[n]]
<1>1. m \in Matchers
  BY DEF Sound
<1>2. m = [map |-> m.map, requests |-> m.requests, started |-> m.started, pending |-> m.pending,
           rows |-> m.rows]
  BY <1>1 DEF Matchers
<1>3. r = [m EXCEPT !.map = map, !.requests = requests, !.started = started]
  BY <1>1 DEF requestContactInfo, Matchers
<1>4. /\ r = [map |-> map, requests |-> requests, started |-> started, pending |-> m.pending,
              rows |-> m.rows]
  BY <1>2, <1>3, <1>1 DEF Matchers
<1>5. m.map \in [Ids -> Info \cup {NotKnown}]
  BY <1>1 DEF Matchers
<1>6. /\ map \in [Ids -> Info \cup {NotKnown}]
      /\ \A id \in Ids : map[id] = IF id \in ids \ Addressable THEN Unmatched ELSE m.map[id]
  BY <1>5, PutTyped, Constants
<1> HIDE DEF map
<1>7. \A n \in Ids : /\ m.requests[n] \in {0, 1} /\ m.started[n] \in {0, 1}
                     /\ m.started[n] = 1 => m.requests[n] = 1
  BY DEF Sound, Matchers
<1>8. requests \in [Ids -> {0, 1}] /\ started \in [Ids -> {0, 1}]
  BY <1>7
<1>9. r \in Matchers
  BY <1>4, <1>6, <1>8, <1>1 DEF Matchers
<1>10. \A n \in Ids : requests[n] = m.requests[n] + (started[n] - m.started[n])
  BY <1>7
<1>11. \A n \in Ids : /\ started[n] = 1 => requests[n] = 1
                      /\ m.requests[n] = 1 => requests[n] = 1
  BY <1>7
<1>12. \A id \in ids \cap Addressable : requests[Normal[id]] = 1
  BY <1>7, Constants
<1> HIDE DEF requests, started, r
<1>13. Asks(m, r)
  BY <1>4, <1>9, <1>10, <1>11 DEF Asks, Sound
<1> QED
  BY <1>4, <1>6, <1>12, <1>13 DEF r

\* The identifiers that contactInfo enters into the map.
New(m, ids) == {n \in Ids \ Known(m) : \E id \in ids : Normal[id] = n}

LEMMA InfoEffect ==
    ASSUME NEW m, Sound(m), NEW ids \in SUBSET Ids
    PROVE  LET r == contactInfo(m, ids)
           IN  /\ Asks(m, r)
               /\ r.rows = m.rows
               /\ \A id \in Ids : r.map[id] = IF id \in New(m, ids) THEN Unmatched ELSE m.map[id]
               /\ \A id \in ids : r.map[Normal[id]] # NotKnown
               /\ \A n \in New(m, ids) : /\ Normal[n] = n
                                         /\ \/ r.requests[n] = 1
                                            \/ ~ready /\ n \in r.pending
                                            \/ n \notin Addressable
               /\ New(m, ids) = {} => r.requests = m.requests /\ r.started = m.started /\ r.pending = m.pending
<1> DEFINE r == contactInfo(m, ids)
           new == New(m, ids)
           asking == IF ready THEN requestContactInfo(m, new) ELSE [m EXCEPT !.pending = @ \cup new]
           map == Put(asking.map, new, Unmatched)
<1>1. m \in Matchers /\ new \subseteq Ids
  BY DEF Sound, New
<1>2. \A n \in new : Normal[n] = n
  BY Constants DEF New
<1>3. /\ Asks(m, asking)
      /\ asking.rows = m.rows
      /\ \A id \in Ids : id \notin new => asking.map[id] = m.map[id]
      /\ \A n \in new : asking.requests[n] = 1 \/ (~ready /\ n \in asking.pending) \/ n \notin Addressable
  <2>1. CASE ready
    <3> DEFINE q == requestContactInfo(m, new)
    <3>1. asking = q
      BY <2>1
    <3>2. /\ Asks(m, q)
          /\ q.rows = m.rows /\ q.pending = m.pending
          /\ \A id \in new \cap Addressable : q.requests[Normal[id]] = 1
          /\ \A id \in Ids : q.map[id] = IF id \in new \ Addressable THEN Unmatched ELSE m.map[id]
      BY <1>1, RequestEffect
    <3> QED
      BY <3>1, <3>2, <1>2
  <2>2. CASE ~ready
    <3>1. asking = [m EXCEPT !.pending = m.pending \cup new]
      BY <2>2, <1>1 DEF Matchers
    <3>2. /\ asking.rows = m.rows /\ asking.map = m.map /\ asking.requests = m.requests
          /\ asking.started = m.started /\ asking.pending = m.pending \cup new
      BY <3>1, <1>1 DEF Matchers
    <3>3. m.pending \cup new \subseteq {id \in Ids : Normal[id] = id}
      BY <1>1, <1>2 DEF Matchers
    <3>4. asking \in Matchers
      BY <3>1, <3>3, <1>1 DEF Matchers
    <3>5. Asks(m, asking)
      <4>1. \A n \in Ids : m.requests[n] \in {0, 1} /\ m.started[n] \in {0, 1}
        BY <1>1 DEF Matchers
      <4> QED
        BY <4>1, <3>2, <3>4 DEF Asks, Sound
    <3> QED
      BY <3>2, <3>5, <2>2
  <2> QED
    BY <2>1, <2>2
<1>4. asking \in Matchers
  BY <1>3 DEF Asks, Sound
<1>5. r = [asking EXCEPT !.map = map]
  BY <1>4 DEF contactInfo, New, Matchers
<1>6. /\ map \in [Ids -> Info \cup {NotKnown}]
      /\ \A id \in Ids : map[id] = IF id \in new THEN Unmatched ELSE asking.map[id]
  <2>1. asking.map \in [Ids -> Info \cup {NotKnown}]
    BY <1>4 DEF Matchers
  <2> QED
    BY <2>1, PutTyped, Constants
<1> HIDE DEF map, asking
<1>7. /\ r \in Matchers /\ r.map = map /\ r.rows = asking.rows /\ r.requests = asking.requests
      /\ r.started = asking.started /\ r.pending = asking.pending
  BY <1>4, <1>5, <1>6 DEF Matchers
<1>8. Asks(m, r)
  BY <1>3, <1>7 DEF Asks, Sound
<1>9. \A id \in Ids : map[id] = IF id \in new THEN Unmatched ELSE m.map[id]
  BY <1>3, <1>6
<1>10. \A id \in ids : map[Normal[id]] # NotKnown
  <2> SUFFICES ASSUME NEW id \in ids PROVE map[Normal[id]] # NotKnown
    OBVIOUS
  <2>1. Normal[id] \in Ids
    BY Constants
  <2>2. Normal[id] \in new \/ m.map[Normal[id]] # NotKnown
    BY <2>1 DEF New, Known
  <2> QED
    BY <2>1, <2>2, <1>9, Constants
<1>11. ASSUME new = {} PROVE asking.requests = m.requests /\ asking.started = m.started /\ asking.pending = m.pending
  <2>1. CASE ready
    <3>1. asking = requestContactInfo(m, {})
      BY <2>1, <1>11 DEF asking
    <3>2. asking.requests = [n \in Ids |-> m.requests[n]] /\ asking.started = [n \in Ids |-> m.started[n]]
          /\ asking.pending = m.pending
      BY <3>1, <1>1 DEF requestContactInfo, Matchers
    <3> QED
      BY <3>2, <1>1 DEF Matchers
  <2>2. CASE ~ready
    <3>1. asking = [m EXCEPT !.pending = m.pending \cup {}]
      BY <2>2, <1>11, <1>1 DEF asking, Matchers
    <3> QED
      BY <3>1, <1>1 DEF Matchers
  <2> QED
    BY <2>1, <2>2
<1> HIDE DEF r
<1> QED
  BY <1>2, <1>3, <1>7, <1>8, <1>9, <1>10, <1>11 DEF r

LEMMA ReadEffect ==
    ASSUME NEW m, Sound(m), NEW ids \in SUBSET Ids
    PROVE  LET r == Read(m, ids)
           IN  /\ Asks(m, r)
               /\ \A id \in Ids : r.map[id] = IF id \in New(m, ids) THEN Unmatched ELSE m.map[id]
               /\ \A id \in Ids : r.rows[id] = IF id \in ids THEN r.map[Normal[id]] ELSE m.rows[id]
               /\ \A n \in New(m, ids) : /\ Normal[n] = n
                                         /\ \/ r.requests[n] = 1
                                            \/ ~ready /\ n \in r.pending
                                            \/ n \notin Addressable
               /\ New(m, ids) = {} => r.requests = m.requests /\ r.started = m.started /\ r.pending = m.pending
<1> DEFINE r == Read(m, ids)
           q == contactInfo(m, ids)
           rows == [id \in Ids |-> IF id \in ids THEN q.map[Normal[id]] ELSE q.rows[id]]
<1>1. /\ Asks(m, q)
      /\ q.rows = m.rows
      /\ \A id \in Ids : q.map[id] = IF id \in New(m, ids) THEN Unmatched ELSE m.map[id]
      /\ \A id \in ids : q.map[Normal[id]] # NotKnown
      /\ \A n \in New(m, ids) : /\ Normal[n] = n
                                /\ \/ q.requests[n] = 1
                                   \/ ~ready /\ n \in q.pending
                                   \/ n \notin Addressable
      /\ New(m, ids) = {} => q.requests = m.requests /\ q.started = m.started /\ q.pending = m.pending
  BY InfoEffect
<1>2. q \in Matchers
  BY <1>1 DEF Asks, Sound
<1>3. r = [q EXCEPT !.rows = rows]
  BY <1>2 DEF Read, Matchers
<1>4. rows \in [Ids -> Info \cup {NotShown}]
  <2>1. q.map \in [Ids -> Info \cup {NotKnown}] /\ q.rows \in [Ids -> Info \cup {NotShown}]
    BY <1>2 DEF Matchers
  <2>2. \A id \in ids : q.map[Normal[id]] \in Info
    BY <2>1, <1>1, Constants
  <2> QED
    BY <2>1, <2>2
<1>5. \A id \in Ids : rows[id] = IF id \in ids THEN q.map[Normal[id]] ELSE m.rows[id]
  BY <1>1
<1> HIDE DEF rows, q
<1>6. /\ r \in Matchers /\ r.map = q.map /\ r.rows = rows /\ r.requests = q.requests
      /\ r.started = q.started /\ r.pending = q.pending
  BY <1>2, <1>3, <1>4 DEF Matchers
<1> HIDE DEF r
<1>7. Asks(m, r)
  BY <1>1, <1>6 DEF Asks, Sound
<1> QED
  BY <1>1, <1>5, <1>6, <1>7 DEF r

\* The rows with these identifiers are right after it.
LEMMA ChangedEffect ==
    ASSUME NEW m, Sound(m), NEW ids \in SUBSET Ids
    PROVE  LET r == contactInfoChanged(m, ids)
               shown == {id \in Ids : m.rows[id] # NotShown /\ Normal[id] \in ids}
           IN  /\ Asks(m, r)
               /\ \A id \in Ids : r.map[id] = IF id \in New(m, shown) THEN Unmatched ELSE m.map[id]
               /\ \A id \in Ids : r.rows[id] = IF id \in shown THEN r.map[Normal[id]] ELSE m.rows[id]
               /\ \A n \in New(m, shown) : /\ Normal[n] = n /\ n \in ids
                                           /\ \/ r.requests[n] = 1
                                              \/ ~ready /\ n \in r.pending
                                              \/ n \notin Addressable
               /\ ids \subseteq Known(m) => /\ New(m, shown) = {}
                                            /\ r.requests = m.requests /\ r.started = m.started
                                            /\ r.pending = m.pending
<1> DEFINE shown == {id \in Ids : m.rows[id] # NotShown /\ Normal[id] \in ids}
<1>1. contactInfoChanged(m, ids) = Read(m, shown)
  BY DEF contactInfoChanged
<1>2. shown \in SUBSET Ids
  OBVIOUS
<1>3. \A n \in New(m, shown) : n \in ids
  BY DEF New
<1>4. ids \subseteq Known(m) => New(m, shown) = {}
  BY DEF New
<1> HIDE DEF shown
<1> QED
  BY <1>1, <1>2, <1>3, <1>4, ReadEffect DEF shown

\* Those that fit become the contact, and so do their rows.
Matched(m, ids, copy, info, r) ==
    /\ Asks(m, r)
    /\ r.requests = m.requests /\ r.started = m.started /\ r.pending = m.pending
    /\ \A id \in Ids : r.map[id] = IF id \in ids /\ Fits(id, copy) THEN info ELSE m.map[id]
    /\ \A id \in Ids : r.rows[id] = IF m.rows[id] # NotShown /\ Normal[id] \in ids /\ Fits(Normal[id], copy)
                                    THEN info ELSE m.rows[id]

LEMMA MatchEffect ==
    ASSUME NEW m, Sound(m), NEW ids \in SUBSET Ids, NEW copy,
           NEW info \in Info, info = [contact |-> copy.contact, version |-> copy.version],
           NEW r, r = matchAndUpdate(m, ids, copy)
    PROVE  Matched(m, ids, copy, info, r)
<1> DEFINE fit == {id \in ids : Fits(id, copy)}
           q == [m EXCEPT !.map = Put(m.map, fit, info)]
           shown == {id \in Ids : q.rows[id] # NotShown /\ Normal[id] \in fit}
<1>1. m \in Matchers
  BY DEF Sound
<1>2. r = contactInfoChanged(q, fit)
  BY <1>1 DEF matchAndUpdate, Matchers
<1>3. info \in Info /\ fit \in SUBSET Ids
  OBVIOUS
<1> HIDE DEF fit
<1>4. /\ Put(m.map, fit, info) \in [Ids -> Info \cup {NotKnown}]
      /\ \A id \in Ids : Put(m.map, fit, info)[id] = IF id \in fit THEN info ELSE m.map[id]
  <2>1. m.map \in [Ids -> Info \cup {NotKnown}]
    BY <1>1 DEF Matchers
  <2> QED
    BY <2>1, <1>3, PutTyped
<1>5. /\ q \in Matchers /\ q.map = Put(m.map, fit, info) /\ q.rows = m.rows /\ q.requests = m.requests
      /\ q.started = m.started /\ q.pending = m.pending
  BY <1>1, <1>4 DEF Matchers
<1> HIDE DEF q
<1>6. Sound(q)
  BY <1>5 DEF Sound
<1>7. fit \subseteq Known(q)
  BY <1>3, <1>4, <1>5, Constants DEF Known
<1>8. /\ Asks(q, r)
      /\ \A id \in Ids : r.map[id] = IF id \in New(q, shown) THEN Unmatched ELSE q.map[id]
      /\ \A id \in Ids : r.rows[id] = IF id \in shown THEN r.map[Normal[id]] ELSE q.rows[id]
      /\ New(q, shown) = {}
      /\ r.requests = q.requests /\ r.started = q.started /\ r.pending = q.pending
  BY <1>2, <1>3, <1>6, <1>7, ChangedEffect
<1>9. Asks(m, r)
  BY <1>5, <1>8 DEF Asks
<1>10. \A id \in Ids : r.map[id] = IF id \in fit THEN info ELSE m.map[id]
  BY <1>4, <1>5, <1>8
<1>11. \A id \in Ids : r.rows[id] = IF m.rows[id] # NotShown /\ Normal[id] \in fit THEN info ELSE m.rows[id]
  BY <1>5, <1>8, <1>10, Constants
<1> QED
  BY <1>5, <1>8, <1>9, <1>10, <1>11 DEF fit, Matched

-----------------------------------------------------------------------------
(* The inductive invariant                                                 *)

Copies == [contact : Contacts, version : 1 .. MaxOperations + 1, numbers : SUBSET Numbers]
Message == [kind : {"added", "changed", "removed"}, contact : Contacts]
              \cup [kind : {"data"}]
              \cup [kind : {"answer"}, id : Ids, copy : Copies \cup {NoCopy}, failed : {FALSE}]
              \cup [kind : {"answer"}, id : Ids, copy : {NoCopy}, failed : {TRUE}]

Typing ==
    /\ TypeOK
    /\ matcher.started = Zero
    /\ book \in [Contacts -> [version : 0 .. MaxOperations + 1, numbers : SUBSET Numbers]]
    /\ asked \in [Ids -> Nat] /\ inbox \in Seq(Message)
    /\ operations \in 0 .. MaxOperations /\ ready \in BOOLEAN

\* Behind place p of the inbox there is a signal that has the matcher look at c.
Announced(c, p) ==
    \E i \in DOMAIN inbox : i > p /\ \/ inbox[i].kind = "data"
                                     \/ inbox[i].kind \in {"added", "changed"} /\ inbox[i].contact = c

\* There is one that has it forget what it knows of c, or learn what is true.
Corrected(c, p) ==
    \E i \in DOMAIN inbox : i > p /\ \/ inbox[i].kind = "data"
                                     \/ inbox[i].kind = "removed" /\ inbox[i].contact = c
                                     \/ inbox[i].kind = "changed" /\ inbox[i].contact = c /\ InBook(c)

\* What is said of the number n is true, or what comes behind place p mends it.
UnmatchedOK(n, p) == \A c \in WithNumber(n) : Announced(c, p)
MatchedOK(n, info, p) ==
    \/ info.version = book[info.contact].version /\ n \in book[info.contact].numbers
    \/ Corrected(info.contact, p)

\* What the matcher m has for an identifier that was asked for; where it has
\* nobody the book has been asked, or will be.
EntryOK(m, id, p) ==
    /\ Normal[id] = id \/ id \notin Addressable
    /\ IF m.map[id] = Unmatched
       THEN \/ m.requests[Normal[id]] = 1
            \/ ~ready /\ id \in m.pending
            \/ UnmatchedOK(Normal[id], p)
       ELSE MatchedOK(Normal[id], m.map[id], p)
EntriesOK == \A id \in Ids \ excused : matcher.map[id] # NotKnown => EntryOK(matcher, id, 0)

\* The answer at place p was true when it was given; what has changed since is
\* announced behind it.
AnswerOK(p) ==
    LET msg == inbox[p]
    IN  IF msg.copy = NoCopy THEN UnmatchedOK(msg.id, p)
        ELSE /\ msg.id \in msg.copy.numbers
             /\ MatchedOK(msg.id, [contact |-> msg.copy.contact, version |-> msg.copy.version], p)
AnswersOK == \A p \in DOMAIN inbox : inbox[p].kind = "answer" /\ ~inbox[p].failed => AnswerOK(p)

\* A row that is not stale shows its entry.
RowOK(m, id) == m.rows[id] = NotShown \/ m.rows[id] = m.map[Normal[id]]
RowsOK == \A id \in Ids \ stale : RowOK(matcher, id)

\* Only a number has a contact.
Unmatchable(m) == \A id \in Ids \ Numbers : m.map[id] \in {NotKnown, Unmatched}

MatcherInv == Typing /\ EntriesOK /\ AnswersOK /\ RowsOK /\ Unmatchable(matcher)

LEMMA NumbersAre ==
    ASSUME Typing
    PROVE  /\ \A c \in Contacts : /\ book[c].numbers \subseteq Numbers
                                  /\ book[c].version \in 0 .. MaxOperations + 1
                                  /\ InBook(c) => /\ [contact |-> c, version |-> book[c].version] \in Info
                                                  /\ Copy(c) \in Copies
           /\ \A id \in Ids : WithNumber(id) \subseteq Contacts
           /\ \A id \in Ids : id \notin Addressable \/ Normal[id] # id => WithNumber(id) = {}
           /\ \A id \in Ids : id \notin Addressable => WithNumber(Normal[id]) = {}
<1>1. \A c \in Contacts : book[c].numbers \subseteq Numbers /\ book[c].version \in 0 .. MaxOperations + 1
  BY DEF Typing
<1>2. \A c \in Contacts : InBook(c) => /\ book[c].version \in 1 .. MaxOperations + 1
                                       /\ Copy(c) \in Copies
  BY <1>1, ContactMatcherAssumption DEF InBook, Copy, Copies
<1>3. \A id \in Ids : WithNumber(id) \subseteq Contacts
  BY DEF WithNumber
<1>4. \A id \in Ids : id \notin Addressable \/ Normal[id] # id => WithNumber(id) = {}
  BY <1>1 DEF WithNumber, Numbers
<1>5. \A id \in Ids : id \notin Addressable => WithNumber(Normal[id]) = {}
  BY <1>4, Constants
<1>6. \A c \in Contacts : InBook(c) => [contact |-> c, version |-> book[c].version] \in Info
  BY <1>2 DEF Info
<1> QED
  BY <1>1, <1>2, <1>3, <1>4, <1>5, <1>6

\* A message more: nothing that was announced is forgotten.
LEMMA AppendKeeps ==
    ASSUME Typing, NEW msg \in Message, inbox' = Append(inbox, msg)
    PROVE  /\ inbox' \in Seq(Message) /\ Len(inbox') = Len(inbox) + 1 /\ DOMAIN inbox' = 1 .. Len(inbox) + 1
           /\ DOMAIN inbox = 1 .. Len(inbox) /\ Len(inbox) \in Nat
           /\ \A i \in DOMAIN inbox : i \in DOMAIN inbox' /\ inbox'[i] = inbox[i]
           /\ inbox'[Len(inbox) + 1] = msg
           /\ \A c, p : Announced(c, p) => Announced(c, p)'
           /\ \A c, p : Corrected(c, p) /\ (InBook(c) => InBook(c)') => Corrected(c, p)'
<1>1. inbox \in Seq(Message)
  BY DEF Typing
<1>2. /\ inbox' \in Seq(Message) /\ Len(inbox') = Len(inbox) + 1 /\ DOMAIN inbox' = 1 .. Len(inbox) + 1
      /\ DOMAIN inbox = 1 .. Len(inbox) /\ Len(inbox) \in Nat
  BY <1>1
<1>3. \A i \in DOMAIN inbox : i \in DOMAIN inbox' /\ inbox'[i] = inbox[i]
  BY <1>1, <1>2
<1>4. inbox'[Len(inbox) + 1] = msg
  BY <1>1, <1>2
<1>5. \A c, p : Announced(c, p) => Announced(c, p)'
  BY <1>3 DEF Announced
<1>6. \A c, p : Corrected(c, p) /\ (InBook(c) => InBook(c)') => Corrected(c, p)'
  BY <1>3 DEF Corrected
<1> QED
  BY <1>1, <1>2, <1>3, <1>4, <1>5, <1>6

\* A message less: what was announced behind it still is, one place nearer.
LEMMA TailKeeps ==
    ASSUME Typing, inbox # <<>>, inbox' = Tail(inbox), UNCHANGED book
    PROVE  /\ inbox' \in Seq(Message) /\ Head(inbox) = inbox[1] /\ inbox[1] \in Message /\ 1 \in DOMAIN inbox
           /\ Len(inbox) \in Nat /\ DOMAIN inbox = 1 .. Len(inbox) /\ DOMAIN inbox' = 1 .. (Len(inbox) - 1)
           /\ \A i \in DOMAIN inbox' : i + 1 \in DOMAIN inbox /\ inbox'[i] = inbox[i + 1]
           /\ \A i \in DOMAIN inbox : i > 1 => i - 1 \in DOMAIN inbox' /\ inbox'[i - 1] = inbox[i]
           /\ \A c : \A p \in Nat : Announced(c, p + 1) => Announced(c, p)'
           /\ \A c : \A p \in Nat : Corrected(c, p + 1) => Corrected(c, p)'
<1>1. inbox \in Seq(Message)
  BY DEF Typing
<1>2. /\ inbox' \in Seq(Message) /\ Head(inbox) = inbox[1] /\ inbox[1] \in Message /\ 1 \in DOMAIN inbox
      /\ Len(inbox) \in Nat /\ DOMAIN inbox = 1 .. Len(inbox) /\ DOMAIN inbox' = 1 .. (Len(inbox) - 1)
  BY <1>1
<1>3. \A i \in DOMAIN inbox' : i + 1 \in DOMAIN inbox /\ inbox'[i] = inbox[i + 1]
  BY <1>1, <1>2
<1>4. \A i \in DOMAIN inbox : i > 1 => i - 1 \in DOMAIN inbox' /\ inbox'[i - 1] = inbox[i]
  <2> SUFFICES ASSUME NEW i \in DOMAIN inbox, i > 1 PROVE i - 1 \in DOMAIN inbox' /\ inbox'[i - 1] = inbox[i]
    OBVIOUS
  <2>1. i - 1 \in DOMAIN inbox' /\ (i - 1) + 1 = i
    BY <1>2
  <2> QED
    BY <2>1, <1>3
<1>5. ASSUME NEW c, NEW p \in Nat, Announced(c, p + 1) PROVE Announced(c, p)'
  <2>1. PICK i \in DOMAIN inbox :
            /\ i > p + 1
            /\ \/ inbox[i].kind = "data"
               \/ inbox[i].kind \in {"added", "changed"} /\ inbox[i].contact = c
    BY <1>5 DEF Announced
  <2>2. i \in Nat /\ i > 1 /\ i - 1 > p
    BY <2>1, <1>2
  <2> QED
    BY <2>1, <2>2, <1>4 DEF Announced
<1>6. ASSUME NEW c, NEW p \in Nat, Corrected(c, p + 1) PROVE Corrected(c, p)'
  <2>1. PICK i \in DOMAIN inbox :
            /\ i > p + 1
            /\ \/ inbox[i].kind = "data"
               \/ inbox[i].kind = "removed" /\ inbox[i].contact = c
               \/ inbox[i].kind = "changed" /\ inbox[i].contact = c /\ InBook(c)
    BY <1>6 DEF Corrected
  <2>2. i \in Nat /\ i > 1 /\ i - 1 > p
    BY <2>1, <1>2
  <2> QED
    BY <2>1, <2>2, <1>4 DEF Corrected, InBook
<1> QED
  BY <1>2, <1>3, <1>4, <1>5, <1>6

-----------------------------------------------------------------------------
(* Answers and requests                                                    *)

LEMMA AnswersFinite ==
    ASSUME inbox \in Seq(Message), NEW id
    PROVE  IsFiniteSet(Answers(id)) /\ Cardinality(Answers(id)) \in Nat /\ Answers(id) \subseteq 1 .. Len(inbox)
<1>1. Len(inbox) \in Nat /\ DOMAIN inbox = 1 .. Len(inbox)
  OBVIOUS
<1>2. IsFiniteSet(1 .. Len(inbox))
  BY <1>1, FS_Interval
<1>3. Answers(id) \subseteq 1 .. Len(inbox)
  BY <1>1 DEF Answers
<1> QED
  BY <1>2, <1>3, FS_Subset, FS_CardinalityType

LEMMA OneAnswerMore ==
    ASSUME Typing, NEW msg \in Message, inbox' = Append(inbox, msg), NEW id
    PROVE  /\ Cardinality(Answers(id)') \in Nat /\ Cardinality(Answers(id)) \in Nat
           /\ Cardinality(Answers(id)') = Cardinality(Answers(id))
                + (IF msg.kind = "answer" /\ msg.id = id THEN 1 ELSE 0)
<1>1. /\ DOMAIN inbox' = 1 .. Len(inbox) + 1 /\ DOMAIN inbox = 1 .. Len(inbox) /\ Len(inbox) \in Nat
      /\ \A i \in DOMAIN inbox : i \in DOMAIN inbox' /\ inbox'[i] = inbox[i]
      /\ inbox'[Len(inbox) + 1] = msg
  BY AppendKeeps
<1>2. \A i \in DOMAIN inbox' : i \in DOMAIN inbox \/ i = Len(inbox) + 1
  BY <1>1
<1> DEFINE old == Answers(id)
           new == Answers(id)'
<1>3. IsFiniteSet(old) /\ Cardinality(old) \in Nat /\ Len(inbox) + 1 \notin old
  BY <1>1, AnswersFinite DEF Typing
<1>4. CASE msg.kind = "answer" /\ msg.id = id
  <2>1. new = old \cup {Len(inbox) + 1}
    BY <1>1, <1>2, <1>4 DEF Answers
  <2> HIDE DEF old, new
  <2>2. Cardinality(new) = Cardinality(old) + 1
    BY <2>1, <1>3, FS_AddElement
  <2> QED
    BY <2>2, <1>3, <1>4 DEF old, new
<1>5. CASE ~(msg.kind = "answer" /\ msg.id = id)
  <2>1. new = old
    BY <1>1, <1>2, <1>5 DEF Answers
  <2> HIDE DEF old, new
  <2> QED
    BY <2>1, <1>3, <1>5 DEF old, new
<1> QED
  BY <1>4, <1>5

LEMMA OneAnswerLess ==
    ASSUME Typing, inbox # <<>>, inbox' = Tail(inbox), UNCHANGED book, NEW id
    PROVE  /\ Cardinality(Answers(id)') \in Nat /\ Cardinality(Answers(id)) \in Nat
           /\ Cardinality(Answers(id)) = Cardinality(Answers(id)')
                + (IF Head(inbox).kind = "answer" /\ Head(inbox).id = id THEN 1 ELSE 0)
<1> DEFINE old == Answers(id)
           new == Answers(id)'
           rest == old \ {1}
           shift == [i \in rest |-> i - 1]
<1>1. /\ inbox' \in Seq(Message) /\ Head(inbox) = inbox[1] /\ 1 \in DOMAIN inbox
      /\ Len(inbox) \in Nat /\ DOMAIN inbox = 1 .. Len(inbox) /\ DOMAIN inbox' = 1 .. (Len(inbox) - 1)
      /\ \A i \in DOMAIN inbox' : i + 1 \in DOMAIN inbox /\ inbox'[i] = inbox[i + 1]
      /\ \A i \in DOMAIN inbox : i > 1 => i - 1 \in DOMAIN inbox' /\ inbox'[i - 1] = inbox[i]
  BY TailKeeps
<1>2. IsFiniteSet(old) /\ Cardinality(old) \in Nat /\ old \subseteq 1 .. Len(inbox)
  BY AnswersFinite DEF Typing
<1>3. IsFiniteSet(new) /\ Cardinality(new) \in Nat
  <2>1. IsFiniteSet(1 .. (Len(inbox) - 1))
    BY <1>1, FS_Interval
  <2>2. new \subseteq 1 .. (Len(inbox) - 1)
    BY <1>1 DEF Answers
  <2> QED
    BY <2>1, <2>2, FS_Subset, FS_CardinalityType
<1>4. \A i \in rest : i \in Nat /\ i > 1 /\ i \in DOMAIN inbox /\ i - 1 \in new
  BY <1>1, <1>2 DEF Answers
<1>5. \A j \in new : j \in Nat /\ j + 1 \in rest /\ (j + 1) - 1 = j
  BY <1>1 DEF Answers
<1> HIDE DEF old, new, rest
<1>6. shift \in Bijection(rest, new)
  <2>1. shift \in [rest -> new]
    BY <1>4
  <2>2. \A i, j \in rest : shift[i] = shift[j] => i = j
    BY <1>4
  <2>3. \A j \in new : \E i \in rest : shift[i] = j
    BY <1>5
  <2> QED
    BY <2>1, <2>2, <2>3 DEF Bijection, Injection, Surjection, IsInjective
<1>7. IsFiniteSet(rest)
  BY <1>2, FS_Subset DEF rest
<1>8. Cardinality(new) = Cardinality(rest)
  BY <1>6, <1>7, FS_Bijection DEF ExistsBijection
<1>9. CASE Head(inbox).kind = "answer" /\ Head(inbox).id = id
  <2>1. 1 \in old
    BY <1>1, <1>9 DEF old, Answers
  <2>2. Cardinality(rest) = Cardinality(old) - 1
    BY <2>1, <1>2, FS_RemoveElement DEF rest
  <2> QED
    BY <2>2, <1>2, <1>3, <1>8, <1>9 DEF old, new
<1>10. CASE ~(Head(inbox).kind = "answer" /\ Head(inbox).id = id)
  <2>1. 1 \notin old
    BY <1>1, <1>10 DEF old, Answers
  <2>2. rest = old
    BY <2>1 DEF rest
  <2> QED
    BY <2>2, <1>2, <1>3, <1>8, <1>10 DEF old, new
<1> QED
  BY <1>9, <1>10

\* A step of the matcher: m0 is the matcher without the request that is
\* answered, m what the handler makes of it.
LEMMA BecomesTyped ==
    ASSUME Typing, NEW m0, Sound(m0), m0.started = Zero, NEW m, Asks(m0, m),
           NEW excuses \in SUBSET Ids, NEW silent, Becomes(m, excuses, silent),
           inbox' \in Seq(Message), UNCHANGED book, operations' \in 0 .. MaxOperations, ready' \in BOOLEAN,
           \A n \in Ids : /\ Cardinality(Answers(n)') \in Nat
                          /\ m0.requests[n] = asked[n] + Cardinality(Answers(n)')
    PROVE  /\ Typing'
           /\ matcher'.map = m.map /\ matcher'.rows = m.rows /\ matcher'.requests = m.requests
           /\ matcher'.pending = m.pending
<1>1. m \in Matchers /\ \A n \in Ids : m.started[n] \in {0, 1}
  BY DEF Asks, Sound, Matchers
<1>2. matcher' = [m EXCEPT !.started = Zero]
  BY DEF Becomes
<1>3. Zero \in [Ids -> {0, 1}]
  BY DEF Zero
<1>4. /\ matcher' \in Matchers /\ matcher'.started = Zero
      /\ matcher'.map = m.map /\ matcher'.rows = m.rows /\ matcher'.requests = m.requests
      /\ matcher'.pending = m.pending
  BY <1>1, <1>2, <1>3 DEF Matchers
<1>5. \A n \in Ids : m.requests[n] = m0.requests[n] + m.started[n]
  <2>1. \A n \in Ids : m0.started[n] = 0 /\ m0.requests[n] \in {0, 1} /\ m.requests[n] \in {0, 1}
    BY <1>1 DEF Zero, Sound, Matchers
  <2> QED
    BY <2>1, <1>1 DEF Asks
<1>6. asked' = [id \in Ids |-> asked[id] + m.started[id]]
  BY DEF Becomes
<1>7. asked \in [Ids -> Nat]
  BY DEF Typing
<1>8. \A n \in Ids : asked[n] \in Nat /\ m.started[n] \in Nat /\ asked[n] + m.started[n] \in Nat
  BY <1>1, <1>7
<1>9. asked' \in [Ids -> Nat]
  BY <1>6, <1>8
<1>10. \A n \in Ids : m.requests[n] = asked'[n] + Cardinality(Answers(n)')
  <2> TAKE n \in Ids
  <2> DEFINE answers == Cardinality(Answers(n)')
  <2>1. answers \in Nat /\ m0.requests[n] = asked[n] + answers
    OBVIOUS
  <2>2. asked[n] \in Nat /\ m.started[n] \in Nat
    BY <1>8
  <2>3. m.requests[n] = m0.requests[n] + m.started[n] /\ asked'[n] = asked[n] + m.started[n]
    BY <1>5, <1>6
  <2> HIDE DEF answers
  <2>4. m.requests[n] = asked'[n] + answers
    BY <2>1, <2>2, <2>3
  <2> QED
    BY <2>4 DEF answers
<1>11. excused' \subseteq Ids /\ stale' \subseteq Ids
  BY DEF Becomes, Typing, TypeOK
<1>12. TypeOK'
  BY <1>4, <1>10, <1>11 DEF TypeOK
<1> QED
  BY <1>4, <1>9, <1>12 DEF Typing

-----------------------------------------------------------------------------
(* A step of the matcher                                                   *)

\* It is enough to look at the entries that have changed or were in order, at
\* the rows that were, and at what has no number.
LEMMA BecomesKeeps ==
    ASSUME MatcherInv, NEW m0, Sound(m0), m0.started = Zero, NEW m, Asks(m0, m),
           NEW excuses \in SUBSET Ids, NEW silent, Becomes(m, excuses, silent),
           inbox' \in Seq(Message), UNCHANGED book, operations' \in 0 .. MaxOperations, ready' \in BOOLEAN,
           \A n \in Ids : /\ Cardinality(Answers(n)') \in Nat
                          /\ m0.requests[n] = asked[n] + Cardinality(Answers(n)'),
           AnswersOK',
           \A id \in Ids \ excuses : /\ m.map[id] # NotKnown
                                     /\ id \in excused => m.map[id] # matcher.map[id]
                                     => EntryOK(m, id, 0)',
           \A id \in Ids \ stale : Normal[id] \notin silent => RowOK(m, id),
           Unmatchable(m)
    PROVE  MatcherInv'
<1>1. /\ Typing'
      /\ matcher'.map = m.map /\ matcher'.rows = m.rows /\ matcher'.requests = m.requests
      /\ matcher'.pending = m.pending
  BY BecomesTyped DEF MatcherInv
<1>2. EntriesOK'
  <2> SUFFICES ASSUME NEW id \in Ids \ excused', m.map[id] # NotKnown
               PROVE  EntryOK(matcher, id, 0)'
    BY <1>1 DEF EntriesOK
  <2>1. id \notin excuses /\ (id \in excused => m.map[id] # matcher.map[id])
    BY DEF Becomes
  <2>2. EntryOK(m, id, 0)'
    BY <2>1
  <2> QED
    BY <2>2, <1>1 DEF EntryOK
<1>3. RowsOK'
  <2> SUFFICES ASSUME NEW id \in Ids \ stale' PROVE RowOK(m, id)
    BY <1>1 DEF RowsOK, RowOK
  <2> QED
    BY DEF Becomes, RowOK
<1>4. Unmatchable(matcher)'
  BY <1>1 DEF Unmatchable, Numbers
<1> QED
  BY <1>1, <1>2, <1>3, <1>4 DEF MatcherInv

\* What was said behind the first message is said from the start of the rest.
LEMMA TailKeepsEntries ==
    ASSUME Typing, inbox # <<>>, inbox' = Tail(inbox), UNCHANGED <<book, ready>>, AnswersOK
    PROVE  /\ AnswersOK'
           /\ \A m, id : EntryOK(m, id, 1) => EntryOK(m, id, 0)'
<1>1. /\ DOMAIN inbox = 1 .. Len(inbox) /\ DOMAIN inbox' = 1 .. (Len(inbox) - 1)
      /\ Len(inbox) \in Nat
      /\ \A i \in DOMAIN inbox' : i + 1 \in DOMAIN inbox /\ inbox'[i] = inbox[i + 1]
      /\ \A c : \A p \in Nat : Announced(c, p + 1) => Announced(c, p)'
      /\ \A c : \A p \in Nat : Corrected(c, p + 1) => Corrected(c, p)'
  BY TailKeeps
<1>2. \A c : \A p, q \in Nat : q = p + 1 => /\ Announced(c, q) => Announced(c, p)'
                                            /\ Corrected(c, q) => Corrected(c, p)'
  BY <1>1
<1>3. \A n : WithNumber(n)' = WithNumber(n)
  BY DEF WithNumber, InBook
<1>4. \A n, info : \A p, q \in Nat : q = p + 1 => /\ UnmatchedOK(n, q) => UnmatchedOK(n, p)'
                                                  /\ MatchedOK(n, info, q) => MatchedOK(n, info, p)'
  <2> SUFFICES ASSUME NEW n, NEW info, NEW p \in Nat, NEW q \in Nat, q = p + 1
               PROVE  /\ UnmatchedOK(n, q) => UnmatchedOK(n, p)'
                      /\ MatchedOK(n, info, q) => MatchedOK(n, info, p)'
    OBVIOUS
  <2>1. UnmatchedOK(n, q) => UnmatchedOK(n, p)'
    BY <1>2, <1>3 DEF UnmatchedOK
  <2>2. MatchedOK(n, info, q) => MatchedOK(n, info, p)'
    BY <1>2 DEF MatchedOK
  <2> QED
    BY <2>1, <2>2
<1>5. AnswersOK'
  <2> SUFFICES ASSUME NEW p \in DOMAIN inbox', inbox'[p].kind = "answer", ~inbox'[p].failed
               PROVE  AnswerOK(p)'
    BY DEF AnswersOK
  <2> DEFINE q == p + 1
  <2>1. p \in Nat /\ q \in Nat /\ q \in DOMAIN inbox /\ inbox'[p] = inbox[q]
    BY <1>1
  <2>2. q = p + 1
    OBVIOUS
  <2> HIDE DEF q
  <2>3. AnswerOK(q)
    BY <2>1 DEF AnswersOK
  <2> QED
    BY <2>1, <2>2, <2>3, <1>4 DEF AnswerOK, NoCopy
<1>6. ASSUME NEW m, NEW id, EntryOK(m, id, 1) PROVE EntryOK(m, id, 0)'
  <2>1. \A n, info : /\ UnmatchedOK(n, 1) => UnmatchedOK(n, 0)'
                     /\ MatchedOK(n, info, 1) => MatchedOK(n, info, 0)'
    <3>1. 0 \in Nat /\ 1 \in Nat /\ 1 = 0 + 1
      OBVIOUS
    <3> QED
      BY <3>1, <1>4
  <2> QED
    BY <2>1, <1>6 DEF EntryOK
<1> QED
  BY <1>5, <1>6

\* A signal is handled.
LEMMA SignalKeeps ==
    ASSUME MatcherInv, inbox # <<>>, inbox' = Tail(inbox), UNCHANGED <<book, operations, ready>>,
           Head(inbox).kind # "answer",
           NEW m, Asks(matcher, m), NEW silent, Becomes(m, {}, silent),
           \A id \in Ids : /\ m.map[id] # NotKnown
                           /\ id \in excused => m.map[id] # matcher.map[id]
                           => EntryOK(m, id, 1),
           \A id \in Ids \ stale : Normal[id] \notin silent => RowOK(m, id),
           Unmatchable(m)
    PROVE  MatcherInv'
<1>1. Sound(matcher) /\ matcher.started = Zero
  BY DEF MatcherInv, Typing, TypeOK, Sound, Zero
<1>2. inbox' \in Seq(Message)
  BY TailKeeps DEF MatcherInv
<1>3. \A n \in Ids : /\ Cardinality(Answers(n)') \in Nat
                     /\ matcher.requests[n] = asked[n] + Cardinality(Answers(n)')
  <2> TAKE n \in Ids
  <2>1. /\ Cardinality(Answers(n)') \in Nat /\ Cardinality(Answers(n)) \in Nat
        /\ Cardinality(Answers(n)) = Cardinality(Answers(n)')
                + (IF Head(inbox).kind = "answer" /\ Head(inbox).id = n THEN 1 ELSE 0)
    BY OneAnswerLess DEF MatcherInv
  <2>2. Cardinality(Answers(n)) = Cardinality(Answers(n)')
    BY <2>1
  <2>3. matcher.requests[n] = asked[n] + Cardinality(Answers(n))
    BY DEF MatcherInv, Typing, TypeOK
  <2> QED
    BY <2>1, <2>2, <2>3
<1>4. /\ AnswersOK'
      /\ \A id : EntryOK(m, id, 1) => EntryOK(m, id, 0)'
  BY TailKeepsEntries DEF MatcherInv
<1>5. ready' \in BOOLEAN /\ operations' \in 0 .. MaxOperations
  BY DEF MatcherInv, Typing
<1> QED
  BY <1>1, <1>2, <1>3, <1>4, <1>5, BecomesKeeps

\* What is not announced behind the first message is announced by it.
LEMMA ByTheFirst ==
    ASSUME inbox \in Seq(Message), inbox # <<>>, NEW c
    PROVE  /\ Announced(c, 0) => \/ Announced(c, 1)
                                 \/ Head(inbox).kind = "data"
                                 \/ Head(inbox).kind \in {"added", "changed"} /\ Head(inbox).contact = c
           /\ Corrected(c, 0) => \/ Corrected(c, 1)
                                 \/ Head(inbox).kind = "data"
                                 \/ Head(inbox).kind = "removed" /\ Head(inbox).contact = c
                                 \/ Head(inbox).kind = "changed" /\ Head(inbox).contact = c /\ InBook(c)
<1>1. Head(inbox) = inbox[1] /\ \A i \in DOMAIN inbox : i \in Nat /\ (i > 1 \/ i = 1)
  OBVIOUS
<1> QED
  BY <1>1 DEF Announced, Corrected

\* An entry that stays as it was, and that the first message is not about.
LEMMA EntryStays ==
    ASSUME MatcherInv, inbox # <<>>, NEW m, Asks(matcher, m), NEW id \in Ids \ excused,
           m.map[id] = matcher.map[id], m.map[id] # NotKnown, Head(inbox).kind # "data",
           Head(inbox).kind \in {"added", "changed"} => Head(inbox).contact \notin WithNumber(Normal[id]),
           Head(inbox).kind = "removed" => Head(inbox).contact # m.map[id].contact,
           Head(inbox).kind = "changed" /\ InBook(Head(inbox).contact) =>
               Head(inbox).contact # m.map[id].contact
    PROVE  EntryOK(m, id, 1)
<1>1. EntryOK(matcher, id, 0)
  BY DEF MatcherInv, EntriesOK
<1>2. inbox \in Seq(Message) /\ Normal[id] \in Ids
  BY Constants DEF MatcherInv, Typing
<1>3. CASE m.map[id] = Unmatched
  <2>1. matcher.requests[Normal[id]] = 1 => m.requests[Normal[id]] = 1
    BY <1>2 DEF Asks
  <2>2. id \in matcher.pending => id \in m.pending
    BY DEF Asks
  <2>3. UnmatchedOK(Normal[id], 0) => UnmatchedOK(Normal[id], 1)
    BY <1>2, ByTheFirst DEF UnmatchedOK
  <2> QED
    BY <1>1, <1>3, <2>1, <2>2, <2>3 DEF EntryOK
<1>4. CASE m.map[id] # Unmatched
  <2>1. MatchedOK(Normal[id], m.map[id], 0) => MatchedOK(Normal[id], m.map[id], 1)
    BY <1>2, ByTheFirst DEF MatchedOK
  <2> QED
    BY <1>1, <1>4, <2>1 DEF EntryOK
<1> QED
  BY <1>3, <1>4

-----------------------------------------------------------------------------
(* The signals of the book                                                 *)

\* The contact in the book, as an entry has it.
LEMMA CopyOf ==
    ASSUME Typing, NEW c \in Contacts, InBook(c)
    PROVE  LET copy == Copy(c)
               info == [contact |-> copy.contact, version |-> copy.version]
           IN  /\ copy \in Copies /\ info \in Info /\ info # Unmatched /\ info.contact = c
               /\ \A id : Fits(id, copy) => /\ id \in Numbers /\ id \in Ids /\ Normal[id] = id /\ c \in WithNumber(id)
                                            /\ \A p : MatchedOK(id, info, p)
               /\ \A id \in Ids : c \in WithNumber(Normal[id]) => Fits(Normal[id], copy)
<1> DEFINE copy == Copy(c)
           info == [contact |-> copy.contact, version |-> copy.version]
<1>1. copy \in Copies /\ copy.contact = c /\ copy.version = book[c].version /\ copy.numbers = book[c].numbers
  BY NumbersAre DEF Copy
<1>2. info \in Info /\ info # Unmatched
  <2>1. info = [contact |-> c, version |-> book[c].version]
    BY <1>1
  <2> QED
    BY <2>1, NumbersAre, ContactMatcherAssumption DEF Unmatched
<1>3. copy.numbers \subseteq Numbers /\ Numbers \subseteq Addressable /\ Numbers \subseteq Ids
  BY <1>1, NumbersAre, ContactMatcherAssumption DEF Numbers
<1>4. \A id : Fits(id, copy) => id \in Numbers /\ id \in Ids /\ Normal[id] = id /\ c \in WithNumber(id)
  BY <1>1, <1>3 DEF Fits, Numbers, WithNumber
<1>5. \A id, p : Fits(id, copy) => MatchedOK(id, info, p)
  BY <1>1 DEF Fits, MatchedOK
<1>6. \A id \in Ids : c \in WithNumber(Normal[id]) => Fits(Normal[id], copy)
  BY <1>1, <1>3 DEF WithNumber, Fits
<1> HIDE DEF copy
<1> QED
  BY <1>1, <1>2, <1>4, <1>5, <1>6 DEF copy

\* Only what is known of an identifier of the matcher is Info.
LEMMA MapTyped ==
    ASSUME MatcherInv
    PROVE  /\ \A id \in Ids : matcher.map[id] \in Info \cup {NotKnown}
           /\ \A id \in Ids : matcher.rows[id] \in Info \cup {NotShown}
           /\ \A id \in Ids : hasMatch(matcher.map[id]) /\ matcher.map[id] # NotKnown => id \in Numbers
           /\ \A id \in Ids : matcher.map[Normal[id]] = NotKnown /\ RowOK(matcher, id) => matcher.rows[id] = NotShown
           /\ Sound(matcher) /\ matcher.started = Zero
<1>1. matcher \in Matchers /\ matcher.started = Zero
  BY DEF MatcherInv, Typing, TypeOK
<1>2. \A id \in Ids : matcher.map[id] \in Info \cup {NotKnown} /\ matcher.rows[id] \in Info \cup {NotShown}
  BY <1>1 DEF Matchers
<1>3. \A id \in Ids : hasMatch(matcher.map[id]) /\ matcher.map[id] # NotKnown => id \in Numbers
  BY Constants DEF MatcherInv, Unmatchable
<1>4. \A id \in Ids : matcher.map[Normal[id]] = NotKnown /\ RowOK(matcher, id) => matcher.rows[id] = NotShown
  BY <1>2, ContactMatcherAssumption DEF RowOK
<1>5. Sound(matcher)
  BY <1>1 DEF Sound, Zero
<1> QED
  BY <1>1, <1>2, <1>3, <1>4, <1>5

\* A signal that the matcher does nothing for.
LEMMA NothingDone ==
    ASSUME MatcherInv
    PROVE  Asks(matcher, matcher)
<1>1. Sound(matcher)
  BY MapTyped
<1>2. \A n \in Ids : matcher.requests[n] \in {0, 1} /\ matcher.started[n] \in {0, 1}
  BY <1>1 DEF Sound, Matchers
<1> QED
  BY <1>1, <1>2 DEF Asks

LEMMA AddedKeeps ==
    ASSUME MatcherInv, onContactsAdded
    PROVE  MatcherInv'
<1> DEFINE c == Head(inbox).contact
           copy == Copy(c)
           info == [contact |-> copy.contact, version |-> copy.version]
           free == {id \in Known(matcher) : ~hasMatch(matcher.map[id])}
<1>1. /\ inbox # <<>> /\ Head(inbox).kind = "added" /\ inbox' = Tail(inbox)
      /\ UNCHANGED <<book, operations, ready>>
  BY DEF onContactsAdded, Receive
<1>2. Typing /\ Head(inbox) \in Message
  BY <1>1, TailKeeps DEF MatcherInv, onContactsAdded, Receive, Typing
<1>3. c \in Contacts
  BY <1>1, <1>2 DEF Message
<1>4. CASE InBook(c)
  <2> DEFINE m == matchAndUpdate(matcher, free, copy)
  <2>1. Becomes(m, {}, {})
    BY <1>4 DEF onContactsAdded, ContactsAdded
  <2>2. /\ copy \in Copies /\ info \in Info /\ info # Unmatched /\ info.contact = c
        /\ \A id : Fits(id, copy) => /\ id \in Numbers /\ id \in Ids /\ Normal[id] = id /\ c \in WithNumber(id)
                                     /\ \A p : MatchedOK(id, info, p)
        /\ \A id \in Ids : c \in WithNumber(Normal[id]) => Fits(Normal[id], copy)
    BY <1>2, <1>3, <1>4, CopyOf
  <2>3. free \in SUBSET Ids
    BY DEF Known
  <2> HIDE DEF c, copy, free
  <2>10. info = [contact |-> copy.contact, version |-> copy.version]
    OBVIOUS
  <2>11. m = matchAndUpdate(matcher, free, copy)
    OBVIOUS
  <2> HIDE DEF info, m
  <2>4. Matched(matcher, free, copy, info, m)
    BY <2>2, <2>3, <2>10, <2>11, MapTyped, MatchEffect
  <2>12. /\ Asks(matcher, m)
         /\ \A id \in Ids : m.map[id] = IF id \in free /\ Fits(id, copy) THEN info ELSE matcher.map[id]
         /\ \A id \in Ids : m.rows[id] = IF matcher.rows[id] # NotShown /\ Normal[id] \in free /\ Fits(Normal[id], copy)
                                         THEN info ELSE matcher.rows[id]
    BY <2>4 DEF Matched
  <2>5. ASSUME NEW id \in Ids, m.map[id] # NotKnown, id \in excused => m.map[id] # matcher.map[id]
        PROVE  EntryOK(m, id, 1)
    <3>1. CASE id \in free /\ Fits(id, copy)
      BY <3>1, <2>2, <2>12 DEF EntryOK
    <3>2. CASE ~(id \in free /\ Fits(id, copy))
      <4>1. m.map[id] = matcher.map[id] /\ id \notin excused
        BY <3>2, <2>12, <2>5
      <4>2. ASSUME c \in WithNumber(Normal[id]), m.map[id] = Unmatched PROVE FALSE
        <5>1. Fits(Normal[id], copy) /\ Normal[id] \in Addressable
          BY <4>2, <2>2 DEF Fits
        <5>2. Normal[id] = id
          <6>1. EntryOK(matcher, id, 0)
            BY <4>1, <2>5 DEF MatcherInv, EntriesOK
          <6> QED
            BY <6>1, <5>1, Constants DEF EntryOK
        <5>3. id \in free
          BY <4>1, <4>2, Constants DEF free, Known
        <5> QED
          BY <5>1, <5>2, <5>3, <3>2
      <4>3. CASE m.map[id] = Unmatched
        BY <4>1, <4>2, <4>3, <2>12, <2>5, <1>1, EntryStays DEF c
      <4>4. CASE m.map[id] # Unmatched
        <5>1. EntryOK(matcher, id, 0)
          BY <4>1, <2>5 DEF MatcherInv, EntriesOK
        <5>2. Corrected(m.map[id].contact, 0) => Corrected(m.map[id].contact, 1)
          BY <1>1, <1>2, ByTheFirst DEF Typing
        <5> QED
          BY <4>1, <4>4, <5>1, <5>2 DEF EntryOK, MatchedOK
      <4> QED
        BY <4>3, <4>4
    <3> QED
      BY <3>1, <3>2
  <2>6. \A id \in Ids \ stale : RowOK(m, id)
    <3> SUFFICES ASSUME NEW id \in Ids \ stale PROVE RowOK(m, id)
      OBVIOUS
    <3>1. RowOK(matcher, id) /\ Normal[id] \in Ids
      BY Constants DEF MatcherInv, RowsOK
    <3> QED
      BY <3>1, <2>12 DEF RowOK
  <2>7. Unmatchable(m)
    BY <2>2, <2>12 DEF Unmatchable, MatcherInv
  <2> QED
    BY <1>1, <2>1, <2>12, <2>5, <2>6, <2>7, SignalKeeps
<1>5. CASE ~InBook(c)
  <2>1. Becomes(matcher, {}, {})
    BY <1>5 DEF onContactsAdded
  <2>2. Asks(matcher, matcher)
    BY NothingDone
  <2>3. \A n : c \notin WithNumber(n)
    BY <1>5 DEF WithNumber
  <2>4. \A id \in Ids : matcher.map[id] # NotKnown /\ (id \in excused => matcher.map[id] # matcher.map[id])
                        => EntryOK(matcher, id, 1)
    BY <1>1, <2>2, <2>3, EntryStays
  <2> QED
    BY <1>1, <2>1, <2>2, <2>4, SignalKeeps DEF MatcherInv, RowsOK
<1> QED
  BY <1>4, <1>5

\* What ContactsChanged makes of the matcher: the entries that fit are the
\* contact, those that fitted are not known.
LEMMA ContactsChangedEffect ==
    ASSUME MatcherInv, NEW c \in Contacts, InBook(c)
    PROVE  LET copy == Copy(c)
               info == [contact |-> copy.contact, version |-> copy.version]
               left == Left(matcher, copy)
               m == ContactsChanged(matcher, copy)
           IN  /\ Asks(matcher, m)
               /\ \A id \in Ids : id \in Known(matcher) /\ Fits(id, copy) => m.map[id] = info
               /\ \A id \in Ids : ~(id \in Known(matcher) /\ Fits(id, copy)) /\ id \in left => m.map[id] = NotKnown
               /\ \A id \in Ids : ~(id \in Known(matcher) /\ Fits(id, copy)) /\ id \notin left => m.map[id] = matcher.map[id]
               /\ \A id \in Ids : Normal[id] \notin left /\ RowOK(matcher, id) => RowOK(m, id)
               /\ left \subseteq Numbers
<1> DEFINE copy == Copy(c)
           info == [contact |-> copy.contact, version |-> copy.version]
           left == Left(matcher, copy)
           known == Known(matcher)
           q == matchAndUpdate(matcher, known, copy)
           forgetting == [q EXCEPT !.map = Put(q.map, left, NotKnown)]
           m == requestContactInfo(forgetting, left)
<1>1. /\ copy \in Copies /\ info \in Info /\ info # Unmatched /\ info.contact = c
      /\ \A id : Fits(id, copy) => id \in Numbers /\ id \in Ids /\ Normal[id] = id
  BY CopyOf DEF MatcherInv
<1>2. copy.contact = c /\ c # Nobody
  BY ContactMatcherAssumption DEF Copy
<1>3. /\ known \in SUBSET Ids /\ left \in SUBSET Ids
      /\ \A id \in left : id \in known /\ matcher.map[id].contact = c /\ ~Fits(id, copy)
  BY <1>2 DEF Known, Left, Matching
<1>4. left \subseteq Numbers /\ left \subseteq Addressable
  <2>1. \A id \in left : hasMatch(matcher.map[id]) /\ matcher.map[id] # NotKnown
    BY <1>2, <1>3 DEF hasMatch, Known
  <2>2. left \subseteq Numbers
    BY <1>3, <2>1, MapTyped
  <2> QED
    BY <2>2 DEF Numbers
<1>5. ContactsChanged(matcher, copy) = requestContactInfo([q EXCEPT !.map = Put(@, left, NotKnown)], left)
  BY DEF ContactsChanged
<1> HIDE DEF copy, left, known
<1>16. info = [contact |-> copy.contact, version |-> copy.version]
  OBVIOUS
<1>17. q = matchAndUpdate(matcher, known, copy)
  OBVIOUS
<1> HIDE DEF info, q
<1>18. Matched(matcher, known, copy, info, q)
  <2>1. Sound(matcher) /\ known \in SUBSET Ids /\ info \in Info
    BY <1>1, <1>3, MapTyped
  <2> QED
    BY <2>1, <1>16, <1>17, MatchEffect
<1>6. /\ Asks(matcher, q)
      /\ q.requests = matcher.requests /\ q.started = matcher.started /\ q.pending = matcher.pending
      /\ \A id \in Ids : q.map[id] = IF id \in known /\ Fits(id, copy) THEN info ELSE matcher.map[id]
      /\ \A id \in Ids : q.rows[id] = IF matcher.rows[id] # NotShown /\ Normal[id] \in known /\ Fits(Normal[id], copy)
                                      THEN info ELSE matcher.rows[id]
  BY <1>18 DEF Matched
<1>7. q \in Matchers /\ Sound(q)
  BY <1>6 DEF Asks, Sound
<1>8. /\ Put(q.map, left, NotKnown) \in [Ids -> Info \cup {NotKnown}]
      /\ \A id \in Ids : Put(q.map, left, NotKnown)[id] = IF id \in left THEN NotKnown ELSE q.map[id]
  <2>1. q.map \in [Ids -> Info \cup {NotKnown}]
    BY <1>7 DEF Matchers
  <2> QED
    BY <2>1, PutTyped
<1>9. /\ forgetting \in Matchers /\ forgetting.map = Put(q.map, left, NotKnown) /\ forgetting.rows = q.rows
      /\ forgetting.requests = q.requests /\ forgetting.started = q.started
      /\ forgetting.pending = q.pending
      /\ ContactsChanged(matcher, copy) = m
  BY <1>5, <1>7, <1>8 DEF Matchers
<1> HIDE DEF forgetting
<1>10. Sound(forgetting)
  BY <1>7, <1>9 DEF Sound
<1>11. /\ Asks(forgetting, m)
       /\ m.rows = forgetting.rows /\ m.pending = forgetting.pending
       /\ \A id \in Ids : m.map[id] = IF id \in left \ Addressable THEN Unmatched ELSE forgetting.map[id]
  BY <1>3, <1>10, RequestEffect
<1> HIDE DEF m
<1>12. Asks(matcher, m)
  <2>1. Asks(q, m)
    BY <1>9, <1>11 DEF Asks
  <2> QED
    BY <2>1, <1>6, MapTyped, AsksTwice
<1>13. \A id \in Ids : m.map[id] = IF id \in left THEN NotKnown ELSE q.map[id]
  BY <1>4, <1>8, <1>9, <1>11
<1>14. ASSUME NEW id \in Ids, Normal[id] \notin left, RowOK(matcher, id) PROVE RowOK(m, id)
  <2>1. Normal[id] \in Ids /\ m.map[Normal[id]] = q.map[Normal[id]] /\ m.rows[id] = q.rows[id]
    BY <1>9, <1>11, <1>13, <1>14, Constants
  <2> QED
    BY <2>1, <1>6, <1>14 DEF RowOK
<1>15. /\ \A id \in Ids : id \in known /\ Fits(id, copy) => m.map[id] = info
       /\ \A id \in Ids : ~(id \in known /\ Fits(id, copy)) /\ id \in left => m.map[id] = NotKnown
       /\ \A id \in Ids : ~(id \in known /\ Fits(id, copy)) /\ id \notin left => m.map[id] = matcher.map[id]
  BY <1>3, <1>6, <1>13
<1> QED
  BY <1>4, <1>9, <1>12, <1>14, <1>15 DEF copy, info, left, known

LEMMA ChangedKeeps ==
    ASSUME MatcherInv, onContactsChanged
    PROVE  MatcherInv'
<1> DEFINE c == Head(inbox).contact
           copy == Copy(c)
           info == [contact |-> copy.contact, version |-> copy.version]
           left == Left(matcher, copy)
<1>1. /\ inbox # <<>> /\ Head(inbox).kind = "changed" /\ inbox' = Tail(inbox)
      /\ UNCHANGED <<book, operations, ready>>
  BY DEF onContactsChanged, Receive
<1>2. Typing /\ Head(inbox) \in Message
  BY <1>1, TailKeeps DEF MatcherInv, onContactsChanged, Receive, Typing
<1>3. c \in Contacts
  BY <1>1, <1>2 DEF Message
<1>4. CASE InBook(c)
  <2> DEFINE m == ContactsChanged(matcher, copy)
  <2>1. Becomes(m, {}, left)
    BY <1>4 DEF onContactsChanged
  <2>2. /\ copy \in Copies /\ info \in Info /\ info # Unmatched /\ info.contact = c
        /\ \A id : Fits(id, copy) => /\ id \in Numbers /\ id \in Ids /\ Normal[id] = id /\ c \in WithNumber(id)
                                     /\ \A p : MatchedOK(id, info, p)
        /\ \A id \in Ids : c \in WithNumber(Normal[id]) => Fits(Normal[id], copy)
    BY <1>2, <1>3, <1>4, CopyOf
  <2>3. /\ Asks(matcher, m)
        /\ \A id \in Ids : id \in Known(matcher) /\ Fits(id, copy) => m.map[id] = info
        /\ \A id \in Ids : ~(id \in Known(matcher) /\ Fits(id, copy)) /\ id \in left => m.map[id] = NotKnown
        /\ \A id \in Ids : ~(id \in Known(matcher) /\ Fits(id, copy)) /\ id \notin left => m.map[id] = matcher.map[id]
        /\ \A id \in Ids : Normal[id] \notin left /\ RowOK(matcher, id) => RowOK(m, id)
    BY <1>3, <1>4, ContactsChangedEffect
  <2>4. \A id \in Ids : id \notin left /\ id \in Known(matcher) /\ ~Fits(id, copy) => matcher.map[id].contact # c
    BY DEF Left, Matching, Copy
  <2> HIDE DEF c, copy, left, m, info
  <2>5. ASSUME NEW id \in Ids, m.map[id] # NotKnown, id \in excused => m.map[id] # matcher.map[id]
        PROVE  EntryOK(m, id, 1)
    <3>1. CASE id \in Known(matcher) /\ Fits(id, copy)
      BY <3>1, <2>2, <2>3 DEF EntryOK
    <3>2. CASE ~(id \in Known(matcher) /\ Fits(id, copy))
      <4>1. m.map[id] = matcher.map[id] /\ id \notin excused /\ id \notin left
        BY <3>2, <2>3, <2>5
      <4>2. id \in Known(matcher) /\ ~Fits(id, copy)
        BY <3>2, <4>1, <2>5 DEF Known
      <4>3. matcher.map[id].contact # c
        BY <4>1, <4>2, <2>4
      <4>4. c \notin WithNumber(Normal[id])
        <5> SUFFICES ASSUME c \in WithNumber(Normal[id]) PROVE FALSE
          OBVIOUS
        <5>1. Fits(Normal[id], copy) /\ Normal[id] \in Addressable
          BY <2>2 DEF Fits
        <5>2. EntryOK(matcher, id, 0)
          BY <4>1, <2>5 DEF MatcherInv, EntriesOK
        <5>3. Normal[id] = id
          BY <5>1, <5>2, Constants DEF EntryOK
        <5> QED
          BY <5>1, <5>3, <4>2
      <4> QED
        BY <4>1, <4>3, <4>4, <2>3, <2>5, <1>1, EntryStays DEF c
    <3> QED
      BY <3>1, <3>2
  <2>6. \A id \in Ids \ stale : Normal[id] \notin left => RowOK(m, id)
    BY <2>3 DEF MatcherInv, RowsOK
  <2>7. Unmatchable(m)
    BY <2>2, <2>3 DEF Unmatchable, MatcherInv
  <2> QED
    BY <1>1, <2>1, <2>3, <2>5, <2>6, <2>7, SignalKeeps
<1>5. CASE ~InBook(c)
  <2>1. Becomes(matcher, {}, {})
    BY <1>5 DEF onContactsChanged
  <2>2. Asks(matcher, matcher)
    BY NothingDone
  <2>3. \A n : c \notin WithNumber(n)
    BY <1>5 DEF WithNumber
  <2>4. \A id \in Ids : matcher.map[id] # NotKnown /\ (id \in excused => matcher.map[id] # matcher.map[id])
                        => EntryOK(matcher, id, 1)
    BY <1>1, <1>5, <2>2, <2>3, EntryStays
  <2> QED
    BY <1>1, <2>1, <2>2, <2>4, SignalKeeps DEF MatcherInv, RowsOK
<1> QED
  BY <1>4, <1>5

\* The entries are forgotten one moment and asked for the next.
LEMMA ContactsRemovedEffect ==
    ASSUME MatcherInv, NEW c \in Contacts
    PROVE  LET left == Matching(matcher, c)
               m == ContactsRemoved(matcher, c)
           IN  /\ Asks(matcher, m)
               /\ \A id \in left : /\ m.map[id] = Unmatched /\ id \in Numbers
                                   /\ m.requests[id] = 1 \/ (~ready /\ id \in m.pending)
               /\ \A id \in Ids \ left : m.map[id] = matcher.map[id]
               /\ \A id \in Ids : RowOK(matcher, id) => RowOK(m, id)
<1> DEFINE left == Matching(matcher, c)
           map == Put(matcher.map, left, NotKnown)
           f == [matcher EXCEPT !.map = map]
           q == contactInfo(f, left)
           m == contactInfoChanged(q, left)
           shown == {id \in Ids : q.rows[id] # NotShown /\ Normal[id] \in left}
<1>1. matcher \in Matchers /\ Sound(matcher) /\ matcher.started = Zero
  BY MapTyped DEF Sound
<1>2. \A id \in left : id \in Ids /\ id \in Numbers /\ Normal[id] = id /\ id \in Addressable
  <2>1. \A id \in left : id \in Ids /\ hasMatch(matcher.map[id]) /\ matcher.map[id] # NotKnown
    BY ContactMatcherAssumption DEF Matching, Known, hasMatch
  <2> QED
    BY <2>1, MapTyped DEF Numbers
<1>3. left \in SUBSET Ids
  BY <1>2
<1>4. ContactsRemoved(matcher, c) = m
  BY <1>1 DEF ContactsRemoved, Matchers
<1> HIDE DEF left
<1>5. /\ map \in [Ids -> Info \cup {NotKnown}]
      /\ \A id \in Ids : map[id] = IF id \in left THEN NotKnown ELSE matcher.map[id]
  <2>1. matcher.map \in [Ids -> Info \cup {NotKnown}]
    BY <1>1 DEF Matchers
  <2> QED
    BY <2>1, PutTyped
<1> HIDE DEF map
<1>6. /\ f \in Matchers /\ f.map = map /\ f.rows = matcher.rows /\ f.requests = matcher.requests
      /\ f.started = matcher.started /\ f.pending = matcher.pending
  BY <1>1, <1>5 DEF Matchers
<1> HIDE DEF f
<1>7. Sound(f)
  BY <1>1, <1>6 DEF Sound
<1>8. New(f, left) = left
  <2>1. \A id \in left : id \in New(f, left)
    BY <1>2, <1>5, <1>6 DEF New, Known
  <2>2. \A n \in New(f, left) : n \in left
    BY <1>2 DEF New
  <2> QED
    BY <2>1, <2>2
<1>9. /\ Asks(f, q)
      /\ q.rows = f.rows
      /\ \A id \in Ids : q.map[id] = IF id \in left THEN Unmatched ELSE f.map[id]
      /\ \A n \in left : \/ q.requests[n] = 1
                         \/ ~ready /\ n \in q.pending
                         \/ n \notin Addressable
  BY <1>3, <1>7, <1>8, InfoEffect
<1> HIDE DEF q
<1>10. Sound(q) /\ left \subseteq Known(q)
  BY <1>2, <1>9, Constants DEF Asks, Known
<1>11. /\ Asks(q, m)
       /\ \A id \in Ids : m.map[id] = IF id \in New(q, shown) THEN Unmatched ELSE q.map[id]
       /\ \A id \in Ids : m.rows[id] = IF id \in shown THEN m.map[Normal[id]] ELSE q.rows[id]
       /\ left \subseteq Known(q) => /\ New(q, shown) = {}
                                      /\ m.requests = q.requests /\ m.started = q.started
                                      /\ m.pending = q.pending
  BY <1>3, <1>10, ChangedEffect
<1> HIDE DEF m
<1>12. Asks(matcher, m)
  <2>1. Asks(f, m)
    BY <1>7, <1>9, <1>11, AsksTwice
  <2> QED
    BY <2>1, <1>6 DEF Asks
<1>13. \A id \in Ids : m.map[id] = IF id \in left THEN Unmatched ELSE matcher.map[id]
  BY <1>5, <1>6, <1>9, <1>10, <1>11
<1>14. ASSUME NEW id \in Ids, RowOK(matcher, id) PROVE RowOK(m, id)
  <2>1. Normal[id] \in Ids
    BY Constants
  <2>2. CASE Normal[id] \in left
    BY <2>2, <1>6, <1>9, <1>11 DEF RowOK
  <2>3. CASE Normal[id] \notin left
    <3>1. m.rows[id] = matcher.rows[id] /\ m.map[Normal[id]] = matcher.map[Normal[id]]
      BY <2>1, <2>3, <1>6, <1>9, <1>11, <1>13
    <3> QED
      BY <3>1, <1>14 DEF RowOK
  <2> QED
    BY <2>2, <2>3
<1>15. \A id \in left : m.requests[id] = 1 \/ (~ready /\ id \in m.pending)
  BY <1>2, <1>9, <1>10, <1>11
<1> QED
  BY <1>2, <1>4, <1>12, <1>13, <1>14, <1>15 DEF left

LEMMA RemovedKeeps ==
    ASSUME MatcherInv, onContactsRemoved
    PROVE  MatcherInv'
<1> DEFINE c == Head(inbox).contact
           left == Matching(matcher, c)
           m == ContactsRemoved(matcher, c)
<1>1. /\ inbox # <<>> /\ Head(inbox).kind = "removed" /\ inbox' = Tail(inbox)
      /\ UNCHANGED <<book, operations, ready>>
      /\ Becomes(m, {}, {})
  BY DEF onContactsRemoved, Receive
<1>2. Head(inbox) \in Message
  BY <1>1, TailKeeps DEF MatcherInv
<1>3. c \in Contacts
  BY <1>1, <1>2 DEF Message
<1>4. /\ Asks(matcher, m)
      /\ \A id \in left : /\ m.map[id] = Unmatched /\ id \in Numbers
                          /\ m.requests[id] = 1 \/ (~ready /\ id \in m.pending)
      /\ \A id \in Ids \ left : m.map[id] = matcher.map[id]
      /\ \A id \in Ids : RowOK(matcher, id) => RowOK(m, id)
  BY <1>3, ContactsRemovedEffect
<1>5. \A id \in Ids \ left : matcher.map[id] = NotKnown \/ matcher.map[id].contact # c
  BY DEF Matching, Known
<1> HIDE DEF c, left, m
<1>6. ASSUME NEW id \in Ids, m.map[id] # NotKnown, id \in excused => m.map[id] # matcher.map[id]
      PROVE  EntryOK(m, id, 1)
  <2>1. CASE id \in left
    BY <2>1, <1>4 DEF EntryOK, Numbers
  <2>2. CASE id \notin left
    <3>1. m.map[id] = matcher.map[id] /\ id \notin excused /\ m.map[id].contact # c
      BY <2>2, <1>4, <1>5, <1>6
    <3> QED
      BY <3>1, <1>1, <1>4, <1>6, EntryStays DEF c
  <2> QED
    BY <2>1, <2>2
<1>7. \A id \in Ids \ stale : RowOK(m, id)
  BY <1>4 DEF MatcherInv, RowsOK
<1>8. Unmatchable(m)
  BY <1>4 DEF Unmatchable, MatcherInv
<1> QED
  BY <1>1, <1>4, <1>6, <1>7, <1>8, SignalKeeps

\* Nothing is known any more but that rows have asked.
LEMMA DataChangedEffect ==
    ASSUME MatcherInv
    PROVE  LET m == DataChanged(matcher)
           IN  /\ Asks(matcher, m)
               /\ \A id \in Ids : m.map[id] # NotKnown =>
                      /\ m.map[id] = Unmatched
                      /\ \/ Normal[id] = id /\ (m.requests[id] = 1 \/ (~ready /\ id \in m.pending))
                         \/ id \notin Addressable
               /\ \A id \in Ids : RowOK(matcher, id) => RowOK(m, id)
<1> DEFINE known == Known(matcher)
           map == Put(matcher.map, Ids, NotKnown)
           f == [matcher EXCEPT !.map = map]
           q == contactInfoChanged(f, known)
           m == requestContactInfo(q, known)
           shown == {id \in Ids : f.rows[id] # NotShown /\ Normal[id] \in known}
<1>1. matcher \in Matchers /\ Sound(matcher) /\ matcher.started = Zero
  BY MapTyped DEF Sound
<1>2. known \in SUBSET Ids
  BY DEF Known
<1>3. DataChanged(matcher) = m
  BY <1>1 DEF DataChanged, Matchers
<1>4. /\ map \in [Ids -> Info \cup {NotKnown}]
      /\ \A id \in Ids : map[id] = NotKnown
  <2>1. matcher.map \in [Ids -> Info \cup {NotKnown}]
    BY <1>1 DEF Matchers
  <2> QED
    BY <2>1, PutTyped
<1> HIDE DEF map
<1>5. /\ f \in Matchers /\ f.map = map /\ f.rows = matcher.rows /\ f.requests = matcher.requests
      /\ f.started = matcher.started /\ f.pending = matcher.pending
  BY <1>1, <1>4 DEF Matchers
<1> HIDE DEF f
<1>6. Sound(f)
  BY <1>1, <1>5 DEF Sound
<1>7. \A id \in Ids : id \notin known <=> matcher.map[id] = NotKnown
  BY DEF Known
<1> HIDE DEF known
<1>8. /\ Asks(f, q)
      /\ \A id \in Ids : q.map[id] = IF id \in New(f, shown) THEN Unmatched ELSE f.map[id]
      /\ \A id \in Ids : q.rows[id] = IF id \in shown THEN q.map[Normal[id]] ELSE f.rows[id]
      /\ \A n \in New(f, shown) : /\ Normal[n] = n /\ n \in known
                                  /\ \/ q.requests[n] = 1
                                     \/ ~ready /\ n \in q.pending
                                     \/ n \notin Addressable
  BY <1>2, <1>6, ChangedEffect
<1> HIDE DEF q
<1>9. Sound(q)
  BY <1>8 DEF Asks
<1>10. /\ Asks(q, m)
       /\ m.rows = q.rows /\ m.pending = q.pending
       /\ \A id \in Ids : m.map[id] = IF id \in known \ Addressable THEN Unmatched ELSE q.map[id]
  BY <1>2, <1>9, RequestEffect
<1> HIDE DEF m
<1>11. Asks(matcher, m)
  <2>1. Asks(f, m)
    BY <1>6, <1>8, <1>10, AsksTwice
  <2> QED
    BY <2>1, <1>5 DEF Asks
<1>12. ASSUME NEW id \in Ids, m.map[id] # NotKnown
       PROVE  /\ m.map[id] = Unmatched
              /\ \/ Normal[id] = id /\ (m.requests[id] = 1 \/ (~ready /\ id \in m.pending))
                 \/ id \notin Addressable
  <2>1. CASE id \in known \ Addressable
    BY <2>1, <1>10
  <2>2. CASE id \notin known \ Addressable
    <3>1. id \in New(f, shown) /\ m.map[id] = Unmatched
      BY <2>2, <1>4, <1>5, <1>8, <1>10, <1>12
    <3>2. q.requests[id] = 1 => m.requests[id] = 1
      BY <1>10 DEF Asks
    <3> QED
      BY <3>1, <3>2, <1>8, <1>10
  <2> QED
    BY <2>1, <2>2
<1>13. ASSUME NEW id \in Ids, RowOK(matcher, id) PROVE RowOK(m, id)
  <2>1. Normal[id] \in Ids
    BY Constants
  <2>2. CASE id \in shown
    <3>1. q.rows[id] = q.map[Normal[id]] /\ Normal[id] \in known
      BY <2>2, <1>8
    <3>2. Normal[id] \in New(f, shown)
      BY <2>1, <2>2, <1>4, <1>5 DEF New, Known
    <3> QED
      BY <3>1, <3>2, <2>1, <1>8, <1>10 DEF RowOK
  <2>3. CASE id \notin shown
    <3>1. matcher.rows[id] = NotShown
      BY <2>1, <2>3, <1>5, <1>7, <1>13, MapTyped
    <3> QED
      BY <3>1, <2>3, <1>5, <1>8, <1>10 DEF RowOK
  <2> QED
    BY <2>2, <2>3
<1> QED
  BY <1>3, <1>11, <1>12, <1>13

LEMMA DataKeeps ==
    ASSUME MatcherInv, onDataChanged
    PROVE  MatcherInv'
<1> DEFINE m == DataChanged(matcher)
<1>1. /\ inbox # <<>> /\ Head(inbox).kind = "data" /\ inbox' = Tail(inbox)
      /\ UNCHANGED <<book, operations, ready>>
      /\ Becomes(m, {}, {})
  BY DEF onDataChanged, Receive
<1>2. /\ Asks(matcher, m)
      /\ \A id \in Ids : m.map[id] # NotKnown =>
             /\ m.map[id] = Unmatched
             /\ \/ Normal[id] = id /\ (m.requests[id] = 1 \/ (~ready /\ id \in m.pending))
                \/ id \notin Addressable
      /\ \A id \in Ids : RowOK(matcher, id) => RowOK(m, id)
  BY DataChangedEffect
<1> HIDE DEF m
<1>3. \A id \in Ids \ Addressable : UnmatchedOK(Normal[id], 1)
  BY NumbersAre DEF MatcherInv, UnmatchedOK
<1>4. \A id \in Ids : m.map[id] # NotKnown => EntryOK(m, id, 1)
  BY <1>2, <1>3 DEF EntryOK
<1>5. \A id \in Ids \ stale : RowOK(m, id)
  BY <1>2 DEF MatcherInv, RowsOK
<1>6. Unmatchable(m)
  BY <1>2 DEF Unmatchable
<1> QED
  BY <1>1, <1>2, <1>4, <1>5, <1>6, SignalKeeps

-----------------------------------------------------------------------------
(* An answer                                                               *)

\* The matcher without the request that is answered.
LEMMA RequestDone ==
    ASSUME MatcherInv, inbox # <<>>, inbox' = Tail(inbox), UNCHANGED book,
           Head(inbox).kind = "answer", Head(inbox).id \in Ids
    PROVE  LET id == Head(inbox).id
               m0 == [matcher EXCEPT !.requests[id] = @ - 1]
           IN  /\ Sound(m0) /\ m0.started = Zero
               /\ m0.map = matcher.map /\ m0.rows = matcher.rows /\ m0.pending = matcher.pending
               /\ \A n \in Ids \ {id} : m0.requests[n] = matcher.requests[n]
               /\ \A n \in Ids : /\ Cardinality(Answers(n)') \in Nat
                                 /\ m0.requests[n] = asked[n] + Cardinality(Answers(n)')
<1> DEFINE id == Head(inbox).id
           requests == [matcher.requests EXCEPT ![id] = matcher.requests[id] - 1]
           m0 == [matcher EXCEPT !.requests[id] = @ - 1]
<1>1. matcher \in Matchers /\ matcher.started = Zero
  BY DEF MatcherInv, Typing, TypeOK
<1>2. m0 = [matcher EXCEPT !.requests = requests]
  BY <1>1 DEF Matchers
<1>3. ASSUME NEW n \in Ids
      PROVE  /\ Cardinality(Answers(n)') \in Nat
             /\ n # id => matcher.requests[n] = asked[n] + Cardinality(Answers(n)')
             /\ n = id => matcher.requests[n] = 1 /\ 0 = asked[n] + Cardinality(Answers(n)')
  <2> DEFINE before == Cardinality(Answers(n))
             after == Cardinality(Answers(n)')
  <2>1. /\ after \in Nat /\ before \in Nat
        /\ before = after + (IF Head(inbox).kind = "answer" /\ Head(inbox).id = n THEN 1 ELSE 0)
    BY OneAnswerLess DEF MatcherInv
  <2>2. matcher.requests[n] = asked[n] + before /\ matcher.requests[n] \in {0, 1} /\ asked[n] \in Nat
    BY <1>1 DEF MatcherInv, Typing, TypeOK, Matchers
  <2> HIDE DEF before, after
  <2>3. n # id => before = after
    BY <2>1
  <2>4. n = id => before = after + 1
    BY <2>1
  <2>5. n # id => matcher.requests[n] = asked[n] + after
    BY <2>2, <2>3
  <2> HIDE DEF id
  <2>6. n = id => matcher.requests[n] = 1 /\ 0 = asked[n] + after
    BY <2>1, <2>2, <2>4
  <2> QED
    BY <2>1, <2>5, <2>6 DEF after
<1> HIDE DEF id
<1>4. /\ requests \in [Ids -> {0, 1}]
      /\ \A n \in Ids : requests[n] = IF n = id THEN 0 ELSE matcher.requests[n]
  <2>1. id \in Ids /\ matcher.requests \in [Ids -> {0, 1}]
    BY <1>1 DEF id, Matchers
  <2>2. matcher.requests[id] = 1
    BY <1>3, <2>1
  <2> QED
    BY <2>1, <2>2
<1> HIDE DEF requests, m0
<1>5. /\ m0 \in Matchers /\ m0.map = matcher.map /\ m0.rows = matcher.rows
      /\ m0.pending = matcher.pending /\ m0.started = Zero /\ m0.requests = requests
  BY <1>1, <1>2, <1>4 DEF Matchers
<1>6. Sound(m0)
  BY <1>5 DEF Sound, Zero
<1>7. \A n \in Ids : /\ Cardinality(Answers(n)') \in Nat
                     /\ m0.requests[n] = asked[n] + Cardinality(Answers(n)')
  BY <1>3, <1>4, <1>5
<1> QED
  BY <1>4, <1>5, <1>6, <1>7 DEF m0, id

\* What the first message says of the identifier that was asked for.
LEMMA FirstAnswer ==
    ASSUME MatcherInv, inbox # <<>>, Head(inbox).kind = "answer"
    PROVE  LET msg == Head(inbox)
               info == [contact |-> msg.copy.contact, version |-> msg.copy.version]
           IN  /\ msg.id \in Ids /\ info \in Info /\ msg.failed \in BOOLEAN
               /\ Fits(msg.id, msg.copy) => /\ ~msg.failed /\ info # Unmatched /\ msg.id \in Numbers
                                            /\ MatchedOK(msg.id, info, 1)
               /\ ~Fits(msg.id, msg.copy) /\ ~msg.failed => UnmatchedOK(msg.id, 1)
<1> DEFINE msg == Head(inbox)
           info == [contact |-> msg.copy.contact, version |-> msg.copy.version]
<1>1. msg \in Message /\ msg = inbox[1] /\ 1 \in DOMAIN inbox
  BY DEF MatcherInv, Typing
<1>2. /\ msg.id \in Ids /\ msg.failed \in BOOLEAN /\ msg.copy \in Copies \cup {NoCopy}
      /\ msg.failed => msg.copy = NoCopy
  BY <1>1 DEF Message
<1>3. CASE msg.copy = NoCopy
  <2>1. info = Unmatched /\ ~Fits(msg.id, msg.copy)
    BY <1>3 DEF NoCopy, Unmatched, Fits
  <2>2. ~msg.failed => UnmatchedOK(msg.id, 1)
    BY <1>1, <1>3 DEF MatcherInv, AnswersOK, AnswerOK
  <2> QED
    BY <1>2, <2>1, <2>2, Constants
<1>4. CASE msg.copy # NoCopy
  <2>1. msg.copy \in Copies /\ ~msg.failed
    BY <1>2, <1>4
  <2>2. msg.id \in msg.copy.numbers /\ MatchedOK(msg.id, info, 1)
    BY <1>1, <1>4, <2>1 DEF MatcherInv, AnswersOK, AnswerOK
  <2>3. info \in Info /\ info # Unmatched
    BY <2>1, ContactMatcherAssumption DEF Copies, Info, Unmatched
  <2>4. msg.id \in Numbers /\ Fits(msg.id, msg.copy)
    BY <2>1, <2>2 DEF Copies, Numbers, Fits
  <2> QED
    BY <1>2, <2>1, <2>2, <2>3, <2>4
<1> QED
  BY <1>3, <1>4

LEMMA AnsweredKeeps ==
    ASSUME MatcherInv, onRequestStateChanged
    PROVE  MatcherInv'
<1> DEFINE msg == Head(inbox)
           asked_id == msg.id
           info == [contact |-> msg.copy.contact, version |-> msg.copy.version]
           m0 == [matcher EXCEPT !.requests[asked_id] = @ - 1]
           excuses == IF msg.failed THEN {asked_id} ELSE {}
<1>1. /\ inbox # <<>> /\ Head(inbox).kind = "answer" /\ inbox' = Tail(inbox)
      /\ UNCHANGED <<book, operations, ready>>
      /\ Becomes(matchAndUpdate(m0, {asked_id}, msg.copy), excuses, {})
  BY DEF onRequestStateChanged, Receive
<1>2. /\ asked_id \in Ids /\ info \in Info /\ msg.failed \in BOOLEAN
      /\ Fits(asked_id, msg.copy) => /\ ~msg.failed /\ info # Unmatched /\ asked_id \in Numbers
                                     /\ MatchedOK(asked_id, info, 1)
      /\ ~Fits(asked_id, msg.copy) /\ ~msg.failed => UnmatchedOK(asked_id, 1)
  BY <1>1, FirstAnswer
<1>3. /\ Sound(m0) /\ m0.started = Zero
      /\ m0.map = matcher.map /\ m0.rows = matcher.rows /\ m0.pending = matcher.pending
      /\ \A n \in Ids \ {asked_id} : m0.requests[n] = matcher.requests[n]
      /\ \A n \in Ids : /\ Cardinality(Answers(n)') \in Nat
                        /\ m0.requests[n] = asked[n] + Cardinality(Answers(n)')
  BY <1>1, <1>2, RequestDone
<1>4. excuses \in SUBSET Ids /\ {asked_id} \in SUBSET Ids
  BY <1>2
<1>15. info = [contact |-> msg.copy.contact, version |-> msg.copy.version]
  OBVIOUS
<1>18. PICK m : m = matchAndUpdate(m0, {asked_id}, msg.copy)
  OBVIOUS
<1> HIDE DEF m0, info
<1>19. Matched(m0, {asked_id}, msg.copy, info, m)
  <2>1. Sound(m0) /\ {asked_id} \in SUBSET Ids /\ info \in Info
    BY <1>2, <1>3, <1>4
  <2> QED
    BY <2>1, <1>15, <1>18, MatchEffect
<1>5. /\ Asks(m0, m)
      /\ m.requests = m0.requests /\ m.pending = m0.pending
      /\ \A id \in Ids : m.map[id] = IF id \in {asked_id} /\ Fits(id, msg.copy) THEN info ELSE m0.map[id]
      /\ \A id \in Ids : m.rows[id] = IF m0.rows[id] # NotShown /\ Normal[id] \in {asked_id} /\ Fits(Normal[id], msg.copy)
                                      THEN info ELSE m0.rows[id]
  BY <1>19 DEF Matched
<1>6. inbox \in Seq(Message) /\ \A n : UnmatchedOK(n, 0) => UnmatchedOK(n, 1)
  <2>1. inbox \in Seq(Message)
    BY DEF MatcherInv, Typing
  <2> QED
    BY <1>1, <2>1, ByTheFirst DEF UnmatchedOK
<1>7. \A n, i : MatchedOK(n, i, 0) => MatchedOK(n, i, 1)
  BY <1>1, <1>6, ByTheFirst DEF MatchedOK
<1>8. \A id \in Ids \ Addressable : UnmatchedOK(Normal[id], 1)
  BY NumbersAre DEF MatcherInv, UnmatchedOK
<1>9. ASSUME NEW id \in Ids \ excuses, m.map[id] # NotKnown, id \in excused => m.map[id] # matcher.map[id]
      PROVE  EntryOK(m, id, 1)
  <2>1. CASE id = asked_id /\ Fits(id, msg.copy)
    BY <2>1, <1>2, <1>5 DEF EntryOK, Numbers
  <2>2. CASE ~(id = asked_id /\ Fits(id, msg.copy))
    <3>1. m.map[id] = matcher.map[id] /\ id \notin excused
      BY <2>2, <1>3, <1>5, <1>9
    <3>2. EntryOK(matcher, id, 0) /\ Normal[id] \in Ids
      BY <3>1, <1>9, Constants DEF MatcherInv, EntriesOK
    <3>3. CASE m.map[id] # Unmatched
      BY <3>1, <3>2, <3>3, <1>7 DEF EntryOK
    <3>4. CASE m.map[id] = Unmatched /\ id \notin Addressable
      BY <3>2, <3>4, <1>8 DEF EntryOK
    <3>5. CASE m.map[id] = Unmatched /\ id \in Addressable
      <4>1. Normal[id] = id
        BY <3>2, <3>5 DEF EntryOK
      <4>2. CASE id = asked_id
        <5>1. ~msg.failed /\ ~Fits(asked_id, msg.copy)
          BY <2>2, <4>2, <1>9
        <5> QED
          BY <5>1, <4>1, <4>2, <3>5, <1>2 DEF EntryOK
      <4>3. CASE id # asked_id
        BY <3>1, <3>2, <3>5, <4>1, <4>3, <1>3, <1>5, <1>6 DEF EntryOK
      <4> QED
        BY <4>2, <4>3
    <3> QED
      BY <3>3, <3>4, <3>5
  <2> QED
    BY <2>1, <2>2
<1>10. \A id \in Ids \ stale : RowOK(m, id)
  <2> SUFFICES ASSUME NEW id \in Ids \ stale PROVE RowOK(m, id)
    OBVIOUS
  <2>1. RowOK(matcher, id) /\ Normal[id] \in Ids
    BY Constants DEF MatcherInv, RowsOK
  <2> QED
    BY <2>1, <1>3, <1>5 DEF RowOK
<1>11. Unmatchable(m)
  BY <1>2, <1>3, <1>5 DEF Unmatchable, MatcherInv
<1>12. /\ AnswersOK'
       /\ \A id : EntryOK(m, id, 1) => EntryOK(m, id, 0)'
  <2>1. Typing /\ AnswersOK /\ inbox # <<>> /\ inbox' = Tail(inbox) /\ UNCHANGED <<book, ready>>
    BY <1>1 DEF MatcherInv
  <2> QED
    BY <2>1, TailKeepsEntries
<1>16. inbox' \in Seq(Message)
  BY <1>1, TailKeeps DEF MatcherInv
<1>13. ready' \in BOOLEAN /\ operations' \in 0 .. MaxOperations
  BY <1>1 DEF MatcherInv, Typing
<1> HIDE DEF excuses
<1>14. \A id \in Ids \ excuses : /\ m.map[id] # NotKnown
                                 /\ id \in excused => m.map[id] # matcher.map[id]
                                 => EntryOK(m, id, 0)'
  BY <1>9, <1>12
<1>17. /\ MatcherInv /\ Asks(m0, m) /\ Becomes(m, excuses, {}) /\ excuses \in SUBSET Ids
       /\ UNCHANGED book
       /\ \A id \in Ids \ stale : Normal[id] \notin {} => RowOK(m, id)
  BY <1>1, <1>4, <1>5, <1>10, <1>18
<1> HIDE DEF asked_id
<1> QED
  BY <1>3, <1>11, <1>12, <1>13, <1>14, <1>16, <1>17, BecomesKeeps

-----------------------------------------------------------------------------
(* The steps that handle no message                                        *)

LEMMA InboxStays ==
    ASSUME UNCHANGED <<book, inbox>>, AnswersOK
    PROVE  /\ \A n, p : UnmatchedOK(n, p) => UnmatchedOK(n, p)'
           /\ \A n, info, p : MatchedOK(n, info, p) => MatchedOK(n, info, p)'
           /\ \A n : Answers(n)' = Answers(n)
           /\ AnswersOK'
<1>1. \A c, p : /\ Announced(c, p) => Announced(c, p)'
                /\ Corrected(c, p) => Corrected(c, p)'
  BY DEF Announced, Corrected, InBook
<1>2. \A n : WithNumber(n)' = WithNumber(n)
  BY DEF WithNumber, InBook
<1>3. \A n, p : UnmatchedOK(n, p) => UnmatchedOK(n, p)'
  BY <1>1, <1>2 DEF UnmatchedOK
<1>4. \A n, info, p : MatchedOK(n, info, p) => MatchedOK(n, info, p)'
  BY <1>1 DEF MatchedOK
<1>5. \A n : Answers(n)' = Answers(n)
  BY DEF Answers
<1>6. AnswersOK'
  BY <1>3, <1>4 DEF AnswersOK, AnswerOK, NoCopy
<1> QED
  BY <1>3, <1>4, <1>5, <1>6

LEMMA ReaderKeeps ==
    ASSUME MatcherInv, UNCHANGED <<book, inbox>>, operations' \in 0 .. MaxOperations, ready' \in BOOLEAN,
           NEW m0, Sound(m0), m0.started = Zero, m0.requests = matcher.requests,
           NEW m, Asks(m0, m), ready' = ready \/ m.pending = {},
           NEW excuses \in SUBSET Ids, NEW silent, Becomes(m, excuses, silent),
           \A id \in Ids \ excuses : /\ m.map[id] # NotKnown
                                     /\ id \in excused => m.map[id] # matcher.map[id]
                                     => EntryOK(m, id, 0),
           \A id \in Ids \ stale : Normal[id] \notin silent => RowOK(m, id),
           Unmatchable(m)
    PROVE  MatcherInv'
<1>1. /\ \A n, p : UnmatchedOK(n, p) => UnmatchedOK(n, p)'
      /\ \A n, info, p : MatchedOK(n, info, p) => MatchedOK(n, info, p)'
      /\ \A n : Answers(n)' = Answers(n)
      /\ AnswersOK'
  BY InboxStays DEF MatcherInv
<1>2. inbox' \in Seq(Message)
  BY DEF MatcherInv, Typing
<1>3. \A n \in Ids : /\ Cardinality(Answers(n)') \in Nat
                     /\ m0.requests[n] = asked[n] + Cardinality(Answers(n)')
  <2> TAKE n \in Ids
  <2>1. Cardinality(Answers(n)) \in Nat
    BY AnswersFinite DEF MatcherInv, Typing
  <2>2. matcher.requests[n] = asked[n] + Cardinality(Answers(n))
    BY DEF MatcherInv, Typing, TypeOK
  <2>3. Answers(n)' = Answers(n)
    BY <1>1
  <2> QED
    BY <2>1, <2>2, <2>3
<1>4. \A id : EntryOK(m, id, 0) => EntryOK(m, id, 0)'
  BY <1>1 DEF EntryOK
<1>5. \A id \in Ids \ excuses : /\ m.map[id] # NotKnown
                                /\ id \in excused => m.map[id] # matcher.map[id]
                                => EntryOK(m, id, 0)'
  BY <1>4
<1> QED
  BY <1>1, <1>2, <1>3, <1>5, BecomesKeeps

\* An entry that stays as it was.
LEMMA EntryKept ==
    ASSUME MatcherInv, NEW m, NEW id \in Ids \ excused, m.map[id] = matcher.map[id], m.map[id] # NotKnown,
           matcher.requests[Normal[id]] = 1 => m.requests[Normal[id]] = 1,
           \/ id \in matcher.pending => id \in m.pending
           \/ m.requests[Normal[id]] = 1
           \/ id \notin Addressable
    PROVE  EntryOK(m, id, 0)
<1>1. EntryOK(matcher, id, 0)
  BY DEF MatcherInv, EntriesOK
<1>2. id \notin Addressable => UnmatchedOK(Normal[id], 0)
  BY NumbersAre DEF MatcherInv, UnmatchedOK
<1> QED
  BY <1>1, <1>2 DEF EntryOK

LEMMA ReadyKeeps ==
    ASSUME MatcherInv, onSetupReady
    PROVE  MatcherInv'
<1>1. PICK r : r = requestContactInfo(matcher, matcher.pending)
  OBVIOUS
<1>2. PICK m : m = [r EXCEPT !.pending = {}]
  OBVIOUS
<1>3. PICK m0 : m0 = [matcher EXCEPT !.pending = {}]
  OBVIOUS
<1>4. /\ Becomes(m, {}, {}) /\ ready' = TRUE
      /\ UNCHANGED <<book, inbox, operations>>
  BY <1>1, <1>2 DEF onSetupReady
<1>5. Sound(matcher) /\ matcher.started = Zero /\ matcher \in Matchers /\ matcher.pending \in SUBSET Ids
  BY MapTyped DEF Sound, Matchers
<1>6. /\ Asks(matcher, r)
      /\ r.rows = matcher.rows
      /\ \A id \in matcher.pending \cap Addressable : r.requests[Normal[id]] = 1
      /\ \A id \in Ids : r.map[id] = IF id \in matcher.pending \ Addressable THEN Unmatched ELSE matcher.map[id]
  BY <1>1, <1>5, RequestEffect
<1>7. r \in Matchers /\ Sound(r)
  BY <1>6 DEF Asks, Sound
<1>8. /\ m \in Matchers /\ m.pending = {} /\ m.map = r.map /\ m.rows = r.rows
      /\ m.requests = r.requests /\ m.started = r.started
  BY <1>2, <1>7 DEF Matchers
<1>9. /\ m0 \in Matchers /\ m0.pending = {} /\ m0.requests = matcher.requests /\ m0.started = matcher.started
  BY <1>3, <1>5 DEF Matchers
<1>10. Sound(m0) /\ Sound(m)
  BY <1>5, <1>7, <1>8, <1>9 DEF Sound
<1>11. Asks(m0, m)
  BY <1>6, <1>8, <1>9, <1>10 DEF Asks
<1>12. \A id \in Ids \ Addressable : UnmatchedOK(Normal[id], 0)
  BY NumbersAre DEF MatcherInv, UnmatchedOK
<1>13. ASSUME NEW id \in Ids \ {}, m.map[id] # NotKnown, id \in excused => m.map[id] # matcher.map[id]
       PROVE  EntryOK(m, id, 0)
  <2>1. CASE id \in matcher.pending \ Addressable
    <3>1. m.map[id] = Unmatched
      BY <2>1, <1>6, <1>8
    <3> QED
      BY <2>1, <3>1, <1>12 DEF EntryOK
  <2>2. CASE id \notin matcher.pending \ Addressable
    <3>1. m.map[id] = matcher.map[id] /\ id \notin excused
      BY <2>2, <1>6, <1>8, <1>13
    <3>2. matcher.requests[Normal[id]] = 1 => m.requests[Normal[id]] = 1
      BY <1>6, <1>8, Constants DEF Asks
    <3>3. \/ id \in matcher.pending => id \in m.pending
          \/ m.requests[Normal[id]] = 1
          \/ id \notin Addressable
      BY <1>6, <1>8
    <3> QED
      BY <3>1, <3>2, <3>3, <1>13, EntryKept
  <2> QED
    BY <2>1, <2>2
<1>14. ASSUME NEW id \in Ids \ stale PROVE RowOK(m, id)
  <2>1. RowOK(matcher, id) /\ Normal[id] \in Ids
    BY Constants DEF MatcherInv, RowsOK
  <2>2. CASE m.map[Normal[id]] = matcher.map[Normal[id]]
    BY <2>1, <2>2, <1>6, <1>8 DEF RowOK
  <2>3. CASE m.map[Normal[id]] # matcher.map[Normal[id]]
    <3>1. Normal[id] \notin Addressable /\ m.map[Normal[id]] = Unmatched
      BY <2>1, <2>3, <1>6, <1>8
    <3>2. matcher.map[Normal[id]] = NotKnown
      BY <2>1, <2>3, <3>1 DEF MatcherInv, Unmatchable, Numbers
    <3>3. matcher.rows[id] = NotShown
      BY <2>1, <3>2, MapTyped
    <3> QED
      BY <3>3, <1>6, <1>8 DEF RowOK
  <2> QED
    BY <2>2, <2>3
<1>15. Unmatchable(m)
  BY <1>6, <1>8 DEF Unmatchable, MatcherInv
<1>16. ready' \in BOOLEAN /\ operations' \in 0 .. MaxOperations
  BY <1>4 DEF MatcherInv, Typing
<1>17. m0.started = Zero
  BY <1>5, <1>9
<1> QED
  BY <1>4, <1>8, <1>9, <1>10, <1>11, <1>13, <1>14, <1>15, <1>16, <1>17, ReaderKeeps

LEMMA ShowKeeps ==
    ASSUME MatcherInv, ShowRow
    PROVE  MatcherInv'
<1>1. PICK shown \in Ids : Becomes(Read(matcher, {shown}), {}, {})
  BY DEF ShowRow
<1>2. PICK m : m = Read(matcher, {shown})
  OBVIOUS
<1>3. Becomes(m, {}, {}) /\ UNCHANGED <<book, inbox, operations, ready>>
  BY <1>1, <1>2 DEF ShowRow
<1>4. Sound(matcher) /\ matcher.started = Zero /\ {shown} \in SUBSET Ids
  BY MapTyped
<1>5. /\ Asks(matcher, m)
      /\ \A id \in Ids : m.map[id] = IF id \in New(matcher, {shown}) THEN Unmatched ELSE matcher.map[id]
      /\ \A id \in Ids : m.rows[id] = IF id \in {shown} THEN m.map[Normal[id]] ELSE matcher.rows[id]
      /\ \A n \in New(matcher, {shown}) : /\ Normal[n] = n
                                          /\ \/ m.requests[n] = 1
                                             \/ ~ready /\ n \in m.pending
                                             \/ n \notin Addressable
  BY <1>2, <1>4, ReadEffect
<1>6. \A id \in Ids \ Addressable : UnmatchedOK(Normal[id], 0)
  BY NumbersAre DEF MatcherInv, UnmatchedOK
<1>7. \A n \in New(matcher, {shown}) : matcher.map[n] = NotKnown
  BY DEF New, Known
<1>8. ASSUME NEW id \in Ids \ {}, m.map[id] # NotKnown, id \in excused => m.map[id] # matcher.map[id]
      PROVE  EntryOK(m, id, 0)
  <2>1. CASE id \in New(matcher, {shown})
    BY <2>1, <1>5, <1>6 DEF EntryOK
  <2>2. CASE id \notin New(matcher, {shown})
    <3>1. m.map[id] = matcher.map[id] /\ id \notin excused
      BY <2>2, <1>5, <1>8
    <3>2. matcher.requests[Normal[id]] = 1 => m.requests[Normal[id]] = 1
      BY <1>5, Constants DEF Asks
    <3>3. id \in matcher.pending => id \in m.pending
      BY <1>5 DEF Asks
    <3> QED
      BY <3>1, <3>2, <3>3, <1>8, EntryKept
  <2> QED
    BY <2>1, <2>2
<1>9. ASSUME NEW id \in Ids \ stale PROVE RowOK(m, id)
  <2>1. RowOK(matcher, id) /\ Normal[id] \in Ids
    BY Constants DEF MatcherInv, RowsOK
  <2>2. CASE id = shown
    BY <2>2, <1>5 DEF RowOK
  <2>3. CASE id # shown /\ Normal[id] \in New(matcher, {shown})
    <3>1. matcher.rows[id] = NotShown
      BY <2>1, <2>3, <1>7, MapTyped
    <3> QED
      BY <2>3, <3>1, <1>5 DEF RowOK
  <2>4. CASE id # shown /\ Normal[id] \notin New(matcher, {shown})
    <3>1. m.rows[id] = matcher.rows[id] /\ m.map[Normal[id]] = matcher.map[Normal[id]]
      BY <2>1, <2>4, <1>5
    <3> QED
      BY <2>1, <3>1 DEF RowOK
  <2> QED
    BY <2>2, <2>3, <2>4
<1>10. Unmatchable(m)
  BY <1>5 DEF Unmatchable, MatcherInv
<1>11. ready' \in BOOLEAN /\ ready' = ready /\ operations' \in 0 .. MaxOperations
  BY <1>3 DEF MatcherInv, Typing
<1> QED
  BY <1>3, <1>4, <1>5, <1>8, <1>9, <1>10, <1>11, ReaderKeeps

\* One entry is set.
SetTo(m, set, info) ==
    /\ Asks(matcher, m)
    /\ m.rows = matcher.rows /\ m.requests = matcher.requests /\ m.pending = matcher.pending
    /\ \A id \in Ids : m.map[id] = IF id = set THEN info ELSE matcher.map[id]

LEMMA SetEffect ==
    ASSUME MatcherInv, NEW set \in Ids, NEW info \in Info, NEW m, m = [matcher EXCEPT !.map[set] = info]
    PROVE  SetTo(m, set, info)
<1> DEFINE map == [matcher.map EXCEPT ![set] = info]
<1>1. matcher \in Matchers /\ Sound(matcher)
  BY MapTyped DEF Sound
<1>2. m = [matcher EXCEPT !.map = map]
  BY <1>1 DEF Matchers
<1>3. /\ map \in [Ids -> Info \cup {NotKnown}]
      /\ \A id \in Ids : map[id] = IF id = set THEN info ELSE matcher.map[id]
  <2>1. matcher.map \in [Ids -> Info \cup {NotKnown}]
    BY <1>1 DEF Matchers
  <2> QED
    BY <2>1
<1> HIDE DEF map
<1>4. /\ m \in Matchers /\ m.map = map /\ m.rows = matcher.rows /\ m.requests = matcher.requests
      /\ m.started = matcher.started /\ m.pending = matcher.pending
  BY <1>1, <1>2, <1>3 DEF Matchers
<1>5. \A n \in Ids : m.requests[n] \in {0, 1} /\ m.started[n] \in {0, 1}
  BY <1>4 DEF Matchers
<1>6. Asks(matcher, m)
  BY <1>1, <1>4, <1>5 DEF Asks, Sound
<1> QED
  BY <1>3, <1>4, <1>6 DEF SetTo

\* A step that sets one entry, and its rows or not.
LEMMA SetKeeps ==
    ASSUME MatcherInv, UNCHANGED <<book, inbox, ready>>, operations' \in 0 .. MaxOperations,
           NEW set \in Ids, NEW info \in Info, NEW m, Asks(matcher, m),
           m.requests = matcher.requests, m.pending = matcher.pending,
           \A id \in Ids : m.map[id] = IF id = set THEN info ELSE matcher.map[id],
           info = Unmatched \/ set \in Numbers,
           NEW excuses \in SUBSET {set}, NEW silent, Becomes(m, excuses, silent),
           set \notin excuses => EntryOK(m, set, 0),
           \A id \in Ids \ stale : \/ Normal[id] \in silent
                                   \/ Normal[id] = set /\ RowOK(m, id)
                                   \/ Normal[id] # set /\ m.rows[id] = matcher.rows[id]
    PROVE  MatcherInv'
<1>1. Sound(matcher) /\ matcher.started = Zero
  BY MapTyped
<1>2. ASSUME NEW id \in Ids \ excuses, m.map[id] # NotKnown, id \in excused => m.map[id] # matcher.map[id]
      PROVE  EntryOK(m, id, 0)
  <2>1. CASE id = set
    BY <2>1, <1>2
  <2>2. CASE id # set
    <3>1. m.map[id] = matcher.map[id] /\ id \notin excused
      BY <2>2, <1>2
    <3> QED
      BY <3>1, <1>2, EntryKept
  <2> QED
    BY <2>1, <2>2
<1>3. ASSUME NEW id \in Ids \ stale, Normal[id] \notin silent PROVE RowOK(m, id)
  <2>1. RowOK(matcher, id) /\ Normal[id] \in Ids
    BY Constants DEF MatcherInv, RowsOK
  <2> QED
    BY <2>1, <1>3 DEF RowOK
<1>4. Unmatchable(m)
  BY DEF Unmatchable, MatcherInv
<1>5. ready' \in BOOLEAN /\ ready' = ready /\ excuses \in SUBSET Ids
  BY DEF MatcherInv, Typing
<1> QED
  BY <1>1, <1>2, <1>3, <1>4, <1>5, ReaderKeeps

\* What the book would answer now.
LEMMA FoundIs ==
    ASSUME Typing, NEW id \in Ids, NEW copy \in Found(id)
    PROVE  \/ copy = NoCopy /\ WithNumber(id) = {}
           \/ \E c \in WithNumber(id) : c \in Contacts /\ InBook(c) /\ copy = Copy(c)
BY DEF Found, WithNumber

LEMMA SynchronousKeeps ==
    ASSUME MatcherInv, SynchronousInfo
    PROVE  MatcherInv'
<1>7. PICK set \in Ids \ Known(matcher) : \E copy \in Found(set) :
          /\ Normal[set] = set
          /\ IF ready /\ Fits(set, copy)
             THEN Becomes(matchAndUpdate(matcher, {set}, copy), {}, {})
             ELSE Becomes([matcher EXCEPT !.map[set] = Unmatched], IF ready THEN {} ELSE {set}, {})
          /\ UNCHANGED <<book, inbox, operations, ready>>
  BY DEF SynchronousInfo
<1>1. PICK copy \in Found(set) :
          /\ Normal[set] = set
          /\ IF ready /\ Fits(set, copy)
             THEN Becomes(matchAndUpdate(matcher, {set}, copy), {}, {})
             ELSE Becomes([matcher EXCEPT !.map[set] = Unmatched], IF ready THEN {} ELSE {set}, {})
          /\ UNCHANGED <<book, inbox, operations, ready>>
  BY <1>7
<1>2. Typing /\ operations' \in 0 .. MaxOperations
  BY <1>1 DEF MatcherInv, Typing
<1>3. \A id \in Ids \ stale : RowOK(matcher, id) /\ Normal[id] \in Ids
  BY Constants DEF MatcherInv, RowsOK
<1>4. \A id \in Ids \ stale : Normal[id] = set => matcher.rows[id] = NotShown
  BY <1>1, <1>3, MapTyped DEF Known
<1>5. CASE ready /\ Fits(set, copy)
  <2>1. PICK c \in Contacts : InBook(c) /\ copy = Copy(c)
    BY <1>2, <1>5, FoundIs DEF Fits, NoCopy
  <2>2. PICK info : info = [contact |-> copy.contact, version |-> copy.version]
    OBVIOUS
  <2>3. info \in Info /\ info # Unmatched /\ set \in Numbers /\ MatchedOK(set, info, 0)
    BY <1>2, <1>5, <2>1, <2>2, CopyOf
  <2>4. PICK m : m = matchAndUpdate(matcher, {set}, copy)
    OBVIOUS
  <2>5. Matched(matcher, {set}, copy, info, m)
    <3>1. Sound(matcher) /\ {set} \in SUBSET Ids
      BY MapTyped
    <3> QED
      BY <2>2, <2>3, <2>4, <3>1, MatchEffect
  <2>6. /\ Asks(matcher, m) /\ m.requests = matcher.requests /\ m.pending = matcher.pending
        /\ \A id \in Ids : m.map[id] = IF id = set THEN info ELSE matcher.map[id]
        /\ \A id \in Ids : m.rows[id] = IF matcher.rows[id] # NotShown /\ Normal[id] = set
                                        THEN info ELSE matcher.rows[id]
    BY <2>5, <1>5 DEF Matched
  <2>7. Becomes(m, {}, {})
    BY <1>1, <1>5, <2>4
  <2>8. EntryOK(m, set, 0)
    BY <1>1, <2>3, <2>6 DEF EntryOK
  <2>9. \A id \in Ids \ stale : \/ Normal[id] \in {}
                                \/ Normal[id] = set /\ RowOK(m, id)
                                \/ Normal[id] # set /\ m.rows[id] = matcher.rows[id]
    BY <1>4, <2>6 DEF RowOK
  <2> QED
    BY <1>1, <1>2, <2>3, <2>6, <2>7, <2>8, <2>9, SetKeeps
<1>6. CASE ~(ready /\ Fits(set, copy))
  <2>7. PICK info \in Info : info = Unmatched
    BY Constants
  <2>1. PICK m : m = [matcher EXCEPT !.map[set] = info]
    OBVIOUS
  <2>2. PICK excuses : excuses = IF ready THEN {} ELSE {set}
    OBVIOUS
  <2>3. Becomes(m, excuses, {}) /\ excuses \in SUBSET {set}
    BY <1>1, <1>6, <2>1, <2>2, <2>7
  <2>4. /\ Asks(matcher, m)
        /\ m.rows = matcher.rows /\ m.requests = matcher.requests /\ m.pending = matcher.pending
        /\ \A id \in Ids : m.map[id] = IF id = set THEN info ELSE matcher.map[id]
    <3>1. SetTo(m, set, info)
      BY <2>1, <2>7, SetEffect
    <3> QED
      BY <3>1 DEF SetTo
  <2>5. ASSUME set \notin excuses PROVE EntryOK(m, set, 0)
    <3>1. ~Fits(set, copy)
      BY <1>6, <2>2, <2>5
    <3>2. ASSUME NEW c \in Contacts, InBook(c), c \in WithNumber(set) PROVE Fits(set, Copy(c))
      <4>1. \A id \in Ids : c \in WithNumber(Normal[id]) => Fits(Normal[id], Copy(c))
        BY <1>2, <3>2, CopyOf
      <4> QED
        BY <1>1, <3>2, <4>1
    <3>3. WithNumber(set) = {}
      BY <1>2, <3>1, <3>2, FoundIs
    <3> QED
      BY <1>1, <2>4, <2>7, <3>3 DEF EntryOK, UnmatchedOK
  <2>6. \A id \in Ids \ stale : \/ Normal[id] \in {}
                                \/ Normal[id] = set /\ RowOK(m, id)
                                \/ Normal[id] # set /\ m.rows[id] = matcher.rows[id]
    BY <1>4, <2>4 DEF RowOK
  <2> QED
    BY <1>1, <1>2, <2>3, <2>4, <2>5, <2>6, <2>7, SetKeeps
<1> QED
  BY <1>5, <1>6

LEMMA WatchKeeps ==
    ASSUME MatcherInv, watchIdentifier
    PROVE  MatcherInv'
<1>9. PICK set \in Ids : \E info \in {Unmatched} \cup
                {[contact |-> c, version |-> book[c].version] : c \in WithNumber(set)} :
          Becomes([matcher EXCEPT !.map[set] = info], {set}, {set})
  BY DEF watchIdentifier
<1>1. PICK info \in {Unmatched} \cup {[contact |-> c, version |-> book[c].version] : c \in WithNumber(set)} :
          Becomes([matcher EXCEPT !.map[set] = info], {set}, {set})
  BY <1>9
<1>2. UNCHANGED <<book, inbox, ready>> /\ operations' \in 0 .. MaxOperations /\ Typing
  BY ContactMatcherAssumption DEF watchIdentifier, Operate, MatcherInv, Typing
<1>3. info \in Info /\ (info = Unmatched \/ set \in Numbers)
  <2>1. CASE info = Unmatched
    BY <2>1, Constants
  <2>2. CASE info # Unmatched
    <3>1. PICK c \in WithNumber(set) : info = [contact |-> c, version |-> book[c].version]
      BY <2>2
    <3> QED
      BY <3>1, <1>2, NumbersAre DEF WithNumber
  <2> QED
    BY <2>1, <2>2
<1>4. PICK m : m = [matcher EXCEPT !.map[set] = info]
  OBVIOUS
<1>5. /\ Asks(matcher, m)
      /\ m.rows = matcher.rows /\ m.requests = matcher.requests /\ m.pending = matcher.pending
      /\ \A id \in Ids : m.map[id] = IF id = set THEN info ELSE matcher.map[id]
  <2>1. SetTo(m, set, info)
    BY <1>3, <1>4, SetEffect
  <2> QED
    BY <2>1 DEF SetTo
<1>6. Becomes(m, {set}, {set}) /\ {set} \in SUBSET {set}
  BY <1>1, <1>4
<1>7. \A id \in Ids \ stale : \/ Normal[id] \in {set}
                              \/ Normal[id] = set /\ RowOK(m, id)
                              \/ Normal[id] # set /\ m.rows[id] = matcher.rows[id]
  BY <1>5
<1>8. set \notin {set} => EntryOK(m, set, 0)
  OBVIOUS
<1> QED
  BY <1>2, <1>3, <1>5, <1>6, <1>7, <1>8, SetKeeps

-----------------------------------------------------------------------------
(* The address book                                                        *)

\* Messages that come to the end of the inbox leave all that was in order.
LEMMA BookStepKeeps ==
    ASSUME MatcherInv, NEW msg \in Message, inbox' = Append(inbox, msg),
           UNCHANGED <<ready, matcher, excused, stale>>,
           book' \in [Contacts -> [version : 0 .. MaxOperations + 1, numbers : SUBSET Numbers]],
           asked' \in [Ids -> Nat], operations' \in 0 .. MaxOperations,
           \A id \in Ids : asked[id] = asked'[id] + (IF msg.kind = "answer" /\ msg.id = id THEN 1 ELSE 0),
           \A n : \A p \in 0 .. Len(inbox) : UnmatchedOK(n, p) => UnmatchedOK(n, p)',
           \A n : \A info \in Info \ {Unmatched} : \A p \in 0 .. Len(inbox) :
               MatchedOK(n, info, p) => MatchedOK(n, info, p)',
           NEW last, last = Len(inbox) + 1,
           msg.kind = "answer" /\ ~msg.failed => AnswerOK(last)'
    PROVE  MatcherInv'
<1>1. /\ inbox' \in Seq(Message) /\ DOMAIN inbox' = 1 .. Len(inbox) + 1
      /\ DOMAIN inbox = 1 .. Len(inbox) /\ Len(inbox) \in Nat
      /\ \A i \in DOMAIN inbox : i \in DOMAIN inbox' /\ inbox'[i] = inbox[i]
      /\ inbox'[Len(inbox) + 1] = msg
  BY AppendKeeps DEF MatcherInv
<1>2. \A id \in Ids : matcher.requests[id] = asked'[id] + Cardinality(Answers(id)')
  <2> TAKE id \in Ids
  <2> DEFINE before == Cardinality(Answers(id))
             after == Cardinality(Answers(id)')
  <2>1. /\ after \in Nat /\ before \in Nat
        /\ after = before + (IF msg.kind = "answer" /\ msg.id = id THEN 1 ELSE 0)
    BY OneAnswerMore DEF MatcherInv
  <2>2. matcher.requests[id] = asked[id] + before /\ asked'[id] \in Nat
    BY DEF MatcherInv, Typing, TypeOK
  <2>3. asked[id] = asked'[id] + (IF msg.kind = "answer" /\ msg.id = id THEN 1 ELSE 0)
    OBVIOUS
  <2> HIDE DEF before, after
  <2>4. matcher.requests[id] = asked'[id] + after
    BY <2>1, <2>2, <2>3
  <2> QED
    BY <2>4 DEF after
<1>3. TypeOK'
  BY <1>2 DEF MatcherInv, Typing, TypeOK
<1>4. Typing'
  BY <1>1, <1>3 DEF MatcherInv, Typing
<1>5. EntriesOK'
  <2> SUFFICES ASSUME NEW id \in Ids \ excused, matcher.map[id] # NotKnown PROVE EntryOK(matcher, id, 0)'
    BY DEF EntriesOK
  <2>1. EntryOK(matcher, id, 0)
    BY DEF MatcherInv, EntriesOK
  <2>2. 0 \in 0 .. Len(inbox) /\ matcher.map[id] \in Info
    BY <1>1, MapTyped
  <2> QED
    BY <2>1, <2>2 DEF EntryOK
<1>6. AnswersOK'
  <2> SUFFICES ASSUME NEW p \in DOMAIN inbox', inbox'[p].kind = "answer", ~inbox'[p].failed
               PROVE  AnswerOK(p)'
    BY DEF AnswersOK
  <2>1. CASE p = last
    BY <2>1, <1>1
  <2>2. CASE p # last
    <3>1. p \in DOMAIN inbox /\ p \in 0 .. Len(inbox) /\ inbox'[p] = inbox[p]
      BY <2>2, <1>1
    <3>2. AnswerOK(p)
      BY <3>1 DEF MatcherInv, AnswersOK
    <3>3. inbox[p] \in Message
      BY <3>1 DEF MatcherInv, Typing
    <3>4. CASE inbox[p].copy = NoCopy
      BY <3>1, <3>2, <3>4 DEF AnswerOK, NoCopy
    <3>5. CASE inbox[p].copy # NoCopy
      <4>1. inbox[p].copy \in Copies
        BY <3>1, <3>3, <3>5 DEF Message
      <4>2. [contact |-> inbox[p].copy.contact, version |-> inbox[p].copy.version] \in Info \ {Unmatched}
        BY <4>1, ContactMatcherAssumption DEF Copies, Info, Unmatched
      <4> QED
        BY <3>1, <3>2, <3>5, <4>2 DEF AnswerOK, NoCopy
    <3> QED
      BY <3>4, <3>5
  <2> QED
    BY <2>1, <2>2
<1>7. RowsOK' /\ Unmatchable(matcher)'
  BY DEF MatcherInv, RowsOK, RowOK, Unmatchable, Numbers
<1> QED
  BY <1>4, <1>5, <1>6, <1>7 DEF MatcherInv

\* A contact changes: what was true of it is announced as changed.
LEMMA OperationKeeps ==
    ASSUME MatcherInv, NEW c \in Contacts, NEW entry, NEW kind \in {"added", "changed", "removed"},
           BookOperation(c, entry, kind),
           entry \in [version : 0 .. MaxOperations + 1, numbers : SUBSET Numbers],
           \/ kind = "added" /\ ~InBook(c)
           \/ kind = "changed" /\ entry.version # 0
           \/ kind = "removed" /\ entry.version = 0
    PROVE  MatcherInv'
<1>1. /\ book' = [book EXCEPT ![c] = entry]
      /\ operations' = operations + 1 /\ operations < MaxOperations
      /\ UNCHANGED <<asked, ready, matcher, excused, stale>>
  BY DEF BookOperation, Operate
<1>2. PICK msg : /\ msg = [kind |-> kind, contact |-> c] \/ msg = [kind |-> "data"]
                 /\ inbox' = Append(inbox, msg)
  BY DEF BookOperation
<1>3. msg \in Message /\ msg.kind # "answer"
  <2>1. CASE msg = [kind |-> kind, contact |-> c]
    <3>1. msg \in [kind : {"added", "changed", "removed"}, contact : Contacts] /\ msg.kind # "answer"
      BY <2>1
    <3> QED
      BY <3>1 DEF Message
  <2>2. CASE msg = [kind |-> "data"]
    <3>1. msg \in [kind : {"data"}] /\ msg.kind # "answer"
      BY <2>2
    <3> QED
      BY <3>1 DEF Message
  <2> QED
    BY <1>2, <2>1, <2>2
<1>4. Typing /\ book \in [Contacts -> [version : 0 .. MaxOperations + 1, numbers : SUBSET Numbers]]
  BY DEF MatcherInv, Typing
<1>5. /\ \A x \in Contacts : book'[x] = IF x = c THEN entry ELSE book[x]
      /\ book' \in [Contacts -> [version : 0 .. MaxOperations + 1, numbers : SUBSET Numbers]]
  BY <1>1, <1>4
<1>6. operations' \in 0 .. MaxOperations /\ asked' \in [Ids -> Nat]
  BY <1>1, <1>4, ContactMatcherAssumption DEF Typing
<1>7. /\ DOMAIN inbox' = 1 .. Len(inbox) + 1 /\ Len(inbox) \in Nat
      /\ inbox'[Len(inbox) + 1] = msg
      /\ \A x, p : Announced(x, p) => Announced(x, p)'
      /\ \A x, p : Corrected(x, p) /\ (InBook(x) => InBook(x)') => Corrected(x, p)'
  BY <1>2, <1>3, <1>4, AppendKeeps
<1>8. \A x \in Contacts \ {c} : /\ InBook(x)' = InBook(x)
                               /\ \A n : x \in WithNumber(n)' <=> x \in WithNumber(n)
  BY <1>5 DEF InBook, WithNumber
<1>9. InBook(c)' = (entry.version # 0)
  BY <1>5 DEF InBook
<1>10. ASSUME NEW p \in 0 .. Len(inbox)
       PROVE  /\ kind \in {"added", "changed"} => Announced(c, p)'
              /\ kind \in {"changed", "removed"} => Corrected(c, p)'
              /\ msg.kind = "data" => Corrected(c, p)'
  <2>1. Len(inbox) + 1 \in DOMAIN inbox' /\ Len(inbox) + 1 > p
    BY <1>7
  <2>2. \/ inbox'[Len(inbox) + 1].kind = "data"
        \/ inbox'[Len(inbox) + 1].kind = kind /\ inbox'[Len(inbox) + 1].contact = c
    BY <1>2, <1>7
  <2>3. kind \in {"added", "changed"} => Announced(c, p)'
    BY <2>1, <2>2 DEF Announced
  <2>4. kind = "changed" => InBook(c)'
    BY <1>9
  <2>5. kind \in {"changed", "removed"} => Corrected(c, p)'
    BY <2>1, <2>2, <2>4 DEF Corrected
  <2>6. msg.kind = "data" => Corrected(c, p)'
    BY <2>1, <1>7 DEF Corrected
  <2> QED
    BY <2>3, <2>5, <2>6
<1>11. ASSUME NEW n, NEW p \in 0 .. Len(inbox), UnmatchedOK(n, p) PROVE UnmatchedOK(n, p)'
  <2> SUFFICES ASSUME NEW x \in WithNumber(n)' PROVE Announced(x, p)'
    BY DEF UnmatchedOK
  <2>1. x \in Contacts /\ InBook(x)'
    BY DEF WithNumber
  <2>2. CASE x = c
    BY <2>1, <2>2, <1>9, <1>10
  <2>3. CASE x # c
    BY <2>1, <2>3, <1>7, <1>8, <1>11 DEF UnmatchedOK
  <2> QED
    BY <2>2, <2>3
<1>12. ASSUME NEW n, NEW info \in Info \ {Unmatched}, NEW p \in 0 .. Len(inbox), MatchedOK(n, info, p)
       PROVE  MatchedOK(n, info, p)'
  <2>1. info.contact \in Contacts /\ info.version \in 1 .. MaxOperations + 1
    BY DEF Info
  <2>2. CASE info.contact # c
    <3>1. book'[info.contact] = book[info.contact] /\ InBook(info.contact)' = InBook(info.contact)
      BY <2>1, <2>2, <1>5, <1>8
    <3> QED
      BY <3>1, <1>7, <1>12 DEF MatchedOK
  <2>3. CASE info.contact = c /\ kind \in {"changed", "removed"}
    BY <2>3, <1>10 DEF MatchedOK
  <2>4. CASE info.contact = c /\ kind = "added"
    <3>1. ~InBook(c)
      BY <2>4
    <3>2. Corrected(c, p)
      BY <2>1, <2>4, <3>1, <1>12 DEF MatchedOK, InBook
    <3> QED
      BY <2>4, <3>1, <3>2, <1>7 DEF MatchedOK
  <2> QED
    BY <2>2, <2>3, <2>4
<1>13. \A id \in Ids : asked[id] = asked'[id] + (IF msg.kind = "answer" /\ msg.id = id THEN 1 ELSE 0)
  <2>1. \A id \in Ids : asked[id] \in Nat /\ asked'[id] = asked[id]
    BY <1>1, <1>4 DEF Typing
  <2> QED
    BY <2>1, <1>3
<1> QED
  <2>1. PICK last : last = Len(inbox) + 1
    OBVIOUS
  <2> QED
    BY <1>1, <1>2, <1>3, <1>5, <1>6, <1>11, <1>12, <1>13, <2>1, BookStepKeeps

LEMMA ContactsKeep ==
    ASSUME MatcherInv, AddContact \/ ChangeContact \/ RemoveContact
    PROVE  MatcherInv'
<1>1. operations \in 0 .. MaxOperations /\ MaxOperations \in Nat
  BY ContactMatcherAssumption DEF MatcherInv, Typing
<1>2. CASE AddContact
  <2>1. PICK c \in Contacts, numbers \in SUBSET Numbers :
            ~InBook(c) /\ BookOperation(c, [version |-> operations + 2, numbers |-> numbers], "added")
    BY <1>2 DEF AddContact
  <2>2. operations + 2 \in 0 .. MaxOperations + 1
    BY <1>1, <2>1 DEF BookOperation, Operate
  <2> QED
    BY <2>1, <2>2, OperationKeeps
<1>3. CASE ChangeContact
  <2>1. PICK c \in Contacts, numbers \in SUBSET Numbers :
            InBook(c) /\ BookOperation(c, [version |-> operations + 2, numbers |-> numbers], "changed")
    BY <1>3 DEF ChangeContact
  <2>2. operations + 2 \in 0 .. MaxOperations + 1 /\ operations + 2 # 0
    BY <1>1, <2>1 DEF BookOperation, Operate
  <2> QED
    BY <2>1, <2>2, OperationKeeps
<1>4. CASE RemoveContact
  <2>1. PICK c \in Contacts : BookOperation(c, [version |-> 0, numbers |-> {}], "removed")
    BY <1>4 DEF RemoveContact
  <2>2. 0 \in 0 .. MaxOperations + 1
    BY <1>1
  <2> QED
    BY <2>1, <2>2, OperationKeeps
<1> QED
  BY <1>2, <1>3, <1>4

\* A question is answered: what holds of the book stays.
LEMMA AnswerGiven ==
    ASSUME MatcherInv, NEW n \in Ids, asked[n] > 0, asked' = [asked EXCEPT ![n] = @ - 1],
           NEW msg \in Message, msg.kind = "answer", msg.id = n, inbox' = Append(inbox, msg),
           UNCHANGED <<book, ready, matcher, excused, stale>>, operations' \in 0 .. MaxOperations,
           msg.failed \/ \/ msg.copy = NoCopy /\ WithNumber(n) = {}
                         \/ \E c \in WithNumber(n) : c \in Contacts /\ InBook(c) /\ msg.copy = Copy(c)
    PROVE  MatcherInv'
<1>1. Typing /\ asked \in [Ids -> Nat]
      /\ book \in [Contacts -> [version : 0 .. MaxOperations + 1, numbers : SUBSET Numbers]]
  BY DEF MatcherInv, Typing
<1>2. asked' \in [Ids -> Nat]
  BY <1>1
<1>3. \A id \in Ids : asked[id] = asked'[id] + (IF msg.kind = "answer" /\ msg.id = id THEN 1 ELSE 0)
  <2>1. \A id \in Ids : asked[id] \in Nat
    BY <1>1
  <2> QED
    BY <2>1, <1>1
<1>9. PICK last : last = Len(inbox) + 1
  OBVIOUS
<1>4. /\ Len(inbox) \in Nat /\ inbox'[last] = msg
      /\ \A x, p : Announced(x, p) => Announced(x, p)'
      /\ \A x, p : Corrected(x, p) /\ (InBook(x) => InBook(x)') => Corrected(x, p)'
  BY <1>1, <1>9, AppendKeeps
<1>5. \A x : InBook(x)' = InBook(x) /\ WithNumber(x)' = WithNumber(x)
  BY DEF InBook, WithNumber
<1>6. \A x : \A p \in 0 .. Len(inbox) : UnmatchedOK(x, p) => UnmatchedOK(x, p)'
  BY <1>4, <1>5 DEF UnmatchedOK
<1>7. \A x : \A info \in Info \ {Unmatched} : \A p \in 0 .. Len(inbox) :
          MatchedOK(x, info, p) => MatchedOK(x, info, p)'
  BY <1>4, <1>5 DEF MatchedOK
<1>8. ASSUME ~msg.failed PROVE AnswerOK(last)'
  <2>1. CASE msg.copy = NoCopy /\ WithNumber(n) = {}
    <3>1. UnmatchedOK(n, last)'
      BY <2>1, <1>5 DEF UnmatchedOK
    <3> QED
      BY <2>1, <3>1, <1>4 DEF AnswerOK, NoCopy
  <2>2. ASSUME NEW c \in WithNumber(n), InBook(c), msg.copy = Copy(c), c \in Contacts
        PROVE  AnswerOK(last)'
    <3>1. /\ msg.copy.contact = c /\ msg.copy.version = book[c].version /\ msg.copy.numbers = book[c].numbers
          /\ n \in book[c].numbers
      BY <2>2 DEF Copy, WithNumber
    <3>2. msg.copy # NoCopy
      BY <3>1 DEF NoCopy
    <3> QED
      BY <3>1, <3>2, <1>4 DEF AnswerOK, MatchedOK, NoCopy
  <2> QED
    BY <2>1, <2>2, <1>8
<1> QED
  BY <1>1, <1>2, <1>3, <1>6, <1>7, <1>8, <1>9, BookStepKeeps

LEMMA AnswersKeep ==
    ASSUME MatcherInv, Answer \/ AnswerFails
    PROVE  MatcherInv'
<1>1. Typing /\ operations \in 0 .. MaxOperations /\ MaxOperations \in Nat
  BY ContactMatcherAssumption DEF MatcherInv, Typing
<1>2. CASE Answer
  <2>1. PICK n \in Ids : \E copy \in Found(n) :
            /\ asked[n] > 0
            /\ asked' = [asked EXCEPT ![n] = @ - 1]
            /\ inbox' = Append(inbox, [kind |-> "answer", id |-> n, copy |-> copy, failed |-> FALSE])
    BY <1>2 DEF Answer
  <2>2. PICK copy \in Found(n) :
            /\ asked[n] > 0
            /\ asked' = [asked EXCEPT ![n] = @ - 1]
            /\ inbox' = Append(inbox, [kind |-> "answer", id |-> n, copy |-> copy, failed |-> FALSE])
    BY <2>1
  <2>3. UNCHANGED <<book, operations, ready, matcher, excused, stale>>
    BY <1>2 DEF Answer
  <2>4. \/ copy = NoCopy /\ WithNumber(n) = {}
        \/ \E c \in WithNumber(n) : c \in Contacts /\ InBook(c) /\ copy = Copy(c)
    BY <1>1, FoundIs
  <2>5. copy \in Copies \cup {NoCopy}
    BY <1>1, <2>4, NumbersAre
  <2>6. PICK msg : msg = [kind |-> "answer", id |-> n, copy |-> copy, failed |-> FALSE]
    OBVIOUS
  <2>7. msg \in Message /\ msg.kind = "answer" /\ msg.id = n /\ msg.copy = copy
    BY <2>5, <2>6 DEF Message
  <2> QED
    BY <1>1, <2>2, <2>3, <2>4, <2>6, <2>7, AnswerGiven
<1>3. CASE AnswerFails
  <2>1. PICK n \in Ids :
            /\ asked[n] > 0
            /\ asked' = [asked EXCEPT ![n] = @ - 1]
            /\ inbox' = Append(inbox, [kind |-> "answer", id |-> n, copy |-> NoCopy, failed |-> TRUE])
    BY <1>3 DEF AnswerFails
  <2>2. UNCHANGED <<book, ready, matcher, excused, stale>> /\ operations' \in 0 .. MaxOperations
    BY <1>1, <1>3 DEF AnswerFails, Operate
  <2>3. PICK msg : msg = [kind |-> "answer", id |-> n, copy |-> NoCopy, failed |-> TRUE]
    OBVIOUS
  <2>4. msg \in Message /\ msg.kind = "answer" /\ msg.id = n /\ msg.failed
    BY <2>3 DEF Message
  <2> QED
    BY <2>1, <2>2, <2>3, <2>4, AnswerGiven
<1> QED
  BY <1>2, <1>3

-----------------------------------------------------------------------------
LEMMA MatcherInvInit == Init => MatcherInv
<1> SUFFICES ASSUME Init PROVE MatcherInv
  OBVIOUS
<1>1. inbox = <<>> /\ inbox \in Seq(Message) /\ DOMAIN inbox = {}
  BY DEF Init
<1>2. /\ matcher = [map |-> [id \in Ids |-> NotKnown], requests |-> Zero, started |-> Zero,
                    pending |-> {}, rows |-> [id \in Ids |-> NotShown]]
      /\ asked = Zero /\ Zero \in [Ids -> {0, 1}] /\ \A id \in Ids : Zero[id] = 0
  BY DEF Init, Zero
<1>3. matcher \in Matchers
  BY <1>2 DEF Matchers
<1>4. \A id : Cardinality(Answers(id)) = 0
  <2>1. \A id : Answers(id) = {}
    BY <1>1 DEF Answers
  <2> QED
    BY <2>1, FS_EmptySet
<1>5. TypeOK
  BY <1>2, <1>3, <1>4 DEF TypeOK, Init
<1>6. /\ matcher.started = Zero /\ asked \in [Ids -> Nat]
      /\ operations \in 0 .. MaxOperations /\ ready \in BOOLEAN
  <2>1. matcher.started = Zero /\ asked \in [Ids -> Nat]
    BY <1>2
  <2>2. operations = 0 /\ ready = FALSE /\ MaxOperations \in Nat
    BY ContactMatcherAssumption DEF Init
  <2>3. operations \in 0 .. MaxOperations
    BY <2>2
  <2>4. ready \in BOOLEAN
    BY <2>2
  <2> QED
    BY <2>1, <2>3, <2>4
<1>7. book \in [Contacts -> [version : 0 .. MaxOperations + 1, numbers : SUBSET Numbers]]
  <2>1. /\ [version : {0}, numbers : {{}}] \subseteq [version : 0 .. MaxOperations + 1, numbers : SUBSET Numbers]
        /\ [version : {1}, numbers : SUBSET Numbers] \subseteq
               [version : 0 .. MaxOperations + 1, numbers : SUBSET Numbers]
    BY ContactMatcherAssumption
  <2> QED
    BY <2>1 DEF Init
<1>8. Typing
  BY <1>1, <1>5, <1>6, <1>7 DEF Typing
<1>9. EntriesOK /\ RowsOK /\ Unmatchable(matcher)
  BY <1>2 DEF EntriesOK, RowsOK, RowOK, Unmatchable
<1>10. AnswersOK
  BY <1>1 DEF AnswersOK
<1> QED
  BY <1>8, <1>9, <1>10 DEF MatcherInv

LEMMA MatcherInvNext == MatcherInv /\ [Next]_vars => MatcherInv'
<1> SUFFICES ASSUME MatcherInv, [Next]_vars PROVE MatcherInv'
  OBVIOUS
<1>1. CASE Book
  BY <1>1, ContactsKeep, AnswersKeep DEF Book
<1>2. CASE Reader
  BY <1>2, ReadyKeeps, ShowKeeps, SynchronousKeeps, WatchKeeps DEF Reader
<1>3. CASE Handlers
  BY <1>3, AddedKeeps, ChangedKeeps, RemovedKeeps, DataKeeps, AnsweredKeeps DEF Handlers
<1>4. CASE UNCHANGED vars
  <2>1. /\ UNCHANGED <<book, asked, inbox, operations, ready, matcher, excused, stale>>
        /\ Typing /\ EntriesOK /\ AnswersOK /\ RowsOK /\ Unmatchable(matcher)
    BY <1>4 DEF vars, MatcherInv
  <2>2. /\ \A n, p : UnmatchedOK(n, p) => UnmatchedOK(n, p)'
        /\ \A n, info, p : MatchedOK(n, info, p) => MatchedOK(n, info, p)'
        /\ \A n : Answers(n)' = Answers(n)
        /\ AnswersOK'
    BY <2>1, InboxStays
  <2>3. TypeOK'
    BY <2>1, <2>2 DEF Typing, TypeOK
  <2>4. Typing'
    BY <2>1, <2>3 DEF Typing
  <2>5. EntriesOK'
    BY <2>1, <2>2 DEF EntriesOK, EntryOK
  <2>6. RowsOK' /\ Unmatchable(matcher)'
    BY <2>1 DEF RowsOK, RowOK, Unmatchable, Numbers
  <2> QED
    BY <2>2, <2>4, <2>5, <2>6 DEF MatcherInv
<1> QED
  BY <1>1, <1>2, <1>3, <1>4 DEF Next

LEMMA MatcherInvAlways == Spec => []MatcherInv
BY MatcherInvInit, MatcherInvNext, PTL DEF Spec

\* With nothing to come, an entry that was asked for is right.
LEMMA QuietIsRight ==
    ASSUME MatcherInv, Quiet, NEW id \in Ids \ excused, matcher.map[id] # NotKnown
    PROVE  RightAbout(id, matcher.map[id])
<1> DEFINE info == matcher.map[id]
<1>1. DOMAIN inbox = {} /\ ready /\ asked = Zero
  BY DEF Quiet
<1>2. \A c, p : ~Announced(c, p) /\ ~Corrected(c, p)
  BY <1>1 DEF Announced, Corrected
<1>3. EntryOK(matcher, id, 0) /\ Normal[id] \in Ids /\ info \in Info
  BY MapTyped, Constants DEF MatcherInv, EntriesOK
<1>4. matcher.requests[Normal[id]] = 0
  <2>1. Answers(Normal[id]) = {}
    BY <1>1 DEF Answers
  <2>2. Cardinality(Answers(Normal[id])) = 0
    BY <2>1, FS_EmptySet
  <2> QED
    BY <1>1, <1>3, <2>2 DEF MatcherInv, Typing, TypeOK, Zero
<1>5. CASE info = Unmatched
  <2>1. UnmatchedOK(Normal[id], 0)
    BY <1>1, <1>3, <1>4, <1>5 DEF EntryOK
  <2>2. WithNumber(Normal[id]) = {}
    BY <1>2, <2>1 DEF UnmatchedOK
  <2> QED
    BY <1>5, <2>2 DEF RightAbout
<1>6. CASE info # Unmatched
  <2>1. info.version = book[info.contact].version /\ Normal[id] \in book[info.contact].numbers
    BY <1>2, <1>3, <1>6 DEF EntryOK, MatchedOK
  <2>2. info.contact \in Contacts /\ info.version \in 1 .. MaxOperations + 1
        /\ info = [contact |-> info.contact, version |-> info.version]
    BY <1>3, <1>6 DEF Info
  <2>3. info.contact \in WithNumber(Normal[id])
    BY <2>1, <2>2 DEF WithNumber, InBook
  <2> QED
    BY <2>1, <2>2, <2>3 DEF RightAbout
<1> QED
  BY <1>5, <1>6

\* The matcher is well-formed, never has two requests for one identifier, and is
\* right about every identifier that was asked for once the book is quiet:
\* onContactsAdded, onContactsChanged, onContactsRemoved, onDataChanged and
\* onRequestStateChanged lose no change, whatever order they come in.
THEOREM MatcherAlwaysFollowsBook == Spec => []MatcherFollowsBook
<1>1. MatcherInv => MatcherFollowsBook
  BY QuietIsRight DEF MatcherInv, Typing, MatcherFollowsBook, EntriesMatchBook
<1> QED
  BY <1>1, MatcherInvAlways, PTL

\* And so is every row: contactInfoChanged and onContactInfoChanged reach the
\* rows of all identifiers with the same normal form.
THEOREM ShownAlwaysMatchesBook == Spec => []ShownMatchesBook
<1>1. MatcherInv => ShownMatchesBook
  <2> SUFFICES ASSUME MatcherInv, Quiet, NEW id \in Ids, Normal[id] \notin excused, id \notin stale,
                      matcher.rows[id] # NotShown
               PROVE  RightAbout(id, matcher.rows[id])
    BY DEF ShownMatchesBook
  <2>1. Normal[id] \in Ids /\ Normal[Normal[id]] = Normal[id]
    BY Constants
  <2>2. matcher.rows[id] = matcher.map[Normal[id]]
    BY DEF MatcherInv, RowsOK, RowOK
  <2>3. matcher.map[Normal[id]] # NotKnown
    BY <2>2, MapTyped, Constants, ContactMatcherAssumption
  <2>4. RightAbout(Normal[id], matcher.map[Normal[id]])
    BY <2>1, <2>3, QuietIsRight
  <2> QED
    BY <2>1, <2>2, <2>4 DEF RightAbout
<1> QED
  BY <1>1, MatcherInvAlways, PTL
=============================
