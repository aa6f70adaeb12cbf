------------------------- MODULE MessageFlowProofs -------------------------
(***************************************************************************)
(* Proofs about MessageFlow, for any messages, replacements and reports,   *)
(* any number of faults and any use of the client.                         *)
(***************************************************************************)
EXTENDS MessageFlow, SequenceTheorems, TLAPS

-----------------------------------------------------------------------------
(* The inductive invariant                                                 *)

Items == [token : Messages, id : Nat, status : Reports \cup {NoMessage}, rescued : BOOLEAN]
Copies == [token : Messages, status : Statuses]

\* TypeOK, and what Telepathy and the client keep in their sequences. A message
\* is the first item about it, its reports follow.
Known(item, counts) ==
    /\ item.id \in 1 .. counts[item.token]
    /\ item.status = NoMessage <=> item.id = 1

QueueType == /\ queue \in Seq(Items)
             /\ inbox \in Seq(Items)
             /\ arrived \in [Messages -> Nat]
             /\ \A i \in DOMAIN queue : Known(queue[i], arrived)
             /\ \A i \in DOMAIN inbox : Known(inbox[i], arrived)

DaemonType == /\ observer \in {"down", "preparing", "observing"}
              /\ superseding \in Messages \cup {NoMessage}
              /\ superseding # NoMessage => observer = "observing"
              /\ inbox # <<>> => observer = "observing"
              /\ rows \in [Messages -> Rows \cup {NoRow}]
              /\ settled \in [Messages -> SUBSET Nat]
              /\ removed \subseteq Messages /\ disturbed \subseteq Messages

ClientType == /\ markQueue \in Seq(Copies)
              /\ \A i, j \in DOMAIN markQueue :
                    markQueue[i].token = markQueue[j].token => i = j
              /\ markTimer \in BOOLEAN /\ threadTimer \in BOOLEAN /\ threadCalls \in Nat

Types == QueueType /\ DaemonType /\ ClientType

\* What arrived is settled, or it waits: in the daemon when that observes, in
\* the channel's queue otherwise.
Holds(seq, m, k) == \E i \in DOMAIN seq : seq[i].token = m /\ seq[i].id = k

NothingLost ==
    \A m \in Messages : \A k \in 1 .. arrived[m] :
        \/ k \in settled[m]
        \/ Holds(inbox, m, k)
        \/ observer # "observing" /\ Holds(queue, m, k)

\* An event is stored, or was removed, only after its message was handled, and
\* the client only has copies of such events.
StoredWereSettled ==
    /\ \A m \in Messages : rows[m] # NoRow \/ m \in removed => 1 \in settled[m]
    /\ superseding # NoMessage => 1 \in settled[superseding]
    /\ \A i \in DOMAIN markQueue : 1 \in settled[markQueue[i].token]

IsFirst(item, m) == item.token = m /\ item.id = 1

Replaces(item, old) == /\ item.token \in Received /\ item.id = 1
                       /\ old = Supersedes[item.token] /\ old # NoMessage

\* A message is handled after the one it replaces: that one is settled or waits
\* before it, or was acknowledged while it waits in the daemon.
Before(seq, j, m) == \E i \in 1 .. j - 1 : IsFirst(seq[i], m)
Acknowledged(m) == \E i \in DOMAIN inbox : IsFirst(inbox[i], m) /\ inbox[i] \notin ToSet(queue)

InboxInOrder ==
    \A j \in DOMAIN inbox, old \in Messages :
        Replaces(inbox[j], old) => 1 \in settled[old] \/ Before(inbox, j, old)

QueueInOrder ==
    \A j \in DOMAIN queue, old \in Messages :
        Replaces(queue[j], old) =>
            1 \in settled[old] \/ Before(queue, j, old) \/ Acknowledged(old)

QueuedOnce ==
    \A i, j \in DOMAIN queue :
        queue[i].token = queue[j].token /\ queue[i].id = queue[j].id => i = j

InOrder == InboxInOrder /\ QueueInOrder /\ QueuedOnce

-----------------------------------------------------------------------------
(* Sequences and the record of what is settled                             *)

LEMMA RemoveAtProperties ==
    ASSUME NEW S, NEW s \in Seq(S), NEW i \in 1 .. Len(s)
    PROVE  /\ RemoveAt(s, i) \in Seq(S)
           /\ Len(RemoveAt(s, i)) = Len(s) - 1
           /\ \A j \in 1 .. i - 1 : RemoveAt(s, i)[j] = s[j]
           /\ \A j \in i .. Len(s) - 1 : RemoveAt(s, i)[j] = s[j + 1]
<1> DEFINE before == SubSeq(s, 1, i - 1)
           after == SubSeq(s, i + 1, Len(s))
<1>1. Len(s) \in Nat /\ \A j \in 1 .. Len(s) : s[j] \in S
  OBVIOUS
<1>2. /\ before \in Seq(S) /\ Len(before) = i - 1
      /\ \A j \in 1 .. i - 1 : before[j] = s[j]
  <2>1. i - 1 \in Int /\ 1 \in Int /\ \A j \in 1 .. i - 1 : s[j] \in S
    BY <1>1
  <2> QED
    BY <1>1, <2>1, SubSeqProperties
<1>3. /\ after \in Seq(S) /\ Len(after) = Len(s) - i
      /\ \A j \in 1 .. Len(s) - i : after[j] = s[j + i]
  <2>1. i + 1 \in Int /\ Len(s) \in Int /\ \A j \in i + 1 .. Len(s) : s[j] \in S
    BY <1>1
  <2> HIDE DEF after
  <2>2. /\ after \in Seq(S)
        /\ Len(after) = IF i + 1 <= Len(s) THEN Len(s) - (i + 1) + 1 ELSE 0
        /\ \A j \in 1 .. Len(s) - (i + 1) + 1 : after[j] = s[(i + 1) + j - 1]
    BY <2>1, SubSeqProperties DEF after
  <2> QED
    BY <1>1, <2>2
<1> HIDE DEF before, after
<1>4. RemoveAt(s, i) = before \o after
  BY DEF RemoveAt, before, after
<1>5. /\ before \o after \in Seq(S)
      /\ Len(before \o after) = Len(s) - 1
      /\ \A j \in 1 .. Len(s) - 1 :
            (before \o after)[j] = IF j <= i - 1 THEN before[j] ELSE after[j - (i - 1)]
  <2>1. /\ before \o after \in Seq(S)
        /\ Len(before \o after) = Len(before) + Len(after)
        /\ \A j \in 1 .. Len(before) + Len(after) :
              (before \o after)[j] = IF j <= Len(before) THEN before[j]
                                     ELSE after[j - Len(before)]
    BY <1>2, <1>3, ConcatProperties
  <2>2. Len(before) + Len(after) = Len(s) - 1
    BY <1>1, <1>2, <1>3
  <2>3. Len(before) = i - 1
    BY <1>2
  <2> QED
    BY <2>1, <2>2, <2>3
<1>6. \A j \in 1 .. i - 1 : j \in 1 .. Len(s) - 1 /\ j <= i - 1
  BY <1>1
<1>7. \A j \in i .. Len(s) - 1 :
          /\ j \in 1 .. Len(s) - 1 /\ ~(j <= i - 1)
          /\ j - (i - 1) \in 1 .. Len(s) - i /\ (j - (i - 1)) + i = j + 1
  BY <1>1
<1> QED
  BY <1>2, <1>3, <1>4, <1>5, <1>6, <1>7

LEMMA SettledGrows ==
    ASSUME settled \in [Messages -> SUBSET Nat], NEW items \in SUBSET Items, Settled(items)
    PROVE  /\ settled' \in [Messages -> SUBSET Nat]
           /\ \A m \in Messages : settled[m] \subseteq settled'[m]
           /\ \A item \in items : item.id \in settled'[item.token]
BY DEF Settled, Items

LEMMA HeadOfInbox ==
    ASSUME inbox \in Seq(Items), inbox # <<>>
    PROVE  /\ Head(inbox) = inbox[1] /\ Head(inbox) \in Items
           /\ Tail(inbox) \in Seq(Items)
           /\ \A i \in DOMAIN Tail(inbox) :
                 i \in Nat \ {0} /\ i + 1 \in DOMAIN inbox /\ Tail(inbox)[i] = inbox[i + 1]
           /\ \A i \in DOMAIN inbox \ {1} :
                 i \in Nat /\ i - 1 \in DOMAIN Tail(inbox) /\ inbox[i] = Tail(inbox)[i - 1]
BY HeadTailProperties

LEMMA Appended ==
    ASSUME NEW seq \in Seq(Items), NEW item \in Items
    PROVE  /\ Append(seq, item) \in Seq(Items)
           /\ Len(seq) + 1 \in DOMAIN Append(seq, item)
           /\ Append(seq, item)[Len(seq) + 1] = item
           /\ \A i \in DOMAIN seq : i \in 1 .. Len(seq) /\ i \in DOMAIN Append(seq, item)
                                    /\ Append(seq, item)[i] = seq[i]
           /\ \A i \in DOMAIN Append(seq, item) : i \in DOMAIN seq \/ i = Len(seq) + 1
           /\ Len(seq) \in Nat /\ DOMAIN seq = 1 .. Len(seq)
BY AppendProperties

LEMMA AppendToSet ==
    ASSUME NEW seq \in Seq(Items), NEW item \in Items
    PROVE  ToSet(Append(seq, item)) = ToSet(seq) \cup {item}
<1>1. ASSUME NEW i \in DOMAIN Append(seq, item)
      PROVE  Append(seq, item)[i] \in ToSet(seq) \cup {item}
  BY Appended DEF ToSet
<1>2. \A i \in DOMAIN seq : seq[i] \in ToSet(Append(seq, item))
  BY Appended DEF ToSet
<1>3. item \in ToSet(Append(seq, item))
  BY Appended DEF ToSet
<1> QED
  BY <1>1, <1>2, <1>3 DEF ToSet

LEMMA AppendHolds ==
    ASSUME NEW seq \in Seq(Items), NEW item \in Items, NEW m, NEW k
    PROVE  /\ Holds(seq, m, k) => Holds(Append(seq, item), m, k)
           /\ Holds(Append(seq, item), item.token, item.id)
BY Appended DEF Holds

LEMMA AppendBefore ==
    ASSUME NEW seq \in Seq(Items), NEW item \in Items, NEW m
    PROVE  /\ \A j \in DOMAIN seq : Before(seq, j, m) => Before(Append(seq, item), j, m)
           /\ Holds(seq, m, 1) => Before(Append(seq, item), Len(seq) + 1, m)
<1>1. ASSUME NEW j \in DOMAIN seq, Before(seq, j, m)
      PROVE  Before(Append(seq, item), j, m)
  <2>1. PICK i \in 1 .. j - 1 : IsFirst(seq[i], m)
    BY <1>1 DEF Before
  <2>2. i \in DOMAIN seq
    BY Appended
  <2> QED
    BY <2>1, <2>2, Appended DEF Before
<1>2. ASSUME Holds(seq, m, 1)
      PROVE  Before(Append(seq, item), Len(seq) + 1, m)
  <2>1. PICK i \in DOMAIN seq : IsFirst(seq[i], m)
    BY <1>2 DEF Holds, IsFirst
  <2>2. i \in 1 .. (Len(seq) + 1) - 1 /\ Append(seq, item)[i] = seq[i]
    BY Appended
  <2> QED
    BY <2>1, <2>2 DEF Before
<1> QED
  BY <1>1, <1>2

-----------------------------------------------------------------------------
(* Items wait in order until they are settled                              *)

Waiting == QueueType /\ DaemonType /\ NothingLost /\ InOrder

\* What the daemon handles is settled.
LEMMA HandledWaits ==
    ASSUME Waiting, inbox # <<>>, inbox' = Tail(inbox), Settled({Head(inbox)}),
           UNCHANGED <<queue, arrived, observer>>
    PROVE  QueueType' /\ NothingLost' /\ InOrder'
<1>0. /\ inbox \in Seq(Items) /\ \A i \in DOMAIN inbox : Known(inbox[i], arrived)
      /\ settled \in [Messages -> SUBSET Nat]
  BY DEF Waiting, QueueType, DaemonType
<1>1. /\ \A m \in Messages : settled[m] \subseteq settled'[m]
      /\ inbox[1].id \in settled'[inbox[1].token]
  BY <1>0, HeadOfInbox, SettledGrows
<1>2. /\ inbox' \in Seq(Items)
      /\ \A i \in DOMAIN inbox' :
            i \in Nat \ {0} /\ i + 1 \in DOMAIN inbox /\ inbox'[i] = inbox[i + 1]
      /\ \A i \in DOMAIN inbox \ {1} :
            i \in Nat /\ i - 1 \in DOMAIN inbox' /\ inbox[i] = inbox'[i - 1]
  BY <1>0, HeadOfInbox
<1>3. QueueType'
  BY <1>0, <1>2 DEF Waiting, QueueType, Known
<1>4. NothingLost'
  <2> SUFFICES ASSUME NEW m \in Messages, NEW k \in 1 .. arrived[m], k \notin settled'[m]
               PROVE  Holds(inbox', m, k) \/ (observer # "observing" /\ Holds(queue, m, k))
    BY DEF NothingLost
  <2>1. Holds(inbox, m, k) \/ (observer # "observing" /\ Holds(queue, m, k))
    BY <1>1 DEF Waiting, NothingLost
  <2>2. Holds(inbox, m, k) => Holds(inbox', m, k)
    <3>1. ASSUME NEW i \in DOMAIN inbox, inbox[i].token = m, inbox[i].id = k
          PROVE  Holds(inbox', m, k)
      <4>1. i # 1
        BY <1>1, <3>1
      <4> QED
        BY <1>2, <3>1, <4>1 DEF Holds
    <3> QED
      BY <3>1 DEF Holds
  <2> QED
    BY <2>1, <2>2
<1>5. InboxInOrder'
  <2> SUFFICES ASSUME NEW j \in DOMAIN inbox', NEW old \in Messages, Replaces(inbox'[j], old),
                      1 \notin settled'[old]
               PROVE  Before(inbox', j, old)
    BY DEF InboxInOrder
  <2>1. j \in Nat \ {0} /\ j + 1 \in DOMAIN inbox /\ Replaces(inbox[j + 1], old)
        /\ 1 \notin settled[old]
    BY <1>1, <1>2
  <2>2. PICK i \in 1 .. (j + 1) - 1 : IsFirst(inbox[i], old)
    BY <2>1 DEF Waiting, InOrder, InboxInOrder, Before
  <2>3. i # 1
    BY <1>1, <2>2 DEF IsFirst
  <2>4. i \in DOMAIN inbox
    BY <1>0, <2>1, <2>2
  <2>5. i - 1 \in 1 .. j - 1 /\ inbox'[i - 1] = inbox[i]
    BY <1>2, <2>1, <2>2, <2>3, <2>4
  <2> QED
    BY <2>2, <2>5 DEF Before
<1>6. QueueInOrder'
  <2> SUFFICES ASSUME NEW j \in DOMAIN queue, NEW old \in Messages, Replaces(queue[j], old),
                      1 \notin settled'[old], ~Before(queue, j, old)
               PROVE  Acknowledged(old)'
    BY DEF QueueInOrder
  <2>1. PICK i \in DOMAIN inbox : IsFirst(inbox[i], old) /\ inbox[i] \notin ToSet(queue)
    BY <1>1 DEF Waiting, InOrder, QueueInOrder, Acknowledged
  <2>2. i # 1
    BY <1>1, <2>1 DEF IsFirst
  <2> QED
    BY <1>2, <2>1, <2>2 DEF Acknowledged
<1>7. InOrder'
  BY <1>5, <1>6 DEF Waiting, InOrder, QueuedOnce
<1> QED
  BY <1>3, <1>4, <1>7

\* An item that arrives is new; what it replaces has arrived before.
LEMMA ArrivedWaits ==
    ASSUME Waiting, NEW item \in Items, item.id = arrived[item.token] + 1,
           item.status = NoMessage <=> item.id = 1,
           \A old \in Messages : Replaces(item, old) => arrived[old] > 0,
           Arrive(item)
    PROVE  QueueType' /\ NothingLost' /\ InOrder'
<1>0. /\ queue \in Seq(Items) /\ inbox \in Seq(Items) /\ arrived \in [Messages -> Nat]
      /\ \A i \in DOMAIN queue : Known(queue[i], arrived)
      /\ \A i \in DOMAIN inbox : Known(inbox[i], arrived)
      /\ item.token \in Messages
  BY DEF Waiting, QueueType, Items
<1>a. /\ queue' = Append(queue, item) /\ arrived' = [arrived EXCEPT ![item.token] = item.id]
      /\ inbox' = IF observer = "observing" THEN Append(inbox, item) ELSE inbox
      /\ observer' = observer /\ settled' = settled
  BY DEF Arrive
<1>1. /\ arrived' \in [Messages -> Nat] /\ item.id = arrived'[item.token]
      /\ \A m \in Messages : /\ arrived[m] \in Nat /\ arrived'[m] \in Nat
                             /\ arrived[m] <= arrived'[m]
                             /\ m # item.token => arrived'[m] = arrived[m]
      /\ arrived'[item.token] = arrived[item.token] + 1
  BY <1>0, <1>a DEF Items
<1>2. Known(item, arrived') /\ \A old \in Items : Known(old, arrived) => Known(old, arrived')
  <2>1. Known(item, arrived')
    BY <1>0, <1>1 DEF Known
  <2>2. \A old \in Items : old.token \in Messages
    BY DEF Items
  <2>3. \A m \in Messages : 1 .. arrived[m] \subseteq 1 .. arrived'[m]
    BY <1>1
  <2> QED
    BY <2>1, <2>2, <2>3 DEF Known
<1>3. QueueType'
  <2>0. ASSUME NEW seq \in Seq(Items), \A i \in DOMAIN seq : Known(seq[i], arrived)
        PROVE  /\ \A i \in DOMAIN seq : Known(seq[i], arrived')
               /\ \A i \in DOMAIN Append(seq, item) : Known(Append(seq, item)[i], arrived')
    <3>1. \A i \in DOMAIN seq : Known(seq[i], arrived')
      BY <1>2, <2>0
    <3> QED
      BY <1>2, <3>1, Appended
  <2>1. \A i \in DOMAIN queue' : Known(queue'[i], arrived')
    BY <1>0, <1>a, <2>0
  <2>2. \A i \in DOMAIN inbox' : Known(inbox'[i], arrived')
    BY <1>0, <1>a, <2>0
  <2>3. queue' \in Seq(Items) /\ inbox' \in Seq(Items)
    BY <1>0, <1>a, Appended
  <2> QED
    BY <1>1, <2>1, <2>2, <2>3 DEF QueueType
<1>4. ASSUME NEW m, NEW k
      PROVE  /\ Holds(inbox, m, k) => Holds(inbox', m, k)
             /\ Holds(queue, m, k) => Holds(queue', m, k)
  BY <1>0, <1>a, AppendHolds
<1>5. NothingLost'
  <2> SUFFICES ASSUME NEW m \in Messages, NEW k \in 1 .. arrived'[m], k \notin settled[m]
               PROVE  Holds(inbox', m, k) \/ (observer # "observing" /\ Holds(queue', m, k))
    BY <1>a DEF NothingLost
  <2>1. CASE k \in 1 .. arrived[m]
    <3>1. Holds(inbox, m, k) \/ (observer # "observing" /\ Holds(queue, m, k))
      BY <2>1 DEF Waiting, NothingLost
    <3> QED
      BY <1>4, <3>1
  <2>2. CASE m = item.token /\ k = item.id
    BY <1>0, <1>a, <2>2, AppendHolds
  <2> QED
    BY <1>1, <2>1, <2>2
\* The new item is in neither sequence, and what it replaces is in one of them.
<1>6. ~ Holds(queue, item.token, item.id) /\ ~ Holds(inbox, item.token, item.id)
  BY <1>0, <1>1 DEF Holds, Known
<1>7. ASSUME NEW old \in Messages, Replaces(item, old), 1 \notin settled[old]
      PROVE  Holds(inbox, old, 1) \/ (observer # "observing" /\ Holds(queue, old, 1))
  <2>1. 1 \in 1 .. arrived[old]
    BY <1>1, <1>7
  <2> QED
    BY <1>7, <2>1 DEF Waiting, NothingLost
<1>8. InboxInOrder'
  <2> SUFFICES ASSUME NEW j \in DOMAIN inbox', NEW old \in Messages, Replaces(inbox'[j], old),
                      1 \notin settled[old]
               PROVE  Before(inbox', j, old)
    BY <1>a DEF InboxInOrder
  <2>1. CASE j \in DOMAIN inbox
    <3>1. Replaces(inbox[j], old)
      BY <1>0, <1>a, <2>1, Appended
    <3>2. Before(inbox, j, old)
      BY <2>1, <3>1 DEF Waiting, InOrder, InboxInOrder
    <3> QED
      BY <1>0, <1>a, <2>1, <3>2, AppendBefore
  <2>2. CASE j \notin DOMAIN inbox
    <3>1. /\ j = Len(inbox) + 1 /\ inbox'[j] = item
          /\ inbox' = Append(inbox, item) /\ observer = "observing"
      BY <1>0, <1>a, <2>2, Appended
    <3>2. Holds(inbox, old, 1)
      BY <1>7, <3>1
    <3> QED
      BY <1>0, <3>1, <3>2, AppendBefore
  <2> QED
    BY <2>1, <2>2
<1>9. QueueInOrder'
  <2> SUFFICES ASSUME NEW j \in DOMAIN queue', NEW old \in Messages, Replaces(queue'[j], old),
                      1 \notin settled[old], ~Before(queue', j, old)
               PROVE  Acknowledged(old)'
    BY <1>a DEF QueueInOrder
  <2>1. ASSUME NEW i \in DOMAIN inbox, IsFirst(inbox[i], old), inbox[i] \notin ToSet(queue)
        PROVE  Acknowledged(old)'
    <3>1. inbox[i] # item
      BY <1>6 DEF Holds
    <3>2. i \in DOMAIN inbox' /\ inbox'[i] = inbox[i]
      BY <1>0, <1>a, Appended
    <3>3. inbox'[i] \notin ToSet(queue')
      BY <1>0, <1>a, <2>1, <3>1, <3>2, AppendToSet
    <3> QED
      BY <2>1, <3>2, <3>3 DEF Acknowledged
  <2>2. CASE j \in DOMAIN queue
    <3>1. Replaces(queue[j], old) /\ ~Before(queue, j, old)
      BY <1>0, <1>a, <2>2, Appended, AppendBefore
    <3>2. Acknowledged(old)
      BY <2>2, <3>1 DEF Waiting, InOrder, QueueInOrder
    <3> QED
      BY <2>1, <3>2 DEF Acknowledged
  <2>3. CASE j \notin DOMAIN queue
    <3>1. j = Len(queue) + 1 /\ queue'[j] = item
      BY <1>0, <1>a, <2>3, Appended
    <3>2. ~Holds(queue, old, 1)
      BY <1>0, <1>a, <3>1, AppendBefore
    <3>3. Holds(inbox, old, 1)
      BY <1>7, <3>1, <3>2
    <3>4. PICK i \in DOMAIN inbox : IsFirst(inbox[i], old)
      BY <3>3 DEF Holds, IsFirst
    <3>5. inbox[i] \notin ToSet(queue)
      BY <3>2, <3>4 DEF Holds, IsFirst, ToSet
    <3> QED
      BY <2>1, <3>4, <3>5
  <2> QED
    BY <2>2, <2>3
<1>10. QueuedOnce'
  <2>1. ASSUME NEW i \in DOMAIN queue, NEW j \in DOMAIN queue',
               queue'[i].token = queue'[j].token, queue'[i].id = queue'[j].id
        PROVE  i = j
    <3>1. queue'[i] = queue[i]
      BY <1>0, <1>a, Appended
    <3>2. CASE j \in DOMAIN queue
      BY <1>0, <1>a, <2>1, <3>1, <3>2, Appended DEF Waiting, InOrder, QueuedOnce
    <3>3. CASE j \notin DOMAIN queue
      <4>1. queue'[j] = item
        BY <1>0, <1>a, <3>3, Appended
      <4> QED
        BY <1>6, <2>1, <3>1, <4>1 DEF Holds
    <3> QED
      BY <3>2, <3>3
  <2>2. \A i, j \in DOMAIN queue' : i \in DOMAIN queue \/ j \in DOMAIN queue \/ i = j
    BY <1>0, <1>a, Appended
  <2> QED
    BY <2>1, <2>2 DEF QueuedOnce
<1> QED
  BY <1>3, <1>5, <1>8, <1>9, <1>10 DEF InOrder

LEMMA ItemType ==
    ASSUME NEW m \in Messages, NEW id \in Nat, NEW status \in Reports \cup {NoMessage}
    PROVE  /\ Item(m, id, status) \in Items
           /\ Item(m, id, status).token = m /\ Item(m, id, status).id = id
           /\ Item(m, id, status).status = status
BY DEF Item, Items

LEMMA ReceptionWaits ==
    ASSUME Waiting, NEW m \in Messages,
           ReceiveMessage(m) \/ \E status \in Reports : ReceiveReport(m, status)
    PROVE  QueueType' /\ NothingLost' /\ InOrder'
<1>0. arrived[m] \in Nat
  BY DEF Waiting, QueueType
<1>1. CASE ReceiveMessage(m)
  <2> DEFINE item == Item(m, 1, NoMessage)
  <2>1. /\ item \in Items /\ item.token = m /\ item.id = 1 /\ item.status = NoMessage
    BY ItemType
  <2>2. arrived[m] = 0 /\ Arrive(item)
        /\ (Supersedes[m] # NoMessage => arrived[Supersedes[m]] > 0)
    BY <1>1 DEF ReceiveMessage
  <2>3. \A old \in Messages : Replaces(item, old) => arrived[old] > 0
    BY <2>1, <2>2 DEF Replaces
  <2> HIDE DEF item
  <2> QED
    BY <2>1, <2>2, <2>3, ArrivedWaits
<1>2. ASSUME NEW status \in Reports, ReceiveReport(m, status)
      PROVE  QueueType' /\ NothingLost' /\ InOrder'
  <2> DEFINE item == Item(m, arrived[m] + 1, status)
  <2>1. /\ item \in Items /\ item.token = m /\ item.id = arrived[m] + 1 /\ item.status = status
    BY <1>0, ItemType
  <2>2. arrived[m] > 0 /\ Arrive(item)
    BY <1>2 DEF ReceiveReport
  <2>3. status # NoMessage /\ item.id # 1
    BY <1>0, <2>1, <2>2, MessageAssumption DEF Statuses
  <2>4. \A old \in Messages : ~Replaces(item, old)
    BY <2>3 DEF Replaces
  <2> HIDE DEF item
  <2> QED
    BY <2>1, <2>2, <2>3, <2>4, ArrivedWaits
<1> QED
  BY <1>1, <1>2

LEMMA SendingWaits ==
    ASSUME Waiting, NEW m \in Messages, SendMessage(m)
    PROVE  QueueType' /\ NothingLost' /\ InOrder'
<1> DEFINE item == Item(m, 1, NoMessage)
<1>0. /\ queue \in Seq(Items) /\ inbox \in Seq(Items) /\ arrived \in [Messages -> Nat]
      /\ \A i \in DOMAIN queue : Known(queue[i], arrived)
      /\ \A i \in DOMAIN inbox : Known(inbox[i], arrived)
      /\ settled \in [Messages -> SUBSET Nat]
  BY DEF Waiting, QueueType, DaemonType
<1>1. /\ item \in Items /\ item.token = m /\ item.id = 1 /\ item.status = NoMessage
  BY ItemType
<1>2. m \notin Received
  BY MessageAssumption DEF SendMessage
<1>a. /\ arrived[m] = 0 /\ arrived' = [arrived EXCEPT ![m] = 1]
      /\ queue' = queue /\ observer' = observer
      /\ observer = "observing" => inbox' = Append(inbox, item) /\ settled' = settled
      /\ observer # "observing" => inbox' = inbox /\ Settled({item})
  BY DEF SendMessage
<1> HIDE DEF item
<1>3. /\ \A n \in Messages : settled[n] \subseteq settled'[n]
      /\ observer # "observing" => 1 \in settled'[m]
  BY <1>0, <1>1, <1>a, SettledGrows
<1>4. /\ arrived' \in [Messages -> Nat] /\ arrived'[m] = 1
      /\ \A n \in Messages : /\ 1 .. arrived[n] \subseteq 1 .. arrived'[n]
                             /\ n # m => arrived'[n] = arrived[n]
  BY <1>0, <1>a
<1>b. inbox' = inbox \/ inbox' = Append(inbox, item)
  BY <1>a
\* What is in the inbox stays where it is; only the sent message can be new.
<1>c. /\ inbox' \in Seq(Items)
      /\ \A i \in DOMAIN inbox : i \in DOMAIN inbox' /\ inbox'[i] = inbox[i]
      /\ \A i \in DOMAIN inbox' : i \in DOMAIN inbox \/ inbox'[i] = item
  <2>1. CASE inbox' = inbox
    BY <1>0, <2>1
  <2>2. CASE inbox' = Append(inbox, item)
    BY <1>0, <1>1, <2>2, Appended
  <2> QED
    BY <1>b, <2>1, <2>2
<1>5. QueueType'
  <2>1. \A old \in Items : Known(old, arrived) => Known(old, arrived')
    BY <1>4 DEF Known, Items
  <2>2. Known(item, arrived')
    BY <1>1, <1>4 DEF Known
  <2>3. \A i \in DOMAIN queue : Known(queue[i], arrived')
    BY <1>0, <2>1
  <2>4. \A i \in DOMAIN inbox : Known(inbox[i], arrived')
    BY <1>0, <2>1
  <2>5. inbox' \in Seq(Items) /\ \A i \in DOMAIN inbox' : Known(inbox'[i], arrived')
    BY <1>c, <2>2, <2>4
  <2> QED
    BY <1>0, <1>4, <1>a, <2>3, <2>5 DEF QueueType
<1>6. NothingLost'
  <2> SUFFICES ASSUME NEW n \in Messages, NEW k \in 1 .. arrived'[n], k \notin settled'[n]
               PROVE  Holds(inbox', n, k) \/ (observer # "observing" /\ Holds(queue, n, k))
    BY <1>a DEF NothingLost
  <2>1. CASE n # m
    <3>1. Holds(inbox, n, k) \/ (observer # "observing" /\ Holds(queue, n, k))
      BY <1>3, <1>4, <2>1 DEF Waiting, NothingLost
    <3> QED
      BY <1>c, <3>1 DEF Holds
  <2>2. CASE n = m
    <3>1. k = 1
      BY <1>4, <2>2
    <3>2. observer = "observing"
      BY <1>3, <2>2, <3>1
    <3> QED
      BY <1>0, <1>1, <1>a, <2>2, <3>1, <3>2, AppendHolds
  <2> QED
    BY <2>1, <2>2
<1>7. InboxInOrder'
  <2> SUFFICES ASSUME NEW j \in DOMAIN inbox', NEW old \in Messages, Replaces(inbox'[j], old),
                      1 \notin settled'[old]
               PROVE  Before(inbox', j, old)
    BY DEF InboxInOrder
  <2>1. inbox'[j] # item
    BY <1>1, <1>2 DEF Replaces
  <2>2. j \in DOMAIN inbox /\ inbox'[j] = inbox[j]
    BY <1>c, <2>1
  <2>3. PICK i \in 1 .. j - 1 : IsFirst(inbox[i], old)
    BY <1>3, <2>2 DEF Waiting, InOrder, InboxInOrder, Before
  <2>4. i \in DOMAIN inbox
    BY <1>0, <2>2
  <2> QED
    BY <1>c, <2>3, <2>4 DEF Before
<1>8. QueueInOrder'
  <2>2. \A old \in Messages : Acknowledged(old) => Acknowledged(old)'
    BY <1>a, <1>c DEF Acknowledged
  <2> QED
    BY <1>3, <1>a, <2>2 DEF Waiting, InOrder, QueueInOrder
<1> QED
  BY <1>5, <1>6, <1>7, <1>8, <1>a DEF Waiting, InOrder, QueuedOnce

LEMMA AcknowledgedWaits ==
    ASSUME Waiting, NEW i \in DOMAIN queue, Acknowledge(i)
    PROVE  QueueType' /\ NothingLost' /\ InOrder'
<1>0. /\ queue \in Seq(Items) /\ inbox \in Seq(Items) /\ arrived \in [Messages -> Nat]
      /\ \A j \in DOMAIN queue : Known(queue[j], arrived)
      /\ \A j \in DOMAIN inbox : Known(inbox[j], arrived)
      /\ settled \in [Messages -> SUBSET Nat]
      /\ inbox # <<>> => observer = "observing"
      /\ i \in 1 .. Len(queue) /\ queue[i] \in Items
  BY DEF Waiting, QueueType, DaemonType
<1>a. /\ queue' = RemoveAt(queue, i) /\ Settled({queue[i]} \ ToSet(inbox))
      /\ inbox' = inbox /\ observer' = observer /\ arrived' = arrived
  BY DEF Acknowledge
\* Where an item was, and where it is.
<1> DEFINE from(j) == IF j < i THEN j ELSE j + 1
           to(j) == IF j < i THEN j ELSE j - 1
<1>1. /\ queue' \in Seq(Items)
      /\ \A j \in DOMAIN queue' : /\ from(j) \in DOMAIN queue /\ queue'[j] = queue[from(j)]
                                  /\ from(j) # i /\ j = to(from(j)) /\ j \in Nat
      /\ \A j \in DOMAIN queue \ {i} : /\ to(j) \in DOMAIN queue' /\ queue'[to(j)] = queue[j]
                                       /\ j \in Nat
  <2>1. /\ queue' \in Seq(Items) /\ Len(queue) \in Nat /\ Len(queue') = Len(queue) - 1
        /\ \A j \in 1 .. i - 1 : queue'[j] = queue[j]
        /\ \A j \in i .. Len(queue) - 1 : queue'[j] = queue[j + 1]
    <3>1. queue \in Seq(Items) /\ i \in 1 .. Len(queue) /\ queue' = RemoveAt(queue, i)
      BY <1>0, <1>a
    <3>2. Len(queue) \in Nat
      BY <3>1
    <3> QED
      BY <3>1, <3>2, RemoveAtProperties, Zenon
  <2>a. i \in Nat /\ i >= 1 /\ i <= Len(queue)
    BY <1>0, <2>1
  <2>b. DOMAIN queue' = 1 .. Len(queue') /\ DOMAIN queue = 1 .. Len(queue)
    BY <1>0, <2>1
  <2>2. DOMAIN queue' = 1 .. Len(queue) - 1 /\ DOMAIN queue = 1 .. Len(queue) /\ i \in Nat
    BY <2>1, <2>a, <2>b
  <2>3. ASSUME NEW j \in DOMAIN queue'
        PROVE  /\ from(j) \in DOMAIN queue /\ queue'[j] = queue[from(j)]
               /\ from(j) # i /\ j = to(from(j)) /\ j \in Nat
    <3>1. j \in Nat /\ j >= 1 /\ j <= Len(queue) - 1
      BY <2>1, <2>2
    <3>2. CASE j < i
      BY <2>1, <2>2, <3>1, <3>2
    <3>3. CASE ~(j < i)
      <4>1. j \in i .. Len(queue) - 1 /\ from(j) = j + 1 /\ to(j + 1) = (j + 1) - 1
        BY <2>1, <2>2, <3>1, <3>3
      <4> QED
        BY <2>1, <2>2, <3>1, <4>1
    <3> QED
      BY <3>2, <3>3
  <2>4. ASSUME NEW j \in DOMAIN queue \ {i}
        PROVE  to(j) \in DOMAIN queue' /\ queue'[to(j)] = queue[j] /\ j \in Nat
    <3>1. j \in Nat /\ j >= 1 /\ j <= Len(queue) /\ j # i
      BY <2>1, <2>2
    <3>2. CASE j < i
      <4>1. j \in 1 .. Len(queue) - 1
        BY <2>1, <2>a, <3>1, <3>2
      <4>2. queue'[j] = queue[j]
        BY <2>1, <3>1, <3>2
      <4> QED
        BY <2>2, <3>1, <3>2, <4>1, <4>2
    <3>3. CASE ~(j < i)
      <4>1. j - 1 \in i .. Len(queue) - 1 /\ to(j) = j - 1 /\ (j - 1) + 1 = j
        BY <2>1, <2>a, <3>1, <3>3
      <4>2. queue'[j - 1] = queue[(j - 1) + 1]
        BY <2>1, <4>1
      <4>3. j - 1 \in DOMAIN queue'
        BY <2>1, <2>a, <2>2, <3>1, <4>1
      <4> QED
        BY <3>1, <4>1, <4>2, <4>3
    <3> QED
      BY <3>2, <3>3
  <2> QED
    BY <2>1, <2>3, <2>4
<1> HIDE DEF from, to
<1>2. /\ \A m \in Messages : settled[m] \subseteq settled'[m]
      /\ queue[i] \notin ToSet(inbox) => queue[i].id \in settled'[queue[i].token]
  BY <1>0, <1>a, SettledGrows
<1>3. QueueType'
  BY <1>0, <1>1, <1>a DEF QueueType
<1>4. NothingLost'
  <2> SUFFICES ASSUME NEW m \in Messages, NEW k \in 1 .. arrived[m], k \notin settled'[m],
                      ~Holds(inbox, m, k)
               PROVE  observer # "observing" /\ Holds(queue', m, k)
    BY <1>a DEF NothingLost
  <2>1. observer # "observing" /\ Holds(queue, m, k)
    BY <1>2 DEF Waiting, NothingLost
  <2>2. PICK j \in DOMAIN queue : queue[j].token = m /\ queue[j].id = k
    BY <2>1 DEF Holds
  <2>3. inbox = <<>>
    BY <1>0, <2>1
  <2>4. queue[i] \notin ToSet(inbox)
    BY <2>3 DEF ToSet
  <2>5. j # i
    BY <1>2, <2>2, <2>4
  <2> QED
    BY <1>1, <2>1, <2>2, <2>5 DEF Holds
<1>5. InboxInOrder'
  BY <1>2, <1>a DEF Waiting, InOrder, InboxInOrder
<1>6. QueuedOnce'
  BY <1>1 DEF Waiting, InOrder, QueuedOnce
<1>7. ToSet(queue') \subseteq ToSet(queue) \ {queue[i]}
  <2> SUFFICES ASSUME NEW j \in DOMAIN queue'
               PROVE  queue'[j] \in ToSet(queue) \ {queue[i]}
    BY DEF ToSet
  <2>1. from(j) \in DOMAIN queue /\ queue'[j] = queue[from(j)] /\ from(j) # i
    BY <1>1
  <2>2. queue[from(j)] # queue[i]
    BY <1>0, <2>1 DEF Waiting, InOrder, QueuedOnce
  <2> QED
    BY <2>1, <2>2 DEF ToSet
<1>8. QueueInOrder'
  <2> SUFFICES ASSUME NEW j \in DOMAIN queue', NEW old \in Messages, Replaces(queue'[j], old),
                      1 \notin settled'[old]
               PROVE  Before(queue', j, old) \/ Acknowledged(old)'
    BY DEF QueueInOrder
  <2>1. from(j) \in DOMAIN queue /\ Replaces(queue[from(j)], old) /\ 1 \notin settled[old]
    BY <1>1, <1>2
  <2>2. Before(queue, from(j), old) \/ Acknowledged(old)
    BY <2>1 DEF Waiting, InOrder, QueueInOrder
  <2>3. CASE Acknowledged(old)
    BY <1>7, <1>a, <2>3 DEF Acknowledged
  <2>4. CASE Before(queue, from(j), old)
    <3>1. PICK k \in 1 .. from(j) - 1 : IsFirst(queue[k], old)
      BY <2>4 DEF Before
    <3>2. k \in DOMAIN queue
      BY <1>0, <1>1, <3>1
    <3>3. CASE k = i
      <4>1. queue[i] \in ToSet(inbox)
        BY <1>2, <3>1, <3>3 DEF IsFirst
      <4>2. PICK n \in DOMAIN inbox : inbox[n] = queue[i]
        BY <4>1 DEF ToSet
      <4> QED
        BY <1>7, <1>a, <3>1, <3>3, <4>2 DEF Acknowledged
    <3>4. CASE k # i
      <4>1. to(k) \in 1 .. j - 1 /\ queue'[to(k)] = queue[k]
        <5>1. /\ to(k) \in DOMAIN queue' /\ queue'[to(k)] = queue[k]
              /\ j = to(from(j)) /\ from(j) # i /\ j \in Nat /\ from(j) \in Nat
          BY <1>0, <1>1, <3>2, <3>4
        <5>2. to(k) \in Nat \ {0}
          BY <1>1, <5>1
        <5>3. to(k) < to(from(j))
          BY <1>0, <3>1, <3>2, <3>4, <5>1 DEF to
        <5> QED
          BY <5>1, <5>2, <5>3
      <4> QED
        BY <3>1, <4>1 DEF Before
    <3> QED
      BY <3>3, <3>4
  <2> QED
    BY <2>2, <2>3, <2>4
<1> QED
  BY <1>3, <1>4, <1>5, <1>6, <1>8 DEF InOrder

LEMMA NobodyIsTold ==
    ASSUME DaemonType, observer # "observing"
    PROVE  inbox = <<>> /\ DOMAIN inbox = {} /\ ToSet(inbox) = {}
BY DEF DaemonType, ToSet

\* Messages come back, rescued, in a new channel.
LEMMA ClosingWaits ==
    ASSUME Waiting, CloseChannel
    PROVE  QueueType' /\ NothingLost' /\ InOrder'
<1>0. /\ queue \in Seq(Items) /\ inbox \in Seq(Items) /\ arrived \in [Messages -> Nat]
      /\ \A j \in DOMAIN queue : Known(queue[j], arrived)
      /\ \A j \in DOMAIN queue : queue[j] \in Items
  BY DEF Waiting, QueueType
<1>a. /\ inbox = <<>> /\ inbox' = <<>> /\ arrived' = arrived /\ settled' = settled
      /\ queue' = [i \in DOMAIN queue |-> [queue[i] EXCEPT !.rescued = TRUE]]
      /\ observer' # "observing"
  BY DEF CloseChannel
<1>1. DOMAIN inbox = {} /\ DOMAIN inbox' = {}
  BY <1>a
<1>2. /\ DOMAIN queue' = DOMAIN queue
      /\ \A i \in DOMAIN queue :
            /\ queue'[i] \in Items /\ queue'[i].token = queue[i].token
            /\ queue'[i].id = queue[i].id /\ queue'[i].status = queue[i].status
  BY <1>0, <1>a DEF Items
<1>3. queue' \in Seq(Items)
  <2>1. DOMAIN queue = 1 .. Len(queue) /\ Len(queue) \in Nat
    BY <1>0
  <2>2. queue' = [i \in 1 .. Len(queue) |-> queue'[i]]
    BY <1>a, <2>1
  <2> QED
    BY <1>2, <2>1, <2>2
<1>4. QueueType'
  BY <1>0, <1>2, <1>3, <1>a DEF QueueType, Known
<1>5. NothingLost'
  <2> SUFFICES ASSUME NEW m \in Messages, NEW k \in 1 .. arrived[m], k \notin settled[m]
               PROVE  Holds(queue', m, k)
    BY <1>a DEF NothingLost
  <2>1. Holds(queue, m, k)
    BY <1>1 DEF Waiting, NothingLost, Holds
  <2> QED
    BY <1>2, <2>1 DEF Holds
<1>6. InboxInOrder'
  BY <1>1 DEF InboxInOrder
<1>7. QueueInOrder'
  <2> SUFFICES ASSUME NEW j \in DOMAIN queue, NEW old \in Messages, Replaces(queue'[j], old),
                      1 \notin settled[old]
               PROVE  Before(queue', j, old)
    BY <1>2, <1>a DEF QueueInOrder
  <2>1. Replaces(queue[j], old)
    BY <1>2 DEF Replaces
  <2>2. ~Acknowledged(old)
    BY <1>1 DEF Acknowledged
  <2>3. PICK i \in 1 .. j - 1 : IsFirst(queue[i], old)
    BY <2>1, <2>2 DEF Waiting, InOrder, QueueInOrder, Before
  <2>4. i \in DOMAIN queue
    BY <1>0, <2>3
  <2> QED
    BY <1>2, <2>3, <2>4 DEF Before, IsFirst
<1>8. QueuedOnce'
  BY <1>2 DEF Waiting, InOrder, QueuedOnce
<1> QED
  BY <1>4, <1>5, <1>6, <1>7, <1>8 DEF InOrder

\* The daemon takes over what waits in the channel, all of it and in its order.
LEMMA ReadyWaits ==
    ASSUME Waiting, ChannelReady
    PROVE  QueueType' /\ NothingLost' /\ InOrder'
<1>a. /\ queue' = queue /\ inbox' = queue /\ arrived' = arrived /\ settled' = settled
      /\ observer # "observing" /\ observer' = "observing"
  BY DEF ChannelReady, telepathy
<1>1. DOMAIN inbox = {}
  BY <1>a, NobodyIsTold DEF Waiting
<1>2. QueueType'
  BY <1>a DEF Waiting, QueueType
<1>3. NothingLost'
  BY <1>1, <1>a DEF Waiting, NothingLost, Holds
<1>4. \A old \in Messages : ~Acknowledged(old)
  BY <1>1 DEF Acknowledged
<1>5. InboxInOrder' /\ QueueInOrder'
  BY <1>4, <1>a DEF Waiting, InOrder, InboxInOrder, QueueInOrder
<1> QED
  BY <1>2, <1>3, <1>5, <1>a DEF Waiting, InOrder, QueuedOnce

\* What the daemon was told and is gone from the channel is lost with it.
LEMMA CrashWaits ==
    ASSUME Waiting, Crash
    PROVE  QueueType' /\ NothingLost' /\ InOrder'
<1>0. /\ inbox \in Seq(Items) /\ settled \in [Messages -> SUBSET Nat]
      /\ \A i \in DOMAIN inbox : inbox[i] \in Items
  BY DEF Waiting, QueueType, DaemonType
<1>a. /\ queue' = queue /\ arrived' = arrived /\ inbox' = <<>> /\ observer' = "down"
      /\ Settled(ToSet(inbox) \ ToSet(queue))
  BY DEF Crash, telepathy
<1>1. DOMAIN inbox' = {} /\ inbox' \in Seq(Items)
  BY <1>a
<1>2. /\ \A m \in Messages : settled[m] \subseteq settled'[m]
      /\ \A i \in DOMAIN inbox :
            inbox[i] \notin ToSet(queue) => inbox[i].id \in settled'[inbox[i].token]
  <2>1. ToSet(inbox) \ ToSet(queue) \in SUBSET Items
    BY <1>0 DEF ToSet
  <2>2. \A i \in DOMAIN inbox : inbox[i] \in ToSet(inbox)
    BY DEF ToSet
  <2> QED
    BY <1>0, <1>a, <2>1, <2>2, SettledGrows
<1>3. QueueType'
  BY <1>1, <1>a DEF Waiting, QueueType
<1>4. NothingLost'
  <2> SUFFICES ASSUME NEW m \in Messages, NEW k \in 1 .. arrived[m], k \notin settled'[m]
               PROVE  Holds(queue, m, k)
    BY <1>a DEF NothingLost
  <2>1. Holds(inbox, m, k) \/ Holds(queue, m, k)
    BY <1>2 DEF Waiting, NothingLost
  <2>2. CASE Holds(inbox, m, k)
    <3>1. PICK i \in DOMAIN inbox : inbox[i].token = m /\ inbox[i].id = k
      BY <2>2 DEF Holds
    <3>2. inbox[i] \in ToSet(queue)
      BY <1>2, <3>1
    <3> QED
      BY <3>1, <3>2 DEF Holds, ToSet
  <2> QED
    BY <2>1, <2>2
<1>5. InboxInOrder'
  BY <1>1 DEF InboxInOrder
<1>6. \A old \in Messages : Acknowledged(old) => 1 \in settled'[old]
  BY <1>2 DEF Acknowledged, IsFirst
<1>7. QueueInOrder'
  BY <1>2, <1>6, <1>a DEF Waiting, InOrder, QueueInOrder
<1> QED
  BY <1>3, <1>4, <1>5, <1>7, <1>a DEF Waiting, InOrder, QueuedOnce

LEMMA RestartWaits ==
    ASSUME Waiting, Restart
    PROVE  QueueType' /\ NothingLost' /\ InOrder'
<1>a. /\ queue' = queue /\ arrived' = arrived /\ inbox' = inbox /\ settled' = settled
      /\ observer # "observing" /\ observer' # "observing"
  BY DEF Restart, telepathy
<1> QED
  BY <1>a DEF Waiting, QueueType, NothingLost, InOrder, InboxInOrder, QueueInOrder,
              QueuedOnce, Acknowledged

LEMMA HandlingShape ==
    ASSUME QueueType, NEW item, Handling(item)
    PROVE  /\ inbox # <<>> /\ 1 \in DOMAIN inbox /\ item = Head(inbox) /\ item = inbox[1]
           /\ item \in Items /\ item.token \in Messages /\ Known(item, arrived)
           /\ inbox' = Tail(inbox)
<1>1. inbox \in Seq(Items) /\ inbox # <<>> /\ item = Head(inbox) /\ inbox' = Tail(inbox)
  BY DEF QueueType, Handling
<1>2. item = inbox[1] /\ item \in Items
  BY <1>1, HeadOfInbox
<1>3. 1 \in DOMAIN inbox
  BY <1>1
<1>4. Known(item, arrived)
  BY <1>2, <1>3 DEF QueueType
<1>5. item.token \in Messages
  BY <1>2 DEF Items
<1> QED
  BY <1>1, <1>2, <1>3, <1>4, <1>5

LEMMA HandlerShape ==
    ASSUME NEW item,
           IgnoreRescued(item) \/ HandleMessage(item) \/ HandleSent(item) \/ DeliveryReport(item)
    PROVE  Handling(item) /\ Settled({item}) /\ UNCHANGED <<queue, arrived, observer, client>>
BY DEF IgnoreRescued, HandleMessage, HandleSent, DeliveryReport, Reporting, Write, Skip, telepathy

LEMMA UntouchedWaits ==
    ASSUME Waiting, UNCHANGED <<queue, arrived, inbox, observer, settled>>
    PROVE  QueueType' /\ NothingLost' /\ InOrder'
<1>1. /\ queue' = queue /\ arrived' = arrived /\ inbox' = inbox /\ observer' = observer
      /\ settled' = settled
  OBVIOUS
<1> QED
  BY <1>1 DEF Waiting, QueueType, NothingLost, InOrder, InboxInOrder, QueueInOrder,
              QueuedOnce, Acknowledged

LEMMA WaitingStep ==
    ASSUME Waiting, [Next]_vars
    PROVE  QueueType' /\ NothingLost' /\ InOrder'
<1>1. CASE Telepathy
  BY <1>1, ReceptionWaits, SendingWaits, AcknowledgedWaits, ClosingWaits DEF Telepathy
<1>2. ASSUME NEW item, IgnoreRescued(item) \/ HandleMessage(item) \/ HandleSent(item)
                       \/ DeliveryReport(item)
      PROVE  QueueType' /\ NothingLost' /\ InOrder'
  <2>1. /\ Handling(item) /\ Settled({item})
        /\ UNCHANGED <<queue, arrived, observer>>
    BY <1>2, HandlerShape
  <2>2. inbox # <<>> /\ item = Head(inbox) /\ inbox' = Tail(inbox)
    BY <2>1 DEF Handling
  <2> QED
    BY <2>1, <2>2, HandledWaits
<1>3. CASE RemoveSuperseded \/ HandleThreadMark \/ \E m \in Messages : RemoveMessage(m)
  <2>1. UNCHANGED <<queue, arrived, inbox, observer, settled>>
    BY <1>3 DEF RemoveSuperseded, HandleThreadMark, RemoveMessage, telepathy
  <2> QED
    BY <2>1, UntouchedWaits
<1>4. CASE \/ \E m \in Messages : MarkEventAsRead(m)
           \/ WriteMarks \/ MarkThreadsAsRead \/ CallMarkThreadsAsRead
  <2>1. UNCHANGED <<queue, arrived, inbox, observer, settled>>
    BY <1>4 DEF MarkEventAsRead, Mark, WriteMarks, MarkThreadsAsRead, CallMarkThreadsAsRead,
                others, telepathy
  <2> QED
    BY <2>1, UntouchedWaits
<1>5. CASE UNCHANGED vars
  <2>1. UNCHANGED <<queue, arrived, inbox, observer, settled>>
    BY <1>5 DEF vars, telepathy
  <2> QED
    BY <2>1, UntouchedWaits
<1> QED
  BY <1>1, <1>2, <1>3, <1>4, <1>5, ReadyWaits, CrashWaits, RestartWaits
     DEF Next, Handle, User

-----------------------------------------------------------------------------
(* Types                                                                   *)

\* What the client's timer writes back: copies that wait.
LEMMA MarksWritten ==
    ASSUME Types, WriteMarks, NEW m \in Messages
    PROVE  \/ rows'[m] = rows[m]
           \/ \E i \in DOMAIN markQueue :
                 /\ markQueue[i].token = m
                 /\ rows'[m] = [status |-> markQueue[i].status, new |-> FALSE]
                 /\ (rows[m] # NoRow /\ rows[m].status = markQueue[i].status) \/ m \in disturbed'
<1>1. PICK n \in 0 .. Len(markQueue) :
        /\ rows' = [x \in Messages |->
              IF \E copy \in ToSet(SubSeq(markQueue, 1, n)) : copy.token = x
              THEN [status |-> (CHOOSE copy \in ToSet(SubSeq(markQueue, 1, n)) :
                                  copy.token = x).status,
                    new |-> FALSE]
              ELSE rows[x]]
        /\ disturbed' = disturbed \cup
              {x \in Messages :
                 /\ \E copy \in ToSet(SubSeq(markQueue, 1, n)) : copy.token = x
                 /\ rows[x] # NoRow =>
                      rows[x].status # (CHOOSE copy \in ToSet(SubSeq(markQueue, 1, n)) :
                                          copy.token = x).status}
  BY DEF WriteMarks
<1> DEFINE written == ToSet(SubSeq(markQueue, 1, n))
           chosen == CHOOSE copy \in written : copy.token = m
<1>2. \A copy \in written : \E i \in DOMAIN markQueue : copy = markQueue[i]
  <2>1. markQueue \in Seq(Copies)
    BY DEF Types, ClientType
  <2>2. \A i \in DOMAIN SubSeq(markQueue, 1, n) :
           i \in DOMAIN markQueue /\ SubSeq(markQueue, 1, n)[i] = markQueue[i]
    BY <2>1
  <2> QED
    BY <2>2 DEF ToSet
<1>3. CASE ~ \E copy \in written : copy.token = m
  BY <1>1, <1>3
<1>4. CASE \E copy \in written : copy.token = m
  <2>1. chosen \in written /\ chosen.token = m
    BY <1>4
  <2>2. rows'[m] = [status |-> chosen.status, new |-> FALSE]
    BY <1>1, <1>4
  <2>3. (rows[m] # NoRow /\ rows[m].status = chosen.status) \/ m \in disturbed'
    BY <1>1, <1>4
  <2> HIDE DEF chosen, written
  <2> QED
    BY <1>2, <2>1, <2>2, <2>3
<1> QED
  BY <1>3, <1>4

LEMMA WriteTypes ==
    ASSUME DaemonType, NEW item \in Items, NEW row \in Rows, Write(item, row)
    PROVE  rows' \in [Messages -> Rows \cup {NoRow}] /\ disturbed' \subseteq Messages
           /\ settled' \in [Messages -> SUBSET Nat]
<1>1. item.token \in Messages /\ settled \in [Messages -> SUBSET Nat]
      /\ rows \in [Messages -> Rows \cup {NoRow}] /\ disturbed \subseteq Messages
  BY DEF DaemonType, Items
<1>2. settled' \in [Messages -> SUBSET Nat]
  BY <1>1, SettledGrows DEF Write
<1>3. rows' = rows \/ rows' = [rows EXCEPT ![item.token] = row]
  BY DEF Write
<1>4. disturbed' \subseteq disturbed \cup {item.token}
  BY DEF Write
<1> QED
  BY <1>1, <1>2, <1>3, <1>4

\* What the handlers write is a row.
LEMMA HandlerTypes ==
    ASSUME Types, NEW item,
           IgnoreRescued(item) \/ HandleMessage(item) \/ HandleSent(item) \/ DeliveryReport(item)
    PROVE  DaemonType'
<1>1. /\ Handling(item) /\ Settled({item}) /\ observer' = observer /\ observer = "observing"
      /\ item \in Items /\ item.token \in Messages
  BY HandlerShape, HandlingShape DEF Types, Handling
<1>2. /\ rows \in [Messages -> Rows \cup {NoRow}] /\ settled \in [Messages -> SUBSET Nat]
      /\ disturbed \subseteq Messages /\ removed \subseteq Messages
      /\ superseding \in Messages \cup {NoMessage}
  BY DEF Types, DaemonType
<1>3. settled' \in [Messages -> SUBSET Nat]
  BY <1>1, <1>2, SettledGrows
<1>4. removed' = removed
  BY DEF IgnoreRescued, HandleMessage, HandleSent, DeliveryReport, Reporting
<1>5. superseding' \in Messages \cup {NoMessage}
  <2>1. CASE HandleMessage(item)
    BY <2>1, MessageAssumption DEF HandleMessage
  <2>2. CASE ~HandleMessage(item)
    BY <1>2, <2>2 DEF IgnoreRescued, HandleSent, DeliveryReport, Reporting
  <2> QED
    BY <2>1, <2>2
<1>6. rows' \in [Messages -> Rows \cup {NoRow}] /\ disturbed' \subseteq Messages
  <2>1. CASE IgnoreRescued(item)
    BY <1>2, <2>1 DEF IgnoreRescued
  <2>2. CASE HandleMessage(item)
    <3>1. [status |-> IF item.token \in OwnReceived THEN "Delivered" ELSE "Unknown",
           new |-> TRUE] \in Rows
      BY DEF Rows, Statuses
    <3> QED
      BY <1>1, <2>2, <3>1, WriteTypes DEF HandleMessage, Types
  <2>3. CASE HandleSent(item)
    <3>1. [status |-> SentStatus, new |-> FALSE] \in Rows
      BY MessageAssumption DEF Rows, Statuses
    <3> QED
      BY <1>1, <2>3, <3>1, WriteTypes DEF HandleSent, Types
  <2>4. CASE DeliveryReport(item)
    <3>1. CASE Skip(item)
      BY <1>2, <3>1 DEF Skip
    <3>2. CASE rows[item.token] # NoRow /\ Write(item, [rows[item.token] EXCEPT !.status = item.status])
      <4>1. rows[item.token] \in Rows /\ item.status \in Reports
        BY <1>1, <1>2, <2>4, <3>2 DEF DeliveryReport, Reporting, Items
      <4>2. [rows[item.token] EXCEPT !.status = item.status] \in Rows
        BY <4>1 DEF Rows, Statuses
      <4> QED
        BY <1>1, <3>2, <4>2, WriteTypes DEF Types
    <3> QED
      BY <2>4, <3>1, <3>2 DEF DeliveryReport
  <2> QED
    BY <2>1, <2>2, <2>3, <2>4
<1> QED
  BY <1>1, <1>2, <1>3, <1>4, <1>5, <1>6 DEF DaemonType

\* An item that is told to nobody leaves the daemon as it is.
LEMMA TelepathyTypes ==
    ASSUME Types, Telepathy
    PROVE  DaemonType'
<1>1. /\ rows' = rows /\ removed' = removed /\ disturbed' = disturbed
      /\ superseding' = superseding
  BY DEF Telepathy, ReceiveMessage, SendMessage, ReceiveReport, Arrive, Acknowledge, CloseChannel
<1>2. settled' \in [Messages -> SUBSET Nat]
  <2>1. settled \in [Messages -> SUBSET Nat]
    BY DEF Types, DaemonType
  <2>2. CASE settled' = settled
    BY <2>1, <2>2
  <2>3. CASE \E m \in Messages : Settled({Item(m, 1, NoMessage)})
    <3>1. \A m \in Messages : {Item(m, 1, NoMessage)} \in SUBSET Items
      BY ItemType
    <3> QED
      BY <2>1, <2>3, <3>1, SettledGrows
  <2>4. CASE \E i \in DOMAIN queue : Settled({queue[i]} \ ToSet(inbox))
    <3>1. \A i \in DOMAIN queue : {queue[i]} \ ToSet(inbox) \in SUBSET Items
      BY DEF Types, QueueType
    <3> QED
      BY <2>1, <2>4, <3>1, SettledGrows
  <2> QED
    BY <2>2, <2>3, <2>4
       DEF Telepathy, ReceiveMessage, SendMessage, ReceiveReport, Arrive, Acknowledge, CloseChannel
<1>3. /\ observer' \in {"down", "preparing", "observing"}
      /\ superseding' # NoMessage => observer' = "observing"
      /\ inbox' # <<>> => observer' = "observing"
  BY <1>1 DEF Types, DaemonType, Telepathy, ReceiveMessage, SendMessage, ReceiveReport, Arrive,
              Acknowledge, CloseChannel
<1> QED
  BY <1>1, <1>2, <1>3 DEF Types, DaemonType

LEMMA DaemonTypeStep ==
    ASSUME Types, [Next]_vars
    PROVE  DaemonType'
<1>0. /\ rows \in [Messages -> Rows \cup {NoRow}] /\ settled \in [Messages -> SUBSET Nat]
      /\ disturbed \subseteq Messages /\ removed \subseteq Messages
      /\ superseding \in Messages \cup {NoMessage}
      /\ observer \in {"down", "preparing", "observing"}
      /\ superseding # NoMessage => observer = "observing"
      /\ inbox # <<>> => observer = "observing"
      /\ \A m \in Messages : rows[m] # NoRow => rows[m] \in Rows
  BY DEF Types, DaemonType
<1>1. CASE RemoveSuperseded
  BY <1>0, <1>1 DEF RemoveSuperseded, DaemonType
<1>2. CASE HandleThreadMark
  <2>1. \A row \in Rows : [row EXCEPT !.new = FALSE] \in Rows
    BY DEF Rows
  <2>2. rows' \in [Messages -> Rows \cup {NoRow}]
    BY <1>0, <1>2, <2>1 DEF HandleThreadMark
  <2> QED
    BY <1>0, <1>2, <2>2 DEF HandleThreadMark, DaemonType
<1>3. ASSUME NEW m \in Messages, RemoveMessage(m)
      PROVE  DaemonType'
  BY <1>0, <1>3 DEF RemoveMessage, DaemonType
<1>4. CASE ChannelReady
  <2>1. superseding = NoMessage
    BY <1>0, <1>4 DEF ChannelReady
  <2> QED
    BY <1>0, <1>4, <2>1 DEF ChannelReady, DaemonType
<1>5. CASE Restart
  BY <1>0, <1>5 DEF Restart, DaemonType
<1>6. CASE Crash
  <2>1. ToSet(inbox) \ ToSet(queue) \in SUBSET Items
    BY DEF Types, QueueType, ToSet
  <2>2. settled' \in [Messages -> SUBSET Nat]
    BY <1>0, <1>6, <2>1, SettledGrows DEF Crash
  <2> QED
    BY <1>0, <1>6, <2>2 DEF Crash, DaemonType
<1>7. CASE WriteMarks
  <2>1. \A m \in Messages : rows'[m] \in Rows \cup {NoRow}
    <3> SUFFICES ASSUME NEW m \in Messages, rows'[m] # rows[m]
                 PROVE  rows'[m] \in Rows
      BY <1>0
    <3>1. PICK i \in DOMAIN markQueue : rows'[m] = [status |-> markQueue[i].status, new |-> FALSE]
      BY <1>7, MarksWritten
    <3>2. markQueue[i] \in Copies
      BY DEF Types, ClientType
    <3> QED
      BY <3>1, <3>2 DEF Copies, Rows
  <2>2. rows' = [m \in Messages |-> rows'[m]]
    BY <1>7 DEF WriteMarks
  <2>3. disturbed' \subseteq Messages
    BY <1>0, <1>7 DEF WriteMarks
  <2>4. UNCHANGED <<observer, inbox, superseding, settled, removed>>
    BY <1>7 DEF WriteMarks, others
  <2> QED
    BY <1>0, <2>1, <2>2, <2>3, <2>4 DEF DaemonType
<1>8. CASE \/ \E m \in Messages : MarkEventAsRead(m)
           \/ MarkThreadsAsRead \/ CallMarkThreadsAsRead \/ UNCHANGED vars
  <2>1. UNCHANGED <<observer, inbox, superseding, settled, removed, rows, disturbed>>
    BY <1>8 DEF MarkEventAsRead, Mark, MarkThreadsAsRead, CallMarkThreadsAsRead, others, vars
  <2> QED
    BY <1>0, <2>1 DEF DaemonType
<1> QED
  BY <1>1, <1>2, <1>3, <1>4, <1>5, <1>6, <1>7, <1>8, HandlerTypes, TelepathyTypes
     DEF Next, Handle, User

\* A copy is queued once: of an event that is queued already, the old copy goes.
LEMMA CopyQueued ==
    ASSUME ClientType, NEW m \in Messages, NEW seq \in Seq(Copies), NEW copy \in Copies,
           copy.token = m,
           \A i, j \in DOMAIN seq : seq[i].token = seq[j].token => i = j,
           \A i \in DOMAIN seq : seq[i].token # m
    PROVE  /\ Append(seq, copy) \in Seq(Copies)
           /\ \A i, j \in DOMAIN Append(seq, copy) :
                 Append(seq, copy)[i].token = Append(seq, copy)[j].token => i = j
           /\ \A i \in DOMAIN Append(seq, copy) :
                 Append(seq, copy)[i] = copy \/ \E j \in DOMAIN seq : Append(seq, copy)[i] = seq[j]
<1>1. /\ Append(seq, copy) \in Seq(Copies)
      /\ \A i \in DOMAIN Append(seq, copy) :
            \/ i \in DOMAIN seq /\ Append(seq, copy)[i] = seq[i]
            \/ i = Len(seq) + 1 /\ Append(seq, copy)[i] = copy
  OBVIOUS
<1> QED
  BY <1>1

LEMMA TakenOut ==
    ASSUME ClientType, NEW i \in DOMAIN markQueue
    PROVE  LET seq == RemoveAt(markQueue, i)
           IN  /\ seq \in Seq(Copies)
               /\ \A j, k \in DOMAIN seq : seq[j].token = seq[k].token => j = k
               /\ \A j \in DOMAIN seq : seq[j].token # markQueue[i].token
               /\ \A j \in DOMAIN seq : \E k \in DOMAIN markQueue : seq[j] = markQueue[k]
<1> DEFINE seq == RemoveAt(markQueue, i)
<1>1. markQueue \in Seq(Copies) /\ i \in 1 .. Len(markQueue) /\ Len(markQueue) \in Nat
      /\ DOMAIN markQueue = 1 .. Len(markQueue)
  BY DEF ClientType
<1>2. /\ seq \in Seq(Copies) /\ Len(seq) = Len(markQueue) - 1
      /\ \A j \in 1 .. i - 1 : seq[j] = markQueue[j]
      /\ \A j \in i .. Len(markQueue) - 1 : seq[j] = markQueue[j + 1]
  BY <1>1, RemoveAtProperties, Zenon
<1> HIDE DEF seq
<1>3. DOMAIN seq = 1 .. Len(markQueue) - 1
  BY <1>1, <1>2
<1>4. ASSUME NEW j \in DOMAIN seq
      PROVE  \/ j < i /\ j \in DOMAIN markQueue /\ seq[j] = markQueue[j]
             \/ ~(j < i) /\ j + 1 \in DOMAIN markQueue /\ seq[j] = markQueue[j + 1]
  <2>1. j \in Nat /\ j >= 1 /\ j <= Len(markQueue) - 1 /\ i \in Nat
    BY <1>1, <1>3
  <2>2. CASE j < i
    BY <1>1, <1>2, <2>1, <2>2
  <2>3. CASE ~(j < i)
    BY <1>1, <1>2, <2>1, <2>3
  <2> QED
    BY <2>2, <2>3
<1>5. \A j, k \in DOMAIN markQueue : markQueue[j].token = markQueue[k].token => j = k
  BY DEF ClientType
<1>6. \A j \in DOMAIN seq : j \in Nat /\ i \in Nat
  BY <1>1, <1>3
<1>7. \A j, k \in DOMAIN seq : seq[j].token = seq[k].token => j = k
  BY <1>4, <1>5, <1>6
<1>8. \A j \in DOMAIN seq : seq[j].token # markQueue[i].token
  BY <1>4, <1>5, <1>6
<1>9. \A j \in DOMAIN seq : \E k \in DOMAIN markQueue : seq[j] = markQueue[k]
  BY <1>4
<1> QED
  BY <1>2, <1>7, <1>8, <1>9 DEF seq

\* Marking takes a copy of an event that is stored.
LEMMA MarkedCopies ==
    ASSUME Types, NEW m \in Messages, MarkEventAsRead(m)
    PROVE  /\ ClientType' /\ rows[m] # NoRow
           /\ \A i \in DOMAIN markQueue' :
                 \/ markQueue'[i].token = m
                 \/ \E j \in DOMAIN markQueue : markQueue'[i] = markQueue[j]
<1>1. /\ markTimer' = TRUE /\ threadTimer' = threadTimer /\ threadCalls' = threadCalls
      /\ rows[m] # NoRow
  BY DEF MarkEventAsRead, Mark
<1>2. Copy(m) \in Copies /\ Copy(m).token = m
  BY <1>1 DEF Types, DaemonType, Copy, Copies, Rows
<1>3. ClientType /\ markQueue \in Seq(Copies)
      /\ \A i, j \in DOMAIN markQueue : markQueue[i].token = markQueue[j].token => i = j
  BY DEF Types, ClientType
<1>4. ASSUME NEW seq \in Seq(Copies), markQueue' = Append(seq, Copy(m)),
             \A i, j \in DOMAIN seq : seq[i].token = seq[j].token => i = j,
             \A i \in DOMAIN seq : seq[i].token # m,
             \A i \in DOMAIN seq : \E j \in DOMAIN markQueue : seq[i] = markQueue[j]
      PROVE  /\ markQueue' \in Seq(Copies)
             /\ \A i, j \in DOMAIN markQueue' : markQueue'[i].token = markQueue'[j].token => i = j
             /\ \A i \in DOMAIN markQueue' :
                 \/ markQueue'[i].token = m
                 \/ \E j \in DOMAIN markQueue : markQueue'[i] = markQueue[j]
  <2> DEFINE appended == Append(seq, Copy(m))
  <2>1. /\ appended \in Seq(Copies)
        /\ \A i, j \in DOMAIN appended : appended[i].token = appended[j].token => i = j
        /\ \A i \in DOMAIN appended :
              appended[i] = Copy(m) \/ \E j \in DOMAIN seq : appended[i] = seq[j]
    BY <1>2, <1>3, <1>4, CopyQueued
  <2> HIDE DEF appended
  <2>2. markQueue' = appended
    BY <1>4 DEF appended
  <2> QED
    BY <1>2, <1>4, <2>1, <2>2
<1>5. CASE m \notin Marked /\ markQueue' = Append(markQueue, Copy(m))
  <2>1. \A i \in DOMAIN markQueue : markQueue[i].token # m
    BY <1>5 DEF Marked, ToSet
  <2> QED
    BY <1>1, <1>3, <1>4, <1>5, <2>1 DEF Types, ClientType
<1>6. CASE \E i \in DOMAIN markQueue :
              markQueue[i].token = m /\ markQueue' = Append(RemoveAt(markQueue, i), Copy(m))
  <2>1. PICK i \in DOMAIN markQueue :
              markQueue[i].token = m /\ markQueue' = Append(RemoveAt(markQueue, i), Copy(m))
    BY <1>6
  <2> DEFINE seq == RemoveAt(markQueue, i)
  <2>2. /\ seq \in Seq(Copies)
        /\ \A j, k \in DOMAIN seq : seq[j].token = seq[k].token => j = k
        /\ \A j \in DOMAIN seq : seq[j].token # m
        /\ \A j \in DOMAIN seq : \E k \in DOMAIN markQueue : seq[j] = markQueue[k]
    BY <1>3, <2>1, TakenOut
  <2>3. markQueue' = Append(seq, Copy(m))
    BY <2>1
  <2> HIDE DEF seq
  <2> QED
    BY <1>1, <1>3, <1>4, <2>2, <2>3 DEF Types, ClientType
<1> QED
  BY <1>5, <1>6 DEF MarkEventAsRead, Mark

LEMMA ClientTypeStep ==
    ASSUME Types, [Next]_vars
    PROVE  ClientType'
<1>0. ClientType
  BY DEF Types
<1>1. CASE \/ Telepathy \/ RemoveSuperseded \/ (\E m \in Messages : RemoveMessage(m))
           \/ ChannelReady \/ Restart \/ UNCHANGED vars
  <2>1. UNCHANGED client
    BY <1>1 DEF Telepathy, ReceiveMessage, SendMessage, ReceiveReport, Arrive, Acknowledge,
                CloseChannel, RemoveSuperseded, RemoveMessage, ChannelReady, Restart, vars, client
  <2> QED
    BY <1>0, <2>1 DEF client, ClientType
<1>2. ASSUME NEW item, IgnoreRescued(item) \/ HandleMessage(item) \/ HandleSent(item)
                       \/ DeliveryReport(item)
      PROVE  ClientType'
  <2>1. UNCHANGED client
    BY <1>2, HandlerShape
  <2> QED
    BY <1>0, <2>1 DEF client, ClientType
<1>3. CASE WriteMarks
  <2>1. markQueue' = markQueue \/ markQueue' = <<>>
    BY <1>3 DEF WriteMarks
  <2>2. markTimer' = FALSE /\ threadTimer' = threadTimer /\ threadCalls' = threadCalls
    BY <1>3 DEF WriteMarks
  <2>3. CASE markQueue' = markQueue
    BY <1>0, <2>2, <2>3 DEF ClientType
  <2>4. CASE markQueue' = <<>>
    <3>1. markQueue' \in Seq(Copies) /\ DOMAIN markQueue' = {}
      BY <2>4
    <3> QED
      BY <1>0, <2>2, <3>1 DEF ClientType
  <2> QED
    BY <2>1, <2>3, <2>4
<1>4. CASE HandleThreadMark \/ Crash \/ MarkThreadsAsRead \/ CallMarkThreadsAsRead
  <2>1. threadCalls' \in Nat
    BY <1>0, <1>4 DEF HandleThreadMark, Crash, MarkThreadsAsRead, CallMarkThreadsAsRead, ClientType
  <2>2. markQueue' = markQueue /\ markTimer' = markTimer /\ threadTimer' \in BOOLEAN
    BY <1>0, <1>4 DEF HandleThreadMark, Crash, MarkThreadsAsRead, CallMarkThreadsAsRead, ClientType
  <2> QED
    BY <1>0, <2>1, <2>2 DEF ClientType
<1> QED
  BY <1>1, <1>2, <1>3, <1>4, MarkedCopies DEF Next, Handle, User

-----------------------------------------------------------------------------
(* What is stored, and what is written over it                             *)

LEMMA MessageHandled ==
    ASSUME Types, NEW item, HandleMessage(item) \/ HandleSent(item)
    PROVE  item.id = 1 /\ item.token \in Messages
           /\ \E row \in Rows : Write(item, row)
<1>1. Handling(item) /\ item.status = NoMessage
  BY DEF HandleMessage, HandleSent
<1>2. item.id = 1 /\ item.token \in Messages
  BY <1>1, HandlingShape DEF Types, Known
<1>3. /\ [status |-> IF item.token \in OwnReceived THEN "Delivered" ELSE "Unknown",
          new |-> TRUE] \in Rows
      /\ [status |-> SentStatus, new |-> FALSE] \in Rows
  BY MessageAssumption DEF Rows, Statuses
<1> QED
  BY <1>2, <1>3 DEF HandleMessage, HandleSent

LEMMA ReportHandled ==
    ASSUME Types, NEW item, DeliveryReport(item)
    PROVE  \/ Skip(item)
           \/ /\ rows[item.token] # NoRow /\ ~IsRead(rows[item.token])
              /\ item.id # 1 /\ item.token \in Messages
              /\ Write(item, [rows[item.token] EXCEPT !.status = item.status])
<1>1. Handling(item) /\ item.status # NoMessage
  BY DEF DeliveryReport, Reporting
<1>2. item.id # 1 /\ item.token \in Messages
  BY <1>1, HandlingShape DEF Types, Known
<1> QED
  BY <1>2 DEF DeliveryReport

\* Nothing that is settled comes back.
LEMMA SettledStays ==
    ASSUME Types, [Next]_vars
    PROVE  \A m \in Messages : settled[m] \subseteq settled'[m]
<1>0. settled \in [Messages -> SUBSET Nat]
  BY DEF Types, DaemonType
<1>1. CASE UNCHANGED settled
  BY <1>1
<1>2. ASSUME NEW items \in SUBSET Items, Settled(items)
      PROVE  \A m \in Messages : settled[m] \subseteq settled'[m]
  BY <1>0, <1>2, SettledGrows
<1>3. \A m \in Messages : {Item(m, 1, NoMessage)} \in SUBSET Items
  BY ItemType
<1>4. \A i \in DOMAIN queue : {queue[i]} \ ToSet(inbox) \in SUBSET Items
  BY DEF Types, QueueType
<1>5. ToSet(inbox) \ ToSet(queue) \in SUBSET Items
  BY DEF Types, QueueType, ToSet
<1>6. ASSUME NEW item, IgnoreRescued(item) \/ HandleMessage(item) \/ HandleSent(item)
                       \/ DeliveryReport(item)
      PROVE  \A m \in Messages : settled[m] \subseteq settled'[m]
  <2>1. Handling(item) /\ Settled({item})
    BY <1>6, HandlerShape
  <2>2. {item} \in SUBSET Items
    BY <2>1, HandlingShape DEF Types
  <2> QED
    BY <1>2, <2>1, <2>2
<1>7. CASE Telepathy
  <2>1. \/ UNCHANGED settled
        \/ \E m \in Messages : Settled({Item(m, 1, NoMessage)})
        \/ \E i \in DOMAIN queue : Settled({queue[i]} \ ToSet(inbox))
    BY <1>7
       DEF Telepathy, ReceiveMessage, SendMessage, ReceiveReport, Arrive, Acknowledge, CloseChannel
  <2> QED
    BY <1>1, <1>2, <1>3, <1>4, <2>1
<1>8. CASE Crash
  BY <1>2, <1>5, <1>8 DEF Crash
<1>9. CASE \/ RemoveSuperseded \/ HandleThreadMark \/ (\E m \in Messages : RemoveMessage(m))
           \/ ChannelReady \/ Restart \/ UNCHANGED vars
  BY <1>1, <1>9 DEF RemoveSuperseded, HandleThreadMark, RemoveMessage, ChannelReady, Restart, vars
<1>10. CASE \/ (\E m \in Messages : MarkEventAsRead(m))
            \/ WriteMarks \/ MarkThreadsAsRead \/ CallMarkThreadsAsRead
  BY <1>1, <1>10 DEF MarkEventAsRead, Mark, WriteMarks, MarkThreadsAsRead,
                     CallMarkThreadsAsRead, others
<1> QED
  BY <1>6, <1>7, <1>8, <1>9, <1>10 DEF Next, Handle, User

LEMMA StoredStays ==
    ASSUME Types, StoredWereSettled, [Next]_vars,
           \A m \in Messages : rows'[m] # NoRow \/ m \in removed' =>
               rows[m] # NoRow \/ m \in removed \/ 1 \in settled'[m],
           superseding' # NoMessage =>
               superseding' = superseding \/ 1 \in settled'[superseding'],
           \A i \in DOMAIN markQueue' :
               \/ \E j \in DOMAIN markQueue : markQueue'[i] = markQueue[j]
               \/ markQueue'[i].token \in Messages /\ rows[markQueue'[i].token] # NoRow
    PROVE  StoredWereSettled'
<1>1. \A m \in Messages : settled[m] \subseteq settled'[m]
  BY SettledStays
<1>2. /\ superseding \in Messages \cup {NoMessage}
      /\ \A j \in DOMAIN markQueue : markQueue[j].token \in Messages
  <2>1. \A j \in DOMAIN markQueue : markQueue[j] \in Copies
    BY DEF Types, ClientType
  <2> QED
    BY <2>1 DEF Types, DaemonType, Copies
<1>3. \A m \in Messages : rows'[m] # NoRow \/ m \in removed' => 1 \in settled'[m]
  <2>1. \A m \in Messages : rows[m] # NoRow \/ m \in removed => 1 \in settled[m]
    BY DEF StoredWereSettled
  <2> QED
    BY <1>1, <2>1
<1>4. superseding' # NoMessage => 1 \in settled'[superseding']
  BY <1>1, <1>2 DEF StoredWereSettled
<1>5. \A i \in DOMAIN markQueue' : 1 \in settled'[markQueue'[i].token]
  <2> SUFFICES ASSUME NEW i \in DOMAIN markQueue'
               PROVE  1 \in settled'[markQueue'[i].token]
    OBVIOUS
  <2>1. CASE \E j \in DOMAIN markQueue : markQueue'[i] = markQueue[j]
    BY <1>1, <1>2, <2>1 DEF StoredWereSettled
  <2>2. CASE markQueue'[i].token \in Messages /\ rows[markQueue'[i].token] # NoRow
    BY <1>1, <2>2 DEF StoredWereSettled
  <2> QED
    BY <2>1, <2>2
<1> QED
  BY <1>3, <1>4, <1>5 DEF StoredWereSettled

\* A message that replaces another one is handled when that one is settled.
LEMMA MessageStored ==
    ASSUME Types, InOrder, StoredWereSettled, NEW item, HandleMessage(item) \/ HandleSent(item),
           [Next]_vars
    PROVE  StoredWereSettled'
<1>1. /\ Handling(item) /\ Settled({item}) /\ markQueue' = markQueue /\ removed' = removed
      /\ item.status = NoMessage
  BY HandlerShape DEF HandleMessage, HandleSent, client
<1>2. /\ item.id = 1 /\ item.token \in Messages /\ item \in Items
      /\ 1 \in DOMAIN inbox /\ item = inbox[1]
  BY <1>1, HandlingShape, MessageHandled DEF Types
<1>3. 1 \in settled'[item.token]
  BY <1>1, <1>2, SettledGrows DEF Types, DaemonType
<1>4. \A m \in Messages : rows'[m] # NoRow => rows[m] # NoRow \/ m = item.token
  BY <1>2 DEF Types, DaemonType, HandleMessage, HandleSent, Write
<1>5. superseding' # NoMessage => superseding' = superseding \/ 1 \in settled'[superseding']
  <2>1. CASE HandleSent(item)
    BY <2>1 DEF HandleSent
  <2>2. CASE HandleMessage(item)
    <3> DEFINE old == Supersedes[item.token]
    <3>1. superseding' = old /\ item.token \in Received
      BY <2>2 DEF HandleMessage
    <3>2. ASSUME old # NoMessage
          PROVE  1 \in settled'[old]
      <4>1. old \in Messages /\ Replaces(inbox[1], old)
        BY <1>2, <3>1, <3>2, MessageAssumption DEF Replaces
      <4>2. ~Before(inbox, 1, old)
        BY DEF Before
      <4>3. 1 \in settled[old]
        BY <1>2, <4>1, <4>2 DEF InOrder, InboxInOrder
      <4> QED
        BY <4>1, <4>3, SettledStays
    <3> QED
      BY <3>1, <3>2
  <2> QED
    BY <2>1, <2>2
<1> QED
  BY <1>1, <1>3, <1>4, <1>5, StoredStays

LEMMA StoredStep ==
    ASSUME Types, InOrder, StoredWereSettled, [Next]_vars
    PROVE  StoredWereSettled'
<1>0. /\ rows \in [Messages -> Rows \cup {NoRow}] /\ removed \subseteq Messages
      /\ superseding \in Messages \cup {NoMessage}
  BY DEF Types, DaemonType
<1>1. ASSUME NEW item, IgnoreRescued(item) \/ DeliveryReport(item)
      PROVE  StoredWereSettled'
  <2>1. UNCHANGED <<superseding, removed, markQueue>>
    BY <1>1, HandlerShape DEF IgnoreRescued, DeliveryReport, Reporting, client
  <2>2. \A m \in Messages : rows'[m] # NoRow => rows[m] # NoRow
    <3>1. CASE IgnoreRescued(item)
      BY <3>1 DEF IgnoreRescued
    <3>2. CASE DeliveryReport(item)
      BY <1>0, <3>2, ReportHandled DEF Skip, Write
    <3> QED
      BY <1>1, <3>1, <3>2
  <2> QED
    BY <2>1, <2>2, StoredStays
<1>2. CASE RemoveSuperseded
  <2>1. /\ markQueue' = markQueue /\ superseding' = NoMessage
        /\ removed' = removed \cup {superseding} /\ superseding # NoMessage
    BY <1>2 DEF RemoveSuperseded, client
  <2>2. \A m \in Messages : rows'[m] # NoRow => rows[m] # NoRow
    BY <1>0, <1>2 DEF RemoveSuperseded
  <2>3. superseding \in Messages /\ 1 \in settled'[superseding]
    BY <1>0, <2>1, SettledStays DEF StoredWereSettled
  <2> QED
    BY <2>1, <2>2, <2>3, StoredStays
<1>3. CASE HandleThreadMark
  <2>1. UNCHANGED <<superseding, removed, markQueue>>
    BY <1>3 DEF HandleThreadMark
  <2>2. \A m \in Messages : rows'[m] # NoRow => rows[m] # NoRow
    BY <1>0, <1>3 DEF HandleThreadMark
  <2> QED
    BY <2>1, <2>2, StoredStays
<1>4. ASSUME NEW m \in Messages, RemoveMessage(m)
      PROVE  StoredWereSettled'
  <2>1. UNCHANGED <<superseding, markQueue>> /\ removed' = removed \cup {m} /\ rows[m] # NoRow
    BY <1>4 DEF RemoveMessage, client
  <2>2. \A n \in Messages : rows'[n] # NoRow => rows[n] # NoRow
    BY <1>0, <1>4 DEF RemoveMessage
  <2> QED
    BY <2>1, <2>2, StoredStays
<1>5. CASE Crash
  <2>1. /\ UNCHANGED <<rows, markQueue>> /\ superseding' = NoMessage
        /\ removed' = removed \cup ({superseding} \ {NoMessage})
    BY <1>5 DEF Crash
  <2>2. superseding # NoMessage => superseding \in Messages /\ 1 \in settled'[superseding]
    BY <1>0, SettledStays DEF StoredWereSettled
  <2> QED
    BY <2>1, <2>2, StoredStays
<1>6. CASE WriteMarks
  <2>1. UNCHANGED <<superseding, removed>> /\ (markQueue' = markQueue \/ markQueue' = <<>>)
    BY <1>6 DEF WriteMarks, others
  <2>2. \A i \in DOMAIN markQueue' : \E j \in DOMAIN markQueue : markQueue'[i] = markQueue[j]
    <3>1. DOMAIN <<>> = {}
      OBVIOUS
    <3> QED
      BY <2>1, <3>1
  <2>3. ASSUME NEW m \in Messages, rows'[m] # NoRow
        PROVE  rows[m] # NoRow \/ 1 \in settled'[m]
    <3>1. CASE \E i \in DOMAIN markQueue : markQueue[i].token = m
      BY <3>1, SettledStays DEF StoredWereSettled
    <3> QED
      BY <1>6, <2>3, <3>1, MarksWritten
  <2> QED
    BY <2>1, <2>2, <2>3, StoredStays
<1>7. ASSUME NEW m \in Messages, MarkEventAsRead(m)
      PROVE  StoredWereSettled'
  <2>1. UNCHANGED <<superseding, removed, rows>>
    BY <1>7 DEF MarkEventAsRead, Mark, others
  <2> QED
    BY <1>7, <2>1, MarkedCopies, StoredStays
<1>8. CASE Telepathy \/ ChannelReady \/ Restart \/ UNCHANGED vars
  <2>1. UNCHANGED <<superseding, removed, rows, client>>
    BY <1>8 DEF Telepathy, ReceiveMessage, SendMessage, ReceiveReport, Arrive, Acknowledge,
                CloseChannel, ChannelReady, Restart, vars
  <2> QED
    BY <2>1, StoredStays DEF client
<1>9. CASE MarkThreadsAsRead \/ CallMarkThreadsAsRead
  <2>1. UNCHANGED <<superseding, removed, rows, markQueue>>
    BY <1>9 DEF MarkThreadsAsRead, CallMarkThreadsAsRead, others
  <2> QED
    BY <2>1, StoredStays
<1> QED
  BY <1>1, <1>2, <1>3, <1>4, <1>5, <1>6, <1>7, <1>8, <1>9, MessageStored
     DEF Next, Handle, User

-----------------------------------------------------------------------------
(* What a step may not do to an event                                      *)

Kept(m) ==
    /\ IsRead(rows[m]) /\ rows'[m] # NoRow => IsRead(rows'[m]) \/ m \in disturbed'
    /\ IsSeen(rows[m]) /\ rows'[m] # NoRow => IsSeen(rows'[m]) \/ m \in disturbed'

StayGone(m) ==
    (m \in removed => rows[m] = NoRow \/ m \in disturbed) =>
        (m \in removed' => rows'[m] = NoRow \/ m \in disturbed')

LEMMA UnchangedKeep ==
    ASSUME NEW m, rows'[m] = rows[m], m \in removed' => m \in removed,
           m \in disturbed => m \in disturbed'
    PROVE  Kept(m) /\ StayGone(m)
BY DEF Kept, StayGone

\* A message is written over an event only when it is handled again, and such
\* an event is known to be disturbed.
LEMMA MessageKeeps ==
    ASSUME Types, StoredWereSettled, NEW item, HandleMessage(item) \/ HandleSent(item),
           NEW m \in Messages
    PROVE  Kept(m) /\ StayGone(m)
<1>1. PICK row : /\ item.id = 1 /\ item.token \in Messages /\ row \in Rows
                 /\ Write(item, row) /\ removed' = removed
  BY MessageHandled DEF HandleMessage, HandleSent
<1>2. rows \in [Messages -> Rows \cup {NoRow}]
  BY DEF Types, DaemonType
<1>3. \/ rows' = rows /\ disturbed' = disturbed
      \/ /\ rows' = [rows EXCEPT ![item.token] = row]
         /\ disturbed' = IF Again(item) THEN disturbed \cup {item.token}
                         ELSE disturbed \ {item.token}
  BY <1>1 DEF Write
<1>4. rows[item.token] # NoRow \/ item.token \in removed => Again(item)
  BY <1>1 DEF StoredWereSettled, Again
<1>5. CASE m # item.token
  BY <1>1, <1>2, <1>3, <1>5, UnchangedKeep
<1>6. CASE rows' = rows /\ disturbed' = disturbed
  BY <1>1, <1>6, UnchangedKeep
<1>7. CASE /\ m = item.token
           /\ disturbed' = IF Again(item) THEN disturbed \cup {item.token}
                           ELSE disturbed \ {item.token}
  <2>1. rows[m] # NoRow \/ m \in removed => m \in disturbed'
    BY <1>4, <1>7
  <2> QED
    BY <1>1, <2>1 DEF Kept, StayGone, IsRead, IsSeen
<1> QED
  BY <1>3, <1>5, <1>6, <1>7

\* A report changes an event that is there and not read.
LEMMA ReportKeeps ==
    ASSUME Types, NEW item, DeliveryReport(item), NEW m \in Messages
    PROVE  Kept(m) /\ StayGone(m)
<1>1. removed' = removed /\ rows \in [Messages -> Rows \cup {NoRow}]
  BY DEF DeliveryReport, Reporting, Types, DaemonType
<1>2. CASE Skip(item)
  BY <1>1, <1>2, UnchangedKeep DEF Skip
<1>3. CASE /\ rows[item.token] # NoRow /\ ~IsRead(rows[item.token])
           /\ item.id # 1 /\ item.token \in Messages
           /\ Write(item, [rows[item.token] EXCEPT !.status = item.status])
  <2>1. \/ rows' = rows
        \/ rows' = [rows EXCEPT ![item.token] = [rows[item.token] EXCEPT !.status = item.status]]
    BY <1>3 DEF Write
  <2>2. disturbed \subseteq disturbed'
    BY <1>3 DEF Write
  <2>3. CASE m # item.token
    BY <1>1, <2>1, <2>2, <2>3, UnchangedKeep
  <2>4. CASE m = item.token
    <3>1. rows[m] # NoRow /\ ~IsRead(rows[m]) /\ rows[m] \in Rows
      BY <1>1, <1>3, <2>4
    <3>2. rows'[m] = rows[m] \/ rows'[m] = [rows[m] EXCEPT !.status = item.status]
      BY <1>1, <2>1, <2>4
    <3>3. IsSeen(rows[m]) /\ rows'[m] # NoRow => IsSeen(rows'[m])
      BY <3>1, <3>2 DEF IsSeen, Rows
    <3> QED
      BY <1>1, <2>2, <3>1, <3>3 DEF Kept, StayGone
  <2> QED
    BY <2>3, <2>4
<1> QED
  BY <1>2, <1>3, ReportHandled

\* An outdated copy that is written back disturbs the event.
LEMMA MarksKeep ==
    ASSUME Types, WriteMarks, NEW m \in Messages
    PROVE  Kept(m) /\ StayGone(m)
<1>1. removed' = removed /\ disturbed \subseteq disturbed'
  BY DEF WriteMarks, others
<1>2. CASE rows'[m] = rows[m]
  BY <1>1, <1>2, UnchangedKeep
<1>3. CASE \E i \in DOMAIN markQueue :
              /\ rows'[m] = [status |-> markQueue[i].status, new |-> FALSE]
              /\ (rows[m] # NoRow /\ rows[m].status = markQueue[i].status) \/ m \in disturbed'
  BY <1>1, <1>3 DEF Kept, StayGone, IsRead, IsSeen
<1> QED
  BY <1>2, <1>3, MarksWritten

LEMMA StepKeeps ==
    ASSUME Types, StoredWereSettled, [Next]_vars, NEW m \in Messages
    PROVE  Kept(m) /\ StayGone(m)
<1>0. rows \in [Messages -> Rows \cup {NoRow}]
  BY DEF Types, DaemonType
<1>1. ASSUME NEW item, IgnoreRescued(item)
      PROVE  Kept(m) /\ StayGone(m)
  BY <1>1, UnchangedKeep DEF IgnoreRescued
<1>2. CASE RemoveSuperseded
  <2>1. CASE m = superseding
    <3>1. rows'[m] = NoRow \/ m \in disturbed'
      BY <1>0, <1>2, <2>1 DEF RemoveSuperseded
    <3> QED
      BY <3>1 DEF Kept, StayGone
  <2>2. CASE m # superseding
    BY <1>0, <1>2, <2>2, UnchangedKeep DEF RemoveSuperseded
  <2> QED
    BY <2>1, <2>2
<1>3. CASE HandleThreadMark
  <2>1. removed' = removed /\ disturbed' = disturbed
    BY <1>3 DEF HandleThreadMark
  <2>2. CASE rows'[m] = rows[m]
    BY <2>1, <2>2, UnchangedKeep
  <2>3. CASE rows[m] # NoRow /\ rows'[m] = [rows[m] EXCEPT !.new = FALSE]
    <3>1. rows[m] \in Rows
      BY <1>0, <2>3
    <3>2. rows'[m].status = rows[m].status /\ rows'[m].new = FALSE
      BY <2>3, <3>1 DEF Rows
    <3> QED
      BY <2>1, <2>3, <3>2 DEF Kept, StayGone, IsRead, IsSeen
  <2> QED
    BY <1>3, <2>2, <2>3 DEF HandleThreadMark
<1>4. ASSUME NEW n \in Messages, RemoveMessage(n)
      PROVE  Kept(m) /\ StayGone(m)
  <2>1. CASE m = n
    <3>1. rows'[m] = NoRow
      BY <1>0, <1>4, <2>1 DEF RemoveMessage
    <3> QED
      BY <3>1 DEF Kept, StayGone
  <2>2. CASE m # n
    BY <1>0, <1>4, <2>2, UnchangedKeep DEF RemoveMessage
  <2> QED
    BY <2>1, <2>2
<1>5. CASE Crash
  <2>1. /\ rows' = rows
        /\ removed' = removed \cup ({superseding} \ {NoMessage})
        /\ disturbed' = disturbed \cup ({superseding} \ {NoMessage})
    BY <1>5 DEF Crash
  <2> QED
    BY <2>1 DEF Kept, StayGone
<1>6. CASE Telepathy \/ ChannelReady \/ Restart \/ UNCHANGED vars
  <2>1. UNCHANGED <<rows, removed, disturbed>>
    BY <1>6 DEF Telepathy, ReceiveMessage, SendMessage, ReceiveReport, Arrive, Acknowledge,
                CloseChannel, ChannelReady, Restart, vars
  <2> QED
    BY <2>1, UnchangedKeep
<1>7. CASE \/ (\E n \in Messages : MarkEventAsRead(n))
           \/ MarkThreadsAsRead \/ CallMarkThreadsAsRead
  <2>1. UNCHANGED <<rows, removed, disturbed>>
    BY <1>7 DEF MarkEventAsRead, Mark, MarkThreadsAsRead, CallMarkThreadsAsRead, others
  <2> QED
    BY <2>1, UnchangedKeep
<1> QED
  BY <1>1, <1>2, <1>3, <1>4, <1>5, <1>6, <1>7, MessageKeeps, ReportKeeps, MarksKeep
     DEF Next, Handle, User

-----------------------------------------------------------------------------
(* Theorems                                                                *)

RemovedStay == \A m \in removed : rows[m] = NoRow \/ m \in disturbed

\* A timer runs for the copies that wait, or their last write has failed.
Served == markQueue # <<>> => markTimer \/ writeFailed

IInv == Types /\ NothingLost /\ InOrder /\ StoredWereSettled /\ RemovedStay /\ Served

LEMMA InitInvariant == Init => IInv
<1> SUFFICES ASSUME Init PROVE IInv
  OBVIOUS
<1>1. queue = <<>> /\ inbox = <<>> /\ markQueue = <<>> /\ arrived = [m \in Messages |-> 0]
      /\ settled = [m \in Messages |-> {}] /\ rows = [m \in Messages |-> NoRow]
      /\ removed = {} /\ disturbed = {} /\ superseding = NoMessage /\ observer = "preparing"
      /\ markTimer = FALSE /\ threadTimer = FALSE /\ threadCalls = 0
  BY DEF Init
<1>2. DOMAIN queue = {} /\ DOMAIN inbox = {} /\ DOMAIN markQueue = {}
      /\ queue \in Seq(Items) /\ inbox \in Seq(Items) /\ markQueue \in Seq(Copies)
  BY <1>1
<1>3. Types
  BY <1>1, <1>2 DEF Types, QueueType, DaemonType, ClientType
<1>4. NothingLost
  BY <1>1 DEF NothingLost
<1>5. InOrder /\ StoredWereSettled
  BY <1>1, <1>2 DEF InOrder, InboxInOrder, QueueInOrder, QueuedOnce, StoredWereSettled
<1> QED
  BY <1>1, <1>3, <1>4, <1>5 DEF IInv, RemovedStay, Served

LEMMA ServedStep ==
    ASSUME Types, Served, [Next]_vars
    PROVE  Served'
<1>1. CASE WriteMarks
  BY <1>1 DEF WriteMarks, Served
<1>2. CASE \E m \in Messages : MarkEventAsRead(m)
  BY <1>2 DEF MarkEventAsRead, Mark, Served
<1>3. ASSUME UNCHANGED <<markQueue, markTimer, writeFailed>>
      PROVE  Served'
  BY <1>3 DEF Served
<1>4. ASSUME NEW item, IgnoreRescued(item) \/ HandleMessage(item) \/ HandleSent(item)
                       \/ DeliveryReport(item)
      PROVE  Served'
  BY <1>3, <1>4 DEF IgnoreRescued, HandleMessage, HandleSent, DeliveryReport, Reporting, client
<1>5. CASE Telepathy
  BY <1>3, <1>5 DEF Telepathy, ReceiveMessage, SendMessage, ReceiveReport, Arrive, Acknowledge,
                    CloseChannel, client
<1>6. CASE \/ RemoveSuperseded \/ HandleThreadMark \/ (\E m \in Messages : RemoveMessage(m))
           \/ ChannelReady \/ Restart \/ Crash
  BY <1>3, <1>6 DEF RemoveSuperseded, HandleThreadMark, RemoveMessage, ChannelReady, Restart,
                    Crash, client
<1>7. CASE MarkThreadsAsRead \/ CallMarkThreadsAsRead \/ UNCHANGED vars
  BY <1>3, <1>7 DEF MarkThreadsAsRead, CallMarkThreadsAsRead, vars, client
<1> QED
  BY <1>1, <1>2, <1>4, <1>5, <1>6, <1>7 DEF Next, Handle, User

LEMMA NextInvariant == IInv /\ [Next]_vars => IInv'
<1> SUFFICES ASSUME IInv, [Next]_vars PROVE IInv'
  OBVIOUS
<1>1. Waiting
  BY DEF IInv, Types, Waiting
<1>2. QueueType' /\ NothingLost' /\ InOrder'
  BY <1>1, WaitingStep
<1>3. DaemonType' /\ ClientType'
  BY DaemonTypeStep, ClientTypeStep DEF IInv
<1>4. StoredWereSettled' /\ Served'
  BY StoredStep, ServedStep DEF IInv
<1>5. RemovedStay'
  <2>1. removed' \subseteq Messages /\ removed \subseteq Messages
    BY <1>3 DEF IInv, Types, DaemonType
  <2>2. \A m \in Messages : StayGone(m)
    BY StepKeeps DEF IInv
  <2> QED
    BY <2>1, <2>2 DEF IInv, RemovedStay, StayGone
<1> QED
  BY <1>2, <1>3, <1>4, <1>5 DEF IInv, Types

LEMMA Invariance == Spec => []IInv
<1> QED
  BY InitInvariant, NextInvariant, PTL DEF Spec

\* When the daemon observes a channel and has handled what it was told, each
\* message and report that ever arrived is settled, for any number of faults:
\* no gap between the pending messages and the signals (onTextChannelAvailable).
THEOREM NothingIsEverMissed == Spec => []NothingMissed
<1>1. IInv => NothingMissed
  <2> SUFFICES ASSUME IInv, observer = "observing", inbox = <<>>,
                      NEW m \in Messages, NEW k \in 1 .. arrived[m]
               PROVE  k \in settled[m]
    BY DEF NothingMissed
  <2>1. DOMAIN inbox = {}
    OBVIOUS
  <2> QED
    BY <2>1 DEF IInv, NothingLost, Holds
<1> QED
  BY <1>1, Invariance, PTL

\* A removed message stays without an event whatever reports come late, unless
\* an old copy or a message handled again brings it back (onMessageReceived).
THEOREM RemovedMessagesStayRemoved == Spec => []RemovedStayRemoved
<1>1. IInv => RemovedStayRemoved
  BY DEF IInv, RemovedStay, RemovedStayRemoved
<1> QED
  BY <1>1, Invariance, PTL

\* The queues hold what they are meant to hold, each copy once, and a timer runs
\* for the copies that wait (HistoryModel::markEventAsRead).
THEOREM QueuesAreAlwaysServed == Spec => []QueuesAreServed
<1>1. IInv => QueuesAreServed
  <2> SUFFICES ASSUME IInv PROVE QueuesAreServed
    OBVIOUS
  <2>1. /\ observer \in {"down", "preparing", "observing"}
        /\ superseding \in Messages \cup {NoMessage}
        /\ superseding # NoMessage => observer = "observing"
        /\ inbox # <<>> => observer = "observing"
        /\ rows \in [Messages -> Rows \cup {NoRow}]
        /\ settled \in [Messages -> SUBSET Nat]
        /\ removed \subseteq Messages /\ disturbed \subseteq Messages
    BY DEF IInv, Types, DaemonType
  <2>2. \A item \in ToSet(queue) \cup ToSet(inbox) :
            item.token \in Messages /\ item.id \in 1 .. arrived[item.token]
    <3>1. \A i \in DOMAIN queue : queue[i] \in Items /\ Known(queue[i], arrived)
      BY DEF IInv, Types, QueueType
    <3>2. \A i \in DOMAIN inbox : inbox[i] \in Items /\ Known(inbox[i], arrived)
      BY DEF IInv, Types, QueueType
    <3> QED
      BY <3>1, <3>2 DEF ToSet, Known, Items
  <2>3. /\ \A i, j \in DOMAIN markQueue : markQueue[i].token = markQueue[j].token => i = j
        /\ markTimer \in BOOLEAN /\ threadTimer \in BOOLEAN /\ threadCalls \in Nat
    BY DEF IInv, Types, ClientType
  <2>4. Marked \subseteq Messages
    <3>1. \A i \in DOMAIN markQueue : markQueue[i] \in Copies
      BY DEF IInv, Types, ClientType
    <3> QED
      BY <3>1 DEF Marked, ToSet, Copies
  <2>5. TypeOK
    BY <2>1, <2>2, <2>3, <2>4 DEF TypeOK
  <2> QED
    BY <2>5 DEF IInv, Served, QueuesAreServed, MarksAreNotStranded
<1> QED
  BY <1>1, Invariance, PTL

\* The Read status is not reverted and what was seen does not become unseen, by
\* reports in any order, late marks or retries (onMessageReceived: "don't allow
\* reverting the status").
THEOREM StatusesAreAlwaysKept == Spec => StatusesAreKept
<1>1. IInv /\ [Next]_vars =>
        /\ [\A m \in Messages :
              IsRead(rows[m]) /\ rows'[m] # NoRow => IsRead(rows'[m]) \/ m \in disturbed']_vars
        /\ [\A m \in Messages :
              IsSeen(rows[m]) /\ rows'[m] # NoRow => IsSeen(rows'[m]) \/ m \in disturbed']_vars
  BY StepKeeps DEF IInv, Kept
<1> QED
  BY <1>1, Invariance, PTL DEF Spec, StatusesAreKept, ReadStatusKept, SeenStaysSeen

=============================================================================
