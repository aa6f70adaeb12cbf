-------------------------- MODULE MCGroupedThreads --------------------------
(* The same person with two SIM cards, and a room. *)
EXTENDS GroupedThreads

CONSTANTS sim1, sim2, room, ann

MCThreads == {sim1, sim2, room}
MCKeyOrder == <<sim1, sim2, room>>
MCGrouping == {sim1, sim2}
MCChatType == [t \in MCThreads |-> IF t = room THEN "room" ELSE "contact"]
MCSameNumbers == MCGrouping \X MCGrouping
MCInitialStores == {[t \in MCThreads |-> 0],
                    [t \in MCThreads |-> IF t = sim2 THEN 2 ELSE 1]}
=============================================================================
