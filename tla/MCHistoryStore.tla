--------------------------- MODULE MCHistoryStore ---------------------------
(***************************************************************************)
(* A small instance of HistoryStore: a text thread with a multipart        *)
(* message, a plain message and an information event, and a voice thread   *)
(* with a call.                                                            *)
(***************************************************************************)
EXTENDS HistoryStore

CONSTANTS alice, call,               \* threads
          photo, hello, joined, ring \* events

MCTextThreads == {alice}
MCVoiceThreads == {call}
MCEvents == {photo, hello, joined, ring}
MCInfoEvents == {joined}
MCMultipartEvents == {photo}
MCStamps == {1, 2}
MCThreadOf == [e \in MCEvents |-> IF e = ring THEN call ELSE alice]
MCStamp == [e \in MCEvents |-> IF e = photo THEN 2 ELSE 1]

\* Requests of at most two events: one thread or several, text and voice,
\* counted or not, and the same event twice.
MCRequests == {<<joined>>, <<photo, hello>>, <<hello, ring>>,
               <<ring, photo>>, <<ring, ring>>}
=============================================================================
