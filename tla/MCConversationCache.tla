------------------------ MODULE MCConversationCache ------------------------
(***************************************************************************)
(* Three threads with one number (two SIMs and a SIP account), one of them *)
(* with a voice thread beside it, and a thread with another chat type.     *)
(***************************************************************************)
EXTENDS ConversationCache

CONSTANTS sim1, sim2, sip, mms

MCThreads == {sim1, sim2, sip, mms}
MCKeyOrder == <<sip, mms, sim1, sim2>>
MCGrouping == MCThreads
MCChatType == [t \in MCThreads |-> IF t = mms THEN "none" ELSE "contact"]
MCSameNumbers == MCGrouping \X MCGrouping
MCVoiceKeys == {sim1}
MCStamps == {1, 2}
=============================================================================
