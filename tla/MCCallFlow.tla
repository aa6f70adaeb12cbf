----------------------------- MODULE MCCallFlow -----------------------------
(***************************************************************************)
(* An incoming call with a long number, a call to the short one that is    *)
(* the same, in one batch with a text channel and a flash message.         *)
(***************************************************************************)
EXTENDS CallFlow

CONSTANTS incoming, outgoing, text, flash, batch1, batch2

MCAccounts == {"phone"}
MCProtocol == [phone |-> "ofono"]
MCIds == {"a", "b"}
MCNormal == [i \in MCIds |-> i]
MCSimilar == {{"a", "b"}}
MCLists == {<<"a">>, <<"b">>}
MCCallWith == [c \in {incoming, outgoing} |->
    [account |-> "phone", type |-> "Voice", chat |-> "Contact",
     of |-> IF c = incoming THEN <<"a">> ELSE <<"b">>]]
MCRemoteMembers == [c \in {incoming, outgoing} |-> MCCallWith[c].of]
MCBatch == [c \in {batch1, batch2} |-> IF c = batch1 THEN {incoming} ELSE {outgoing, text, flash}]
=============================================================================
