--------------------------- MODULE MCThreadLookup ---------------------------
(***************************************************************************)
(* A short number that is the same as two long ones, a long one written in *)
(* two ways; an account whose numbers are compared everywhere, and one     *)
(* whose numbers only clients compare.                                     *)
(***************************************************************************)
EXTENDS ThreadLookup

MCAccounts == {"phone", "sip"}
MCProtocol == [phone |-> "ofono", sip |-> "sip"]
MCIds == {"a", "a-", "b", "c"}
MCNormal == [i \in MCIds |-> IF i = "a-" THEN "a" ELSE i]
MCLong == {"a", "b", "c"}
MCSimilar == {{"a", "b"}, {"b", "c"}}
MCLists == {<<>>, <<"a">>, <<"a-">>, <<"b">>, <<"c">>, <<"a", "b">>, <<"b", "a">>, <<"c", "c">>, <<"a", "c">>,
            <<"b", "a", "c">>, <<"c", "b", "a">>}
MCRooms == {"#room"}
=============================================================================
