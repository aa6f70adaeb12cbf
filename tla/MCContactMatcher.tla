-------------------------- MODULE MCContactMatcher --------------------------
(* Two identifiers of which one is a number and one the SIP URI of that       *)
(* number, a second number, and two contacts.                                 *)
EXTENDS ContactMatcher, TLC

CONSTANTS number, uri, other, anna, ben

MCIds == {number, uri, other}
MCNormal == [id \in MCIds |-> IF id = uri THEN number ELSE id]
MCAddressable == {number, uri}
MCContacts == {anna, ben}
ContactSymmetry == Permutations(MCContacts)
=============================================================================
