---------------------------- MODULE MCClientModel ----------------------------
(***************************************************************************)
(* A thread of three events, two of them equally old, of which a page has  *)
(* two.                                                                    *)
(***************************************************************************)
EXTENDS ClientModel

CONSTANTS first, second, third, thread

MCItems == {first, second, third}
MCTime == [item \in MCItems |-> IF item = first THEN 1 ELSE 2]
=============================================================================
