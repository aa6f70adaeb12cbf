--------------------------- MODULE MCMessageFlow ---------------------------
(***************************************************************************)
(* A message sent from this device, with delivery reports, and one that    *)
(* the user sends from another device to replace it.                       *)
(***************************************************************************)
EXTENDS MessageFlow

CONSTANTS sent, newer

MCReceived == {newer}
MCSupersedes == [m \in MCReceived |-> sent]
=============================================================================
