----------------------------- MODULE MCDelivery -----------------------------
(* Delivery on one or two sessions. *)
EXTENDS Delivery, TLC

CONSTANTS chat, other

OneOfChat == 1 :> chat
AllOfChat == [r \in {1, 2, 3} |-> chat]
OneEach == (1 :> chat) @@ (2 :> other)
=============================================================================
