--------------------------- MODULE MCRoomPresence ---------------------------
EXTENDS RoomPresence, TLC

CONSTANTS w1, w2, alice, bob

(* Both players reach the same WAS: the counts of two WAS never meet.       *)
MCRoutes == (alice :> {w1}) @@ (bob :> {w1})
=============================================================================
