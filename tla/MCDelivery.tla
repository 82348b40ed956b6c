----------------------------- MODULE MCDelivery -----------------------------
EXTENDS Delivery

CONSTANTS w1, w2, alice, bob

(* Both on one WAS, or one on each.                                         *)
MCRoutes == {(alice :> w1) @@ (bob :> w1), (alice :> w1) @@ (bob :> w2)}
=============================================================================
