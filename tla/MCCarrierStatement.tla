------------------------ MODULE MCCarrierStatement ------------------------
(* CarrierStatement on two orders and one statement. *)
EXTENDS CarrierStatement, TLC
CONSTANTS c1, c2
Orders == {c1, c2}
Cashes == (c1 :> 2) @@ (c2 :> 1)
===========================================================================
