---------------------------- MODULE MCSettlement ----------------------------
(* Settlement on two orders: one worth paying out, and one a carrier delivered
   without cash, whose charge the vendor owes. *)
EXTENDS Settlement, TLC

CONSTANTS c1, c2, v1, v2

Orders   == {c1, c2}
Cashes   == (c1 :> 3) @@ (c2 :> 0)
Charges  == (c1 :> 1) @@ (c2 :> 2)
Payments == (v1 :> 1) @@ (v2 :> 2)

Symmetric == Permutations(Request) \cup Permutations(StatementId)
=============================================================================
