----------------------------- MODULE MCReviews -----------------------------
(* Receipts and requests go by the same numbers here, and transactions and
   handlers by the same names, so that one symmetry serves both. *)
EXTENDS Reviews, TLC

CONSTANTS o1, o2, v1, v2, s1, s2

Cashes == (o1 :> 3) @@ (o2 :> 2)
Owners == (s1 :> v1) @@ (s2 :> v2)

(* One vendor with its statement for the other. *)
Swapped   == (v1 :> v2) @@ (v2 :> v1) @@ (s1 :> s2) @@ (s2 :> s1)
Symmetric == Permutations(PaymentId) \cup Permutations(Tx) \cup {Swapped}

(* Bound: one row of each half is rejected or cancelled.  No later step reads
   such a row but as used up. *)
With(rows, status) == {r \in DOMAIN rows : rows[r].status = status}
OneRefused ==
  /\ Cardinality(With(payment, "rejected")) + Cardinality(With(stmt, "cancelled")) <= 1
  /\ Cardinality(With(request, "rejected"))
       + Cardinality({s \in VendorStatement : statement[s] = "cancelled"}) <= 1
=============================================================================
