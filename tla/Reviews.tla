------------------------------ MODULE Reviews ------------------------------
(***************************************************************************)
(* What the office reviews: the COD requests of vendors and the receipts   *)
(* of branches.  The two share no row and no lock, so what one may do does *)
(* not depend on the other, and in a behaviour of this module only one of  *)
(* them moves.                                                             *)
(***************************************************************************)
EXTENDS BranchStatement, CodRequests

EitherInit == Init /\ CodInit

EitherNext ==
  \/ CodInit /\ Next /\ UNCHANGED codVars
  \/ Init /\ CodNext /\ UNCHANGED vars

EitherSpec == EitherInit /\ [][EitherNext]_<<vars, codVars>>

(* Both kinds of rows have the shape of their tables (branch_settlements,
   branch_payments, cod_settlement_requests). *)
EitherTypeOK == TypeOK /\ CodTypeOK
=============================================================================
