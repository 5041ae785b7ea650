----------------------------- MODULE MCDispatch -----------------------------
(* Dispatch with interchangeable manifests and requests. *)
EXTENDS Dispatch, TLC

OneHub == [p \in Parcel |-> "h1"]
Interchangeable == Permutations(Manifest) \cup Permutations(Clerk)
=============================================================================
