--------------------------- MODULE MCParcelStatus --------------------------
(* ParcelStatus on small sets of parcels, riders and requests. *)
EXTENDS ParcelStatus, TLC

AllStatuses == Status

(* Request slots and riders are interchangeable, and so are parcels where no
   constant tells one from another. *)
SymmetricSets == Permutations(Request) \cup Permutations(Rider)
Interchangeable == SymmetricSets \cup Permutations(Parcel)
============================================================================
