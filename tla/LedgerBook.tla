----------------------------- MODULE LedgerBook -----------------------------
(***************************************************************************)
(* What the accounting ledger promises, without transactions, months or    *)
(* sweeps.  A posting is written once and never altered or removed.  Of    *)
(* the versions of one posting at most one counts, the latest; it stops    *)
(* counting when it is reversed or restated, and never counts again.       *)
(***************************************************************************)
EXTENDS Naturals, Sequences

CONSTANT Key   \* what a posting is about: its source and its event

VARIABLE book  \* of each key, its versions and the one that counts (0: none)

Blank == [versions |-> <<>>, live |-> 0]

Init == book = [k \in Key |-> Blank]

Kept(old, new)     == new = old
Reversed(old, new) == old.live # 0 /\ new = [old EXCEPT !.live = 0]
Restated(old, new) ==
  LET n == Len(old.versions) + 1 IN
  /\ Len(new.versions) = n
  /\ new = [versions |-> Append(old.versions, new.versions[n]), live |-> n]

(* One transaction may change several postings of a statement at once. *)
Next ==
  /\ DOMAIN book' = Key
  /\ \A k \in Key : \/ Kept(book[k], book'[k])
                    \/ Reversed(book[k], book'[k])
                    \/ Restated(book[k], book'[k])

Spec == Init /\ [][Next]_book
=============================================================================
