-------------------------- MODULE CarrierStatement --------------------------
(***************************************************************************)
(* Statements of the COD a carrier collected                               *)
(* (carrier-settlement.service.ts) and their postings.  Every operation    *)
(* locks the statement, writes it and syncs its postings in one            *)
(* transaction; a sweep syncs whatever it reads, with no lock.             *)
(***************************************************************************)
EXTENDS Journal, Functions

CONSTANTS
  Collection,   \* delivered cod_collections of the carrier with cash collected
  Cash,         \* collected_amount of each
  Charges,      \* the carrier charges a user may enter
  Sweeper,      \* the transactions of the posting sweep, a subset of Tx
  MaxVersions   \* bound: a posting restated this often is edited no more

ASSUME CarrierAssumption ==
  /\ IsFiniteSet(Collection) /\ Cash \in [Collection -> Nat \ {0}]
  /\ Charges \subseteq Nat /\ Sweeper \subseteq Tx

VARIABLES
  stmt,        \* carrier_settlements with the charge of each of their items
  instalment,  \* carrier_settlement_payments of each statement, in order
  remitted,    \* collections whose carrier_payment_status is "paid"
  draft        \* per transaction, the rows as it will commit them

vars == <<hist, period, sync, stmt, instalment, remitted, draft>>

StatementId == Source
Payment     == Event \ {0}
Request     == Tx \ Sweeper
Nothing     == [id |-> "none"]

Absent == [status |-> "none", month |-> Today, items |-> <<>>, paid |-> 0]

Init ==
  /\ JournalInit
  /\ stmt = [s \in StatementId |-> Absent]
  /\ instalment = [s \in StatementId |-> <<>>]
  /\ remitted = {}
  /\ draft = [q \in Tx |-> Nothing]

(* carrierTotals *)
Gross(row)       == SumFunctionOnSet(Cash, DOMAIN row.items)
ChargeTotal(row) == SumFunctionOnSet(row.items, DOMAIN row.items)
Net(row)         == Gross(row) - ChargeTotal(row)

(* Mutant: a carrier charge above the cash collected is accepted. *)
ItemsOfAnyCharge == UNION {[ids -> Charges] : ids \in (SUBSET Collection) \ {{}}}

(* carrierItems: what a user may put on a statement. *)
Items == UNION {{f \in [ids -> Charges] : \A c \in ids : f[c] <= Cash[c]} :
                  ids \in (SUBSET Collection) \ {{}}}

(* unsettledWhere *)
OnStatement(s) == DOMAIN stmt[s].items
Unsettled == Collection \ (remitted \cup UNION {OnStatement(s) : s \in StatementId})

(* The postings of a row and its instalments: one for the statement, one for
   each instalment that moved money; none for a cancelled statement. *)
Postings(s, row, paid) ==
  IF row.status = "cancelled" THEN <<>>
  ELSE [k \in {s} \X ({0} \cup {n \in DOMAIN paid : paid[n].amount > 0}) |->
          IF k[2] = 0 THEN [money |-> <<Gross(row), ChargeTotal(row)>>, month |-> row.month]
          ELSE [money |-> <<paid[k[2]].amount, 0>>, month |-> paid[k[2]].month]]

-----------------------------------------------------------------------------
(* FOR UPDATE on the row; the unique index on an item's collection. *)
lockCarrierSettlement(s) == \A q \in Request : draft[q].id # s
lockItems(ids) ==
  \A q \in Request : draft[q].id # "none" => ids \cap DOMAIN draft[q].row.items = {}

(* The operation has written its rows and goes on to sync their postings. *)
Begin(q, s, row, paid, cleared) ==
  /\ draft[q] = Nothing /\ InPc(q, "idle")
  /\ draft' = [draft EXCEPT ![q] =
       [id |-> s, row |-> row, paid |-> paid, cleared |-> cleared]]
  /\ sync' = [sync EXCEPT ![q] = Describe(q, s, Postings(s, row, paid))]
  /\ UNCHANGED <<hist, period, stmt, instalment, remitted>>

createCarrierSettlement(q, s, items, month) ==
  /\ stmt[s].status = "none" /\ lockCarrierSettlement(s)
  /\ DOMAIN items \subseteq Unsettled /\ lockItems(DOMAIN items)
  /\ Begin(q, s, [status |-> "pending", month |-> month, items |-> items, paid |-> 0],
           <<>>, {})

payCarrierSettlement(q, s, amount) ==
  LET row  == stmt[s]
      paid == row.paid + amount
      full == Net(row) = paid
  IN
  /\ lockCarrierSettlement(s)
  /\ row.status \in {"pending", "partially_paid"}
  /\ Len(instalment[s]) < MaxInstalments
  /\ amount > 0 \/ Net(row) = row.paid
  /\ paid <= Net(row)
  /\ Begin(q, s,
           [row EXCEPT !.paid = paid, !.status = IF full THEN "settled" ELSE "partially_paid"],
           Append(instalment[s], [amount |-> amount, month |-> Today]),
           IF full THEN DOMAIN row.items ELSE {})

cancelCarrierSettlement(q, s) ==
  /\ lockCarrierSettlement(s)
  /\ stmt[s].status = "pending" /\ stmt[s].paid = 0
  /\ Begin(q, s, [stmt[s] EXCEPT !.status = "cancelled", !.items = <<>>], instalment[s], {})

updateCarrierSettlement(q, s, items) ==
  LET added == DOMAIN items \ DOMAIN stmt[s].items IN
  /\ Len(hist[<<s, 0>>]) < MaxVersions
  /\ lockCarrierSettlement(s)
  /\ stmt[s].status = "pending" /\ stmt[s].paid = 0
  /\ added \subseteq Unsettled /\ lockItems(added)
  /\ Begin(q, s, [stmt[s] EXCEPT !.items = items], instalment[s], {})

Commit(q) ==
  LET d == draft[q] IN
  /\ d # Nothing
  /\ CommitSync(q)
  /\ stmt' = [stmt EXCEPT ![d.id] = d.row]
  /\ instalment' = [instalment EXCEPT ![d.id] = d.paid]
  /\ remitted' = remitted \cup d.cleared
  /\ draft' = [draft EXCEPT ![q] = Nothing]

Rollback(q) ==
  /\ AbortSync(q)
  /\ draft' = [draft EXCEPT ![q] = Nothing]
  /\ UNCHANGED <<stmt, instalment, remitted>>

(* sweepChunks: the row as committed now, whoever is changing it.  A chunk of
   one statement.  Its instalments are read after its row, but allocateInstalments
   shares out no more than the row's paid total, oldest first: an instalment
   committed between the two reads gets nothing, as if it had not been read. *)
Sweep(q, s) ==
  /\ InPc(q, "idle") /\ stmt[s].status # "none"
  /\ sync' = [sync EXCEPT ![q] = Describe(q, s, Postings(s, stmt[s], instalment[s]))]
  /\ UNCHANGED <<hist, period, stmt, instalment, remitted, draft>>

SweepCommit(q) ==
  /\ CommitSync(q)
  /\ UNCHANGED <<stmt, instalment, remitted, draft>>

Rows == <<stmt, instalment, remitted, draft>>

SyncStep(q) ==
  /\ \/ ReadLiveKeys(q)
     \/ \E k \in Key : Assess(q, k) \/ Write(q, k)
  /\ UNCHANGED Rows

Operation(q, s) ==
  \/ \E items \in Items :
       \/ \E month \in Month : createCarrierSettlement(q, s, items, month)
       \/ updateCarrierSettlement(q, s, items)
  \/ \E amount \in 0 .. Net(stmt[s]) : payCarrierSettlement(q, s, amount)
  \/ cancelCarrierSettlement(q, s)

Next ==
  \/ \E q \in Request : (\E s \in StatementId : Operation(q, s)) \/ Commit(q)
  \/ \E q \in Sweeper : (\E s \in StatementId : Sweep(q, s)) \/ SweepCommit(q)
  \/ \E q \in Tx : SyncStep(q) \/ Rollback(q)
  \/ \E m \in Month : (ClosePeriod(m) \/ ReopenPeriod(m)) /\ UNCHANGED Rows

Spec == Init /\ [][Next]_vars

(* The sweep runs every 15 minutes over every statement touched in the last
   hour; what it has started goes on, unless it is rolled back. *)
SweepFairness(q) ==
  /\ \A s \in StatementId : SF_vars(Sweep(q, s))
  /\ WF_vars(SyncStep(q) \/ SweepCommit(q))

FairSpec == Spec /\ \A q \in Sweeper : SweepFairness(q)
-----------------------------------------------------------------------------
Money == Nat \X Nat
Live(s) == stmt[s].status \notin {"none", "cancelled"}
Books(k) == IF Active(k) = 0 THEN <<0, 0>> ELSE hist[k][Active(k)].money
Wanted(s) == Postings(s, stmt[s], instalment[s])

(* Rows hold what their columns allow, and a transaction works on one posting
   of its own statement at a time. *)
TypeOK ==
  /\ \A k \in Key : \A i \in DOMAIN hist[k] :
       hist[k][i] \in [money : Money, month : Month, reversal : Month \cup {Standing}]
  /\ period \in [Month -> {"open", "closed"}]
  /\ \A q \in Tx : sync[q].pc \in {"idle", "described", "syncing", "writing"}
  /\ \A s \in StatementId :
       /\ stmt[s].status \in {"none", "pending", "partially_paid", "settled", "cancelled"}
       /\ Net(stmt[s]) \in Nat
  /\ remitted \subseteq Collection

(* Of all versions of a posting at most one counts, with unlocked sweeps and
   operations posting the same statement at once. *)
OneActivePosting == \A k \in Key : Cardinality(Posted(k)) <= 1

(* The books never hold more cash received from a carrier than it paid: an
   instalment is posted only for a payment recorded, for its amount. *)
CashNeverOverposted ==
  \A s \in StatementId, p \in Payment :
    Posted(<<s, p>>) # {} => /\ p \in DOMAIN instalment[s]
                             /\ Books(<<s, p>>) = <<instalment[s][p].amount, 0>>

(* The statement row, its instalments and the orders it clears agree. *)
CarrierPaidAddsUp ==
  /\ \A s \in StatementId :
       /\ stmt[s].paid = SumFunctionOnSet([p \in DOMAIN instalment[s] |-> instalment[s][p].amount],
                                          DOMAIN instalment[s])
       /\ Live(s) => (stmt[s].status = "settled" => stmt[s].paid = Net(stmt[s]))
       /\ stmt[s].status = "partially_paid" => stmt[s].paid \in 1 .. Net(stmt[s]) - 1
  /\ remitted = UNION {OnStatement(s) : s \in {t \in StatementId : stmt[t].status = "settled"}}

(* The journal says what the statements say. *)
BooksAgree ==
  \A s \in StatementId, e \in Event :
    LET k == <<s, e>> IN
    stmt[s].status # "none" =>
      Books(k) = IF k \in DOMAIN Wanted(s) THEN Wanted(s)[k].money ELSE <<0, 0>>

(* A sweep rolled back with work to lose. *)
SweepFails(q) == Rollback(q) /\ (SyncDone(q) => sync[q].writes # <<>>)

(* Unless operations or failures of the sweep go on for ever, the sweep brings
   the books into line with every statement, whatever raced before. *)
BooksCatchUp ==
  \/ []<>(\E q \in Request : draft[q] # Nothing)
  \/ []<><<\E q \in Sweeper : SweepFails(q)>>_vars
  \/ <>[]BooksAgree

(* The journal is a book of postings. *)
Versions(k) == [i \in DOMAIN hist[k] |-> hist[k][i].money]
Book == INSTANCE LedgerBook WITH
  book <- [k \in Key |-> [versions |-> Versions(k), live |-> Active(k)]]
BookKept == Book!Spec
=============================================================================
