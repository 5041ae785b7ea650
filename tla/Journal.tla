------------------------------- MODULE Journal -------------------------------
(***************************************************************************)
(* The journal of the accounting ledger (accounting/posting.service.ts)    *)
(* and the sync that brings a statement's postings into line with its row  *)
(* (runStatement in accounting/sync.ts).                                   *)
(*                                                                         *)
(* A sync runs inside a READ COMMITTED transaction and locks nothing; what *)
(* keeps two of them apart is the unique index on (source_type, source_id, *)
(* event_key).  The n-th version of a posting has the key "event#n", a     *)
(* reversal the key of the entry it reverses; inserting a key that another *)
(* open transaction inserted waits for it, and does nothing if it commits. *)
(***************************************************************************)
EXTENDS Integers, Sequences, FiniteSets

CONSTANTS
  Source,  \* ids of the statements that post
  Month,   \* accounting periods, in order
  Today,   \* the period of new Date()
  Tx,      \* database transactions that may be open at once
  MaxInstalments  \* bound: instalments of a statement

ASSUME JournalAssumption ==
  /\ Month \subseteq Nat \ {0} /\ Today \in Month
  /\ MaxInstalments \in Nat

(* Base event keys: 0 is the statement's own, n its n-th instalment's. *)
Event == 0 .. MaxInstalments
Key   == Source \X Event

VARIABLES
  hist,    \* the committed versions of each posting, voided ones included
  period,  \* accounting_periods.status
  sync     \* the progress of each transaction's sync and what it wrote

journalVars == <<hist, period, sync>>

Standing == 0   \* an entry nothing reversed
Asleep == [pc |-> "idle"]

JournalInit ==
  /\ hist = [k \in Key |-> <<>>]
  /\ period = [m \in Month |-> "open"]
  /\ sync = [q \in Tx |-> Asleep]

Posted(k) == {i \in DOMAIN hist[k] : hist[k][i].reversal = Standing}

(* assessPosting's history.find: the oldest entry still posted, or 0. *)
Active(k) == IF Posted(k) = {} THEN 0
             ELSE CHOOSE i \in Posted(k) : \A j \in Posted(k) : i <= j

InPc(q, p) == sync[q].pc = p

(* The index entries a transaction has inserted and not committed. *)
ReversalSlot(q, k, i) == i # 0 /\ k \in DOMAIN sync[q].writes /\ sync[q].writes[k].reverse = i
VersionSlot(q, k)     == /\ k \in DOMAIN sync[q].writes
                         /\ sync[q].writes[k].post # <<>>
Writing(q) == ~InPc(q, "idle")

-----------------------------------------------------------------------------
(* syncCarrierSettlementPostings has read the row of source s: its postings
   should be those of want. *)
Describe(q, s, want) ==
  [pc |-> "described", source |-> s, want |-> want, todo |-> {}, key |-> <<>>,
   len |-> 0, active |-> 0, writes |-> <<>>]

(* Mutant: what is live but no longer wanted is left alone. *)
ReadNothingLive(q) ==
  /\ InPc(q, "described")
  /\ sync' = [sync EXCEPT ![q].pc = "syncing", ![q].todo = DOMAIN sync[q].want]
  /\ UNCHANGED <<hist, period>>

(* runStatement: the keys live now; those wanted and those no longer wanted. *)
ReadLiveKeys(q) ==
  /\ InPc(q, "described")
  /\ LET live == {k \in {sync[q].source} \X Event : Posted(k) # {}}
     IN sync' = [sync EXCEPT ![q].pc = "syncing",
                             ![q].todo = DOMAIN sync[q].want \cup live]
  /\ UNCHANGED <<hist, period>>

(* The postings wanted, in order; then live instalments that are gone, in any
   order, and last a statement entry that should not be there. *)
Comes(q, k) ==
  LET due == sync[q].todo \cap DOMAIN sync[q].want IN
  IF due # {} THEN k \in due /\ \A j \in due : k[2] <= j[2]
  ELSE k \in sync[q].todo /\ (k[2] = 0 => sync[q].todo = {k})

(* assessPosting: whether the active entry says what it should, in the month
   it should. *)
IsCurrent(q, k) ==
  IF k \in DOMAIN sync[q].want
    THEN LET i == Active(k) IN
         i # 0 /\ hist[k][i].money = sync[q].want[k].money
               /\ hist[k][i].month = sync[q].want[k].month
    ELSE Active(k) = 0

Assess(q, k) ==
  /\ InPc(q, "syncing") /\ Comes(q, k)
  /\ sync' = IF IsCurrent(q, k)
       THEN [sync EXCEPT ![q].todo = @ \ {k}]
       ELSE [sync EXCEPT ![q].pc = "writing", ![q].key = k,
                         ![q].len = Len(hist[k]), ![q].active = Active(k)]
  /\ UNCHANGED <<hist, period>>

(* reverseActive: in the entry's own month, unless that is closed. *)
ReversalMonth(q, k, i) ==
  LET own == hist[k][i].month IN
  IF period[own] = "open" THEN own
  ELSE IF k \in DOMAIN sync[q].want THEN sync[q].want[k].month ELSE Today

(* resolvePostingDate *)
PostingMonth(m) == IF period[m] = "open" THEN m ELSE Today

(* What a transaction has written, and of posting k now w. *)
Noted(writes, k, w) == [j \in DOMAIN writes \cup {k} |-> IF j = k THEN w ELSE writes[j]]

(* Mutant: a version number that does not conflict, so nothing waits. *)
WriteNextFree(q, k) ==
  LET i == sync[q].active IN
  /\ InPc(q, "writing") /\ sync[q].key = k
  /\ sync' = [sync EXCEPT
       ![q].pc = "syncing", ![q].todo = @ \ {k},
       ![q].writes = Noted(@, k,
          [reverse |-> i, into |-> IF i = 0 THEN Standing ELSE ReversalMonth(q, k, i),
           post    |-> IF k \in DOMAIN sync[q].want
                         THEN <<[money    |-> sync[q].want[k].money,
                                 month    |-> PostingMonth(sync[q].want[k].month),
                                 reversal |-> Standing]>>
                         ELSE <<>>])]
  /\ UNCHANGED <<hist, period>>

(* syncPosting: reverse the version found, then post the next one.  A version
   voided since it was found makes reverseJournal refuse (the transaction rolls
   back), or, when the refusal's read came before that, insert nothing; a
   version number taken since then inserts nothing.  Nothing commits between
   the two inserts that the first one has not already waited for. *)
Write(q, k) ==
  LET i    == sync[q].active
      back == IF i # 0 /\ hist[k][i].reversal = Standing THEN i ELSE 0
      new  == k \in DOMAIN sync[q].want /\ Len(hist[k]) = sync[q].len
  IN
  /\ InPc(q, "writing") /\ sync[q].key = k
  /\ \A r \in Tx \ {q} : Writing(r) =>
       ~ReversalSlot(r, k, back) /\ ~(new /\ VersionSlot(r, k))
  /\ sync' = [sync EXCEPT
       ![q].pc = "syncing", ![q].todo = @ \ {k},
       ![q].writes = Noted(@, k,
          [reverse |-> back,
           into    |-> IF back = 0 THEN Standing ELSE ReversalMonth(q, k, back),
           post    |-> IF new THEN <<[money    |-> sync[q].want[k].money,
                                      month    |-> PostingMonth(sync[q].want[k].month),
                                      reversal |-> Standing]>>
                       ELSE <<>>])]
  /\ UNCHANGED <<hist, period>>

(* Mutant: the entry found is corrected in place. *)
AfterOverwriting(q, k) ==
  IF k \in DOMAIN sync[q].writes
    THEN LET w == sync[q].writes[k] IN
         IF w.reverse = 0 THEN hist[k] \o w.post
         ELSE SubSeq(hist[k], 1, w.reverse - 1) \o w.post
    ELSE hist[k]

(* What a committed transaction leaves of one posting's versions. *)
After(q, k) ==
  IF k \in DOMAIN sync[q].writes
    THEN LET w == sync[q].writes[k] IN
         [i \in DOMAIN hist[k] |-> IF i = w.reverse
                                     THEN [hist[k][i] EXCEPT !.reversal = w.into]
                                     ELSE hist[k][i]] \o w.post
    ELSE hist[k]

SyncDone(q) == InPc(q, "syncing") /\ sync[q].todo = {}

CommitSync(q) ==
  /\ SyncDone(q)
  /\ hist' = [k \in Key |-> After(q, k)]
  /\ sync' = [sync EXCEPT ![q] = Asleep]
  /\ UNCHANGED period

(* Mutant: the postings survive a rollback of the operation they are for. *)
AbortKeepingPostings(q) ==
  /\ Writing(q)
  /\ hist' = [k \in Key |-> After(q, k)]
  /\ sync' = [sync EXCEPT ![q] = Asleep]
  /\ UNCHANGED period

(* An error, a timeout or a crash rolls the transaction back. *)
AbortSync(q) ==
  /\ Writing(q)
  /\ sync' = [sync EXCEPT ![q] = Asleep]
  /\ UNCHANGED <<hist, period>>

-----------------------------------------------------------------------------
(* setPeriodStatus: close oldest first, reopen any. *)
ClosePeriod(m) ==
  /\ period[m] = "open"
  /\ \A n \in Month : n < m => period[n] = "closed"
  /\ period' = [period EXCEPT ![m] = "closed"]
  /\ UNCHANGED <<hist, sync>>

ReopenPeriod(m) ==
  /\ period[m] = "closed"
  /\ period' = [period EXCEPT ![m] = "open"]
  /\ UNCHANGED <<hist, sync>>
=============================================================================
