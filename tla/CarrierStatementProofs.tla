----------------------- MODULE CarrierStatementProofs -----------------------
(***************************************************************************)
(* Proofs about CarrierStatement, for any number of statements, months,    *)
(* instalments and transactions: of the versions of a posting at most one  *)
(* stands, and the journal is a book of postings.                          *)
(*                                                                         *)
(* A transaction's writes come true at its commit, after others have       *)
(* committed theirs.  What it reverses still stands then, and nothing else *)
(* does if it posts, because whoever could have changed that would have    *)
(* had to insert a key this transaction holds.                             *)
(***************************************************************************)
EXTENDS CarrierStatement, Sums, FiniteSetTheorems, TLAPS

Row == [status : {"none", "pending", "partially_paid", "settled", "cancelled"}, month : Month,
        items : Items \cup {<<>>}, paid : Int]
Instalment == [amount : Int, month : Month]
Paid == {is \in Seq(Instalment) : Len(is) <= MaxInstalments}

(* What the lines of a posting can say. *)
Lines == {<<Gross(row), ChargeTotal(row)>> : row \in Row} \cup {<<n, 0>> : n \in Int}

Entry == [money : Lines, month : Month, reversal : Month \cup {Standing}]
Posting == [money : Lines, month : Month]
Wants == UNION {[ks -> Posting] : ks \in SUBSET Key}
Posted1 == {<<>>} \cup {<<e>> : e \in {f \in Entry : f.reversal = Standing}}
Written == [reverse : Nat, into : Month \cup {Standing}, post : Posted1]
Writes == UNION {[ks -> Written] : ks \in SUBSET Key}
Running == [pc : {"described", "syncing", "writing"}, source : Source, want : Wants,
            todo : SUBSET Key, key : Key \cup {<<>>}, len : Nat, active : Nat, writes : Writes]

RowTypes ==
  /\ stmt \in [Source -> Row] /\ instalment \in [Source -> Paid]
  /\ DOMAIN draft = Tx
  /\ \A q \in Tx : draft[q] # Nothing =>
       draft[q].id \in Source /\ draft[q].row \in Row /\ draft[q].paid \in Paid

JournalTypes ==
  /\ hist \in [Key -> Seq(Entry)]
  /\ sync \in [Tx -> Running \cup {Asleep}]

(* Transaction q has written posting k. *)
Wrote(q, k) == Writing(q) /\ k \in DOMAIN sync[q].writes

(* What a write takes away stands until its commit, and is all that does if it
   posts anew. *)
WriteHolds(q, k) ==
  LET w == sync[q].writes[k] IN
  /\ w.reverse # 0 => w.reverse \in Posted(k) /\ w.into \in Month
  /\ w.post # <<>> => Posted(k) \subseteq {w.reverse}

Apart(q, r, k) ==
  LET v == sync[q].writes[k]
      w == sync[r].writes[k]
  IN (v.reverse = 0 \/ v.reverse # w.reverse) /\ (v.post = <<>> \/ w.post = <<>>)

(* What was found still is, or a version was posted since. *)
FoundHolds(q) ==
  LET k == sync[q].key IN
  InPc(q, "writing") =>
    /\ k \in Key /\ sync[q].len <= Len(hist[k]) /\ sync[q].active <= sync[q].len
    /\ sync[q].len = Len(hist[k]) => Posted(k) \subseteq {sync[q].active}

OneStands == \A k \in Key : \A i, j \in Posted(k) : i = j

WritesHold ==
  /\ \A q \in Tx : FoundHolds(q)
  /\ \A q \in Tx, k \in Key : Wrote(q, k) => WriteHolds(q, k)
  /\ \A q, r \in Tx, k \in Key : q # r /\ Wrote(q, k) /\ Wrote(r, k) => Apart(q, r, k)

JournalInvariant == JournalTypes /\ OneStands /\ WritesHold

-----------------------------------------------------------------------------
LEMMA KeyParts == ASSUME NEW s \in Source, NEW e \in Event PROVE <<s, e>> \in Key
BY DEF Key

(* The postings a row calls for. *)
LEMMA PostingsWanted ==
  ASSUME NEW s \in Source, NEW row \in Row, NEW paid \in Paid
  PROVE  Postings(s, row, paid) \in Wants
<1>1. CASE row.status = "cancelled"
  <2>1. <<>> \in [{} -> Posting]
    OBVIOUS
  <2> QED BY <1>1, <2>1 DEF Postings, Wants
<1>2. CASE row.status # "cancelled"
  <2> DEFINE ks == {s} \X ({0} \cup {n \in DOMAIN paid : paid[n].amount > 0})
  <2> DEFINE f == [k \in ks |->
          IF k[2] = 0 THEN [money |-> <<Gross(row), ChargeTotal(row)>>, month |-> row.month]
          ELSE [money |-> <<paid[k[2]].amount, 0>>, month |-> paid[k[2]].month]]
  <2>1. paid \in Seq(Instalment) /\ DOMAIN paid \subseteq 1 .. MaxInstalments
    BY JournalAssumption DEF Paid
  <2>2. ks \subseteq Key
    BY <2>1, JournalAssumption DEF Key, Event
  <2>3. <<Gross(row), ChargeTotal(row)>> \in Lines /\ row.month \in Month
    BY DEF Lines, Row
  <2>4. ASSUME NEW n \in DOMAIN paid
        PROVE  <<paid[n].amount, 0>> \in Lines /\ paid[n].month \in Month
    <3>1. paid[n] \in Instalment
      <4>1. DOMAIN paid = 1 .. Len(paid)
        BY <2>1
      <4> QED BY <2>1, <4>1
    <3>2. paid[n].amount \in Int /\ paid[n].month \in Month
      BY <3>1 DEF Instalment
    <3> QED BY <3>2 DEF Lines
  <2>5. ASSUME NEW k \in ks
        PROVE  f[k] \in Posting
    <3>1. k[2] = 0 \/ k[2] \in DOMAIN paid
      OBVIOUS
    <3> HIDE DEF ks
    <3> QED BY <2>3, <2>4, <3>1 DEF Posting
  <2>6. f \in [ks -> Posting]
    BY <2>5
  <2>7. Postings(s, row, paid) = f
    BY <1>2 DEF Postings
  <2> HIDE DEF f, ks
  <2> QED BY <2>2, <2>6, <2>7 DEF Wants
<1> QED BY <1>1, <1>2

LEMMA WorkTypes ==
  ASSUME JournalTypes, NEW q \in Tx, Writing(q)
  PROVE  sync[q] \in Running
BY DEF JournalTypes, Writing, InPc, Asleep

(* A write is one of a known posting. *)
LEMMA WriteTypes ==
  ASSUME JournalTypes, NEW q \in Tx, NEW k \in Key, Wrote(q, k)
  PROVE  sync[q].writes[k] \in Written
<1>1. sync[q] \in Running
  BY WorkTypes DEF Wrote
<1>2. PICK ks \in SUBSET Key : sync[q].writes \in [ks -> Written]
  BY <1>1 DEF Running, Writes
<1> QED BY <1>2 DEF Wrote

LEMMA NotedTypes ==
  ASSUME NEW ws \in Writes, NEW k \in Key, NEW w \in Written
  PROVE  /\ Noted(ws, k, w) \in Writes
         /\ DOMAIN Noted(ws, k, w) = DOMAIN ws \cup {k}
         /\ Noted(ws, k, w)[k] = w
         /\ \A j \in DOMAIN ws \ {k} : Noted(ws, k, w)[j] = ws[j]
<1>1. PICK ks \in SUBSET Key : ws \in [ks -> Written]
  BY DEF Writes
<1>2. Noted(ws, k, w) \in [ks \cup {k} -> Written]
  BY <1>1 DEF Noted
<1>3. ks \cup {k} \in SUBSET Key
  OBVIOUS
<1> QED BY <1>1, <1>2, <1>3 DEF Noted, Writes

(* What stands is a matter of the committed versions. *)
LEMMA SamePosted ==
  ASSUME OneStands, UNCHANGED hist
  PROVE  OneStands' /\ \A k \in Key : Posted(k)' = Posted(k)
<1>1. \A k \in Key : Posted(k)' = Posted(k)
  BY DEF Posted
<1> QED BY <1>1 DEF OneStands

LEMMA FoundStays ==
  ASSUME NEW r \in Tx, FoundHolds(r), UNCHANGED hist, sync'[r] = sync[r],
         \A k \in Key : Posted(k)' = Posted(k)
  PROVE  FoundHolds(r)'
BY DEF FoundHolds, InPc

-----------------------------------------------------------------------------
(* The rows. *)

RowsKept == UNCHANGED <<stmt, instalment, draft>>

(* An operation begins with rows of its types, and asks for postings of theirs. *)
LEMMA Begins ==
  ASSUME RowTypes, JournalTypes, NEW q \in Tx, NEW s \in Source, NEW row \in Row, NEW paid \in Paid,
         NEW cleared, Begin(q, s, row, paid, cleared)
  PROVE  /\ RowTypes' /\ UNCHANGED <<hist, period>>
         /\ sync[q].pc = "idle"
         /\ \E want \in Wants : sync' = [sync EXCEPT ![q] = Describe(q, s, want)]
<1>1. Postings(s, row, paid) \in Wants
  BY PostingsWanted
<1>2. \E want \in Wants : sync' = [sync EXCEPT ![q] = Describe(q, s, want)]
  BY <1>1 DEF Begin
<1>3. draft' = [draft EXCEPT ![q] = [id |-> s, row |-> row, paid |-> paid, cleared |-> cleared]]
      /\ UNCHANGED <<hist, period, stmt, instalment>> /\ sync[q].pc = "idle"
  BY DEF Begin, InPc
<1>4. RowTypes'
  <2>1. DOMAIN draft' = Tx
    BY <1>3 DEF RowTypes
  <2>2. ASSUME NEW r \in Tx, draft'[r] # Nothing
        PROVE  draft'[r].id \in Source /\ draft'[r].row \in Row /\ draft'[r].paid \in Paid
    <3>1. CASE r = q
      <4>1. draft'[r] = [id |-> s, row |-> row, paid |-> paid, cleared |-> cleared]
        BY <1>3, <3>1 DEF RowTypes
      <4> QED BY <4>1
    <3>2. CASE r # q
      <4>1. draft'[r] = draft[r]
        BY <1>3, <3>2 DEF RowTypes
      <4> QED BY <2>2, <4>1 DEF RowTypes
    <3> QED BY <3>1, <3>2
  <2> QED BY <1>3, <2>1, <2>2 DEF RowTypes
<1> QED BY <1>2, <1>3, <1>4

LEMMA OperationBegins ==
  ASSUME RowTypes, JournalTypes, NEW q \in Tx, NEW s \in StatementId, Operation(q, s)
  PROVE  /\ RowTypes' /\ UNCHANGED <<hist, period>>
         /\ sync[q].pc = "idle"
         /\ \E want \in Wants : sync' = [sync EXCEPT ![q] = Describe(q, s, want)]
<1> DEFINE Done == /\ RowTypes' /\ UNCHANGED <<hist, period>>
                   /\ sync[q].pc = "idle"
                   /\ \E want \in Wants : sync' = [sync EXCEPT ![q] = Describe(q, s, want)]
<1>1. s \in Source /\ stmt[s] \in Row /\ instalment[s] \in Paid /\ Today \in Month
  BY JournalAssumption DEF RowTypes, StatementId
<1>2. ASSUME NEW items \in Items, NEW month \in Month, createCarrierSettlement(q, s, items, month)
      PROVE  Done
  <2> DEFINE row == [status |-> "pending", month |-> month, items |-> items, paid |-> 0]
  <2>1. row \in Row
    BY DEF Row
  <2>2. <<>> \in Paid
    BY JournalAssumption DEF Paid
  <2>3. Begin(q, s, row, <<>>, {})
    BY <1>2 DEF createCarrierSettlement
  <2> HIDE DEF row
  <2> QED BY <1>1, <2>1, <2>2, <2>3, Begins
<1>3. ASSUME NEW items \in Items, updateCarrierSettlement(q, s, items)
      PROVE  Done
  <2> DEFINE row == [stmt[s] EXCEPT !.items = items]
  <2>1. row \in Row
    BY <1>1 DEF Row
  <2>2. Begin(q, s, row, instalment[s], {})
    BY <1>3 DEF updateCarrierSettlement
  <2> HIDE DEF row
  <2> QED BY <1>1, <2>1, <2>2, Begins
<1>4. ASSUME cancelCarrierSettlement(q, s)
      PROVE  Done
  <2> DEFINE row == [stmt[s] EXCEPT !.status = "cancelled", !.items = <<>>]
  <2>1. row \in Row
    BY <1>1 DEF Row
  <2>2. Begin(q, s, row, instalment[s], {})
    BY <1>4 DEF cancelCarrierSettlement
  <2> HIDE DEF row
  <2> QED BY <1>1, <2>1, <2>2, Begins
<1>5. ASSUME NEW amount \in 0 .. Net(stmt[s]), payCarrierSettlement(q, s, amount)
      PROVE  Done
  <2> DEFINE paid == stmt[s].paid + amount
  <2> DEFINE full == Net(stmt[s]) = paid
  <2> DEFINE row == [stmt[s] EXCEPT !.paid = paid, !.status = IF full THEN "settled" ELSE "partially_paid"]
  <2> DEFINE is == Append(instalment[s], [amount |-> amount, month |-> Today])
  <2> DEFINE cleared == IF full THEN DOMAIN stmt[s].items ELSE {}
  <2>1. amount \in Int
    OBVIOUS
  <2>2. row \in Row
    <3>1. stmt[s].paid \in Int
      BY <1>1 DEF Row
    <3>2. paid \in Int /\ (IF full THEN "settled" ELSE "partially_paid") \in {"settled", "partially_paid"}
      BY <2>1, <3>1
    <3> HIDE DEF paid, full
    <3> QED BY <1>1, <3>2 DEF Row
  <2>3. is \in Paid
    <3>1. instalment[s] \in Seq(Instalment) /\ Len(instalment[s]) < MaxInstalments
      BY <1>1, <1>5 DEF Paid, payCarrierSettlement
    <3>2. [amount |-> amount, month |-> Today] \in Instalment
      BY <1>1, <2>1 DEF Instalment
    <3> QED BY <3>1, <3>2, JournalAssumption DEF Paid
  <2>4. Begin(q, s, row, is, cleared)
    BY <1>5 DEF payCarrierSettlement
  <2> HIDE DEF row, is, cleared
  <2> QED BY <1>1, <2>2, <2>3, <2>4, Begins
<1> QED BY <1>2, <1>3, <1>4, <1>5 DEF Operation

-----------------------------------------------------------------------------
(* The journal. *)

(* A transaction that begins a sync has written nothing. *)
LEMMA Described ==
  ASSUME JournalInvariant, NEW q \in Tx, NEW s \in Source, NEW want \in Wants,
         sync[q].pc = "idle", sync' = [sync EXCEPT ![q] = Describe(q, s, want)], UNCHANGED hist
  PROVE  JournalInvariant'
<1>1. Describe(q, s, want) \in Running /\ Describe(q, s, want).pc = "described"
      /\ DOMAIN Describe(q, s, want).writes = {}
  <2>1. <<>> \in [{} -> Written] /\ DOMAIN <<>> = {}
    OBVIOUS
  <2>2. <<>> \in Writes
    BY <2>1 DEF Writes
  <2> QED BY <2>1, <2>2 DEF Describe, Running
<1>2. sync'[q] = Describe(q, s, want) /\ \A r \in Tx \ {q} : sync'[r] = sync[r]
  BY DEF JournalInvariant, JournalTypes
<1>3. JournalTypes'
  BY <1>1 DEF JournalInvariant, JournalTypes
<1>4. \A k \in Key : ~Wrote(q, k)'
  BY <1>1, <1>2 DEF Wrote
<1>5. \A r \in Tx : \A k \in Key : Wrote(r, k)' => Wrote(r, k) /\ sync'[r].writes = sync[r].writes
  BY <1>2, <1>4 DEF Wrote, Writing, InPc
<1>6. OneStands' /\ \A k \in Key : Posted(k)' = Posted(k)
  BY SamePosted DEF JournalInvariant
<1>7. \A r \in Tx : FoundHolds(r)'
  BY <1>1, <1>2, <1>6 DEF JournalInvariant, WritesHold, FoundHolds, InPc
<1>8. \A r \in Tx, k \in Key : Wrote(r, k)' => WriteHolds(r, k)'
  BY <1>5, <1>6 DEF JournalInvariant, WritesHold, WriteHolds
<1>9. \A r, p \in Tx, k \in Key : r # p /\ Wrote(r, k)' /\ Wrote(p, k)' => Apart(r, p, k)'
  BY <1>5 DEF JournalInvariant, WritesHold, Apart
<1> QED BY <1>3, <1>6, <1>7, <1>8, <1>9 DEF JournalInvariant, WritesHold

(* A transaction that goes on without writing. *)
LEMMA GoesOn ==
  ASSUME JournalInvariant, UNCHANGED hist, NEW q \in Tx, Writing(q), NEW j \in Running,
         j.writes = sync[q].writes, sync' = [sync EXCEPT ![q] = j],
         j.pc = "writing" => /\ j.key \in Key /\ j.len <= Len(hist[j.key]) /\ j.active <= j.len
                             /\ j.len = Len(hist[j.key]) => Posted(j.key) \subseteq {j.active}
  PROVE  JournalInvariant'
<1>1. sync'[q] = j /\ \A r \in Tx \ {q} : sync'[r] = sync[r]
  BY DEF JournalInvariant, JournalTypes
<1>2. JournalTypes'
  BY DEF JournalInvariant, JournalTypes
<1>3. \A r \in Tx : \A k \in Key : Wrote(r, k)' => Wrote(r, k) /\ sync'[r].writes = sync[r].writes
  BY <1>1 DEF Wrote, Writing, InPc
<1>4. OneStands' /\ \A k \in Key : Posted(k)' = Posted(k)
  BY SamePosted DEF JournalInvariant
<1>5. ASSUME NEW r \in Tx
      PROVE  FoundHolds(r)'
  <2>1. CASE r = q
    BY <1>1, <1>4, <2>1 DEF FoundHolds, InPc
  <2>2. CASE r # q
    BY <1>1, <1>4, <2>2, FoundStays DEF JournalInvariant, WritesHold
  <2> QED BY <2>1, <2>2
<1>6. \A r \in Tx, k \in Key : Wrote(r, k)' => WriteHolds(r, k)'
  BY <1>3, <1>4 DEF JournalInvariant, WritesHold, WriteHolds
<1>7. \A r, p \in Tx, k \in Key : r # p /\ Wrote(r, k)' /\ Wrote(p, k)' => Apart(r, p, k)'
  BY <1>3 DEF JournalInvariant, WritesHold, Apart
<1> QED BY <1>2, <1>4, <1>5, <1>6, <1>7 DEF JournalInvariant, WritesHold

LEMMA ReadsLiveKeys ==
  ASSUME JournalInvariant, NEW q \in Tx, ReadLiveKeys(q)
  PROVE  JournalInvariant'
<1>1. sync[q] \in Running /\ Writing(q) /\ UNCHANGED hist
  BY WorkTypes DEF JournalInvariant, ReadLiveKeys, InPc, Writing
<1> DEFINE live == {k \in {sync[q].source} \X Event : Posted(k) # {}}
<1> DEFINE j == [sync[q] EXCEPT !.pc = "syncing", !.todo = DOMAIN sync[q].want \cup live]
<1>2. live \in SUBSET Key
  BY <1>1 DEF Key, Running
<1>3. DOMAIN sync[q].want \in SUBSET Key
  BY <1>1 DEF Running, Wants
<1>4. j \in Running /\ j.pc = "syncing" /\ j.writes = sync[q].writes
  BY <1>1, <1>2, <1>3 DEF Running
<1>5. sync' = [sync EXCEPT ![q] = j]
  BY DEF ReadLiveKeys
<1> HIDE DEF j
<1> QED BY <1>1, <1>4, <1>5, GoesOn

(* The active version of a posting is the one that stands. *)
LEMMA ActiveStands ==
  ASSUME JournalTypes, OneStands, NEW k \in Key
  PROVE  /\ Active(k) \in 0 .. Len(hist[k]) /\ Posted(k) \subseteq {Active(k)}
         /\ Posted(k) # {} => Active(k) \in Posted(k)
<1>1. hist[k] \in Seq(Entry) /\ Len(hist[k]) \in Nat /\ DOMAIN hist[k] = 1 .. Len(hist[k])
  BY DEF JournalTypes
<1>2. Posted(k) \subseteq 1 .. Len(hist[k])
  BY <1>1 DEF Posted
<1>3. CASE Posted(k) = {}
  BY <1>1, <1>3 DEF Active
<1>4. CASE Posted(k) # {}
  <2>1. PICK i \in Posted(k) : TRUE
    BY <1>4
  <2>2. Posted(k) = {i} /\ i <= i
    BY <1>2, <2>1 DEF OneStands
  <2>3. Active(k) = i
    <3>1. Active(k) = CHOOSE n \in Posted(k) : \A m \in Posted(k) : n <= m
      BY <1>4 DEF Active
    <3>2. \E n \in Posted(k) : \A m \in Posted(k) : n <= m
      BY <2>2
    <3>3. Active(k) \in Posted(k)
      BY <3>1, <3>2
    <3> QED BY <2>2, <3>3
  <2> QED BY <1>2, <2>2, <2>3
<1> QED BY <1>3, <1>4

LEMMA Assesses ==
  ASSUME JournalInvariant, NEW q \in Tx, NEW k \in Key, Assess(q, k)
  PROVE  JournalInvariant'
<1>1. sync[q] \in Running /\ Writing(q) /\ UNCHANGED hist /\ sync[q].pc = "syncing"
  BY WorkTypes DEF JournalInvariant, Assess, InPc, Writing
<1>2. CASE IsCurrent(q, k)
  <2> DEFINE j == [sync[q] EXCEPT !.todo = @ \ {k}]
  <2>1. j \in Running /\ j.pc = "syncing" /\ j.writes = sync[q].writes
    BY <1>1 DEF Running
  <2>2. sync' = [sync EXCEPT ![q] = j]
    BY <1>2 DEF Assess
  <2> HIDE DEF j
  <2> QED BY <1>1, <2>1, <2>2, GoesOn
<1>3. CASE ~IsCurrent(q, k)
  <2> DEFINE j == [sync[q] EXCEPT !.pc = "writing", !.key = k, !.len = Len(hist[k]), !.active = Active(k)]
  <2>1. /\ Active(k) \in 0 .. Len(hist[k]) /\ Posted(k) \subseteq {Active(k)}
    BY ActiveStands DEF JournalInvariant
  <2>4. Len(hist[k]) \in Nat
    BY DEF JournalInvariant, JournalTypes
  <2>2. j \in Running /\ j.writes = sync[q].writes /\ j.key = k /\ j.len = Len(hist[k]) /\ j.active = Active(k)
    <3> DEFINE a == Active(k)
    <3> DEFINE n == Len(hist[k])
    <3>1. a \in Nat /\ n \in Nat
      BY <2>1, <2>4
    <3> HIDE DEF a, n
    <3>2. [sync[q] EXCEPT !.pc = "writing", !.key = k, !.len = n, !.active = a] \in Running
      BY <1>1, <3>1 DEF Running
    <3>3. LET i == [sync[q] EXCEPT !.pc = "writing", !.key = k, !.len = n, !.active = a]
          IN i.writes = sync[q].writes /\ i.key = k /\ i.len = n /\ i.active = a
      BY <1>1 DEF Running
    <3> QED BY <3>2, <3>3 DEF a, n
  <2>3. sync' = [sync EXCEPT ![q] = j]
    BY <1>3 DEF Assess
  <2> HIDE DEF j
  <2>5. /\ j.key \in Key /\ j.len <= Len(hist[j.key]) /\ j.active <= j.len
        /\ j.len = Len(hist[j.key]) => Posted(j.key) \subseteq {j.active}
    BY <2>1, <2>2, <2>4
  <2> QED BY <1>1, <2>2, <2>3, <2>5, GoesOn
<1> QED BY <1>2, <1>3

LEMMA Aborts ==
  ASSUME JournalInvariant, NEW q \in Tx, AbortSync(q)
  PROVE  JournalInvariant'
<1>1. UNCHANGED hist /\ sync'[q] = Asleep /\ \A r \in Tx \ {q} : sync'[r] = sync[r]
  BY DEF JournalInvariant, JournalTypes, AbortSync
<1>2. JournalTypes'
  BY DEF JournalInvariant, JournalTypes, AbortSync
<1>3. \A r \in Tx : \A k \in Key : Wrote(r, k)' => Wrote(r, k) /\ sync'[r].writes = sync[r].writes
  BY <1>1 DEF Wrote, Writing, InPc, Asleep
<1>4. OneStands' /\ \A k \in Key : Posted(k)' = Posted(k)
  BY <1>1, SamePosted DEF JournalInvariant
<1>5. ASSUME NEW r \in Tx
      PROVE  FoundHolds(r)'
  <2>1. CASE r = q
    BY <1>1, <2>1 DEF FoundHolds, InPc, Asleep
  <2>2. CASE r # q
    BY <1>1, <1>4, <2>2, FoundStays DEF JournalInvariant, WritesHold
  <2> QED BY <2>1, <2>2
<1>6. \A r \in Tx, k \in Key : Wrote(r, k)' => WriteHolds(r, k)'
  BY <1>3, <1>4 DEF JournalInvariant, WritesHold, WriteHolds
<1>7. \A r, p \in Tx, k \in Key : r # p /\ Wrote(r, k)' /\ Wrote(p, k)' => Apart(r, p, k)'
  BY <1>3 DEF JournalInvariant, WritesHold, Apart
<1> QED BY <1>2, <1>4, <1>5, <1>6, <1>7 DEF JournalInvariant, WritesHold

(* What a write takes away and posts, seen from the transactions that wait. *)
LEMMA Writes1 ==
  ASSUME JournalInvariant, NEW q \in Tx, NEW k \in Key, Write(q, k)
  PROVE  JournalInvariant'
<1> DEFINE i == sync[q].active
<1> DEFINE back == IF i # 0 /\ hist[k][i].reversal = Standing THEN i ELSE 0
<1> DEFINE new == k \in DOMAIN sync[q].want /\ Len(hist[k]) = sync[q].len
<1> DEFINE w == [reverse |-> back,
                 into    |-> IF back = 0 THEN Standing ELSE ReversalMonth(q, k, back),
                 post    |-> IF new THEN <<[money    |-> sync[q].want[k].money,
                                            month    |-> PostingMonth(sync[q].want[k].month),
                                            reversal |-> Standing]>>
                             ELSE <<>>]
<1> DEFINE j == [sync[q] EXCEPT !.pc = "syncing", !.todo = @ \ {k}, !.writes = Noted(@, k, w)]
<1>1. /\ sync[q] \in Running /\ Writing(q) /\ UNCHANGED <<hist, period>>
      /\ sync[q].pc = "writing" /\ sync[q].key = k
  BY WorkTypes DEF JournalInvariant, Write, InPc, Writing
<1>2. /\ sync[q].len <= Len(hist[k]) /\ i <= sync[q].len /\ i \in Nat
      /\ sync[q].len = Len(hist[k]) => Posted(k) \subseteq {i}
      /\ hist[k] \in Seq(Entry) /\ Len(hist[k]) \in Nat /\ sync[q].len \in Nat
  <2>1. hist[k] \in Seq(Entry) /\ Len(hist[k]) \in Nat
    BY DEF JournalInvariant, JournalTypes
  <2>2. i \in Nat /\ sync[q].len \in Nat
    BY <1>1 DEF Running
  <2>3. /\ sync[q].len <= Len(hist[k]) /\ i <= sync[q].len
        /\ sync[q].len = Len(hist[k]) => Posted(k) \subseteq {i}
    BY <1>1 DEF JournalInvariant, WritesHold, FoundHolds, InPc
  <2> QED BY <2>1, <2>2, <2>3
<1>3. DOMAIN hist[k] = 1 .. Len(hist[k])
  BY <1>2
<1>4. back # 0 => back \in Posted(k)
  BY <1>2, <1>3 DEF Posted
<1>5. new => Posted(k) \subseteq {back}
  BY <1>2 DEF Posted
<1>6. \A m \in Month : PostingMonth(m) \in Month
  BY JournalAssumption DEF PostingMonth
<1>7. ASSUME k \in DOMAIN sync[q].want
      PROVE  sync[q].want[k] \in Posting
  BY <1>1, <1>7 DEF Running, Wants
<1>8. back # 0 => ReversalMonth(q, k, back) \in Month
  <2>1. ASSUME back # 0
        PROVE  hist[k][back] \in Entry
    BY <1>2, <1>3, <1>4, <2>1 DEF Posted
  <2> HIDE DEF back
  <2> QED BY <1>7, <2>1, JournalAssumption DEF ReversalMonth, Posting, Entry
<1>9. w \in Written /\ w.reverse = back /\ (w.post # <<>> => new)
      /\ (back # 0 => w.into \in Month)
  <2>1. w.post \in Posted1
    <3>1. CASE new
      <4> DEFINE e == [money |-> sync[q].want[k].money, month |-> PostingMonth(sync[q].want[k].month),
                       reversal |-> Standing]
      <4>1. e \in Entry /\ e.reversal = Standing
        BY <1>6, <1>7, <3>1 DEF Entry, Posting
      <4>2. w.post = <<e>>
        BY <3>1
      <4> HIDE DEF e
      <4> QED BY <4>1, <4>2 DEF Posted1
    <3>2. CASE ~new
      BY <3>2 DEF Posted1
    <3> QED BY <3>1, <3>2
  <2>2. back \in Nat
    BY <1>2
  <2>3. (IF back = 0 THEN Standing ELSE ReversalMonth(q, k, back)) \in Month \cup {Standing}
    BY <1>8
  <2> HIDE DEF back
  <2> QED BY <1>8, <2>1, <2>2, <2>3 DEF Written
<1>10. j \in Running /\ j.pc = "syncing" /\ j.writes = Noted(sync[q].writes, k, w)
       /\ sync' = [sync EXCEPT ![q] = j]
  <2>1. Noted(sync[q].writes, k, w) \in Writes
    BY <1>1, <1>9, NotedTypes DEF Running
  <2>2. sync' = [sync EXCEPT ![q] = j]
    BY DEF Write
  <2> HIDE DEF w
  <2> QED BY <1>1, <2>1, <2>2 DEF Running
<1>11. \A r \in Tx \ {q} : Writing(r) => ~ReversalSlot(r, k, back) /\ ~(new /\ VersionSlot(r, k))
  BY DEF Write
<1> HIDE DEF j, w, back, new
<1>12. sync'[q] = j /\ \A r \in Tx \ {q} : sync'[r] = sync[r]
  BY <1>10 DEF JournalInvariant, JournalTypes
<1>13. JournalTypes'
  BY <1>1, <1>10 DEF JournalInvariant, JournalTypes
<1>14. OneStands' /\ \A m \in Key : Posted(m)' = Posted(m)
  BY <1>1, SamePosted DEF JournalInvariant
<1>15. ASSUME NEW r \in Tx, NEW m \in Key, Wrote(r, m)', r # q \/ m # k
       PROVE  Wrote(r, m) /\ sync'[r].writes[m] = sync[r].writes[m]
  <2>1. CASE r # q
    BY <1>12, <1>15, <2>1 DEF Wrote, Writing, InPc
  <2>2. CASE r = q
    <3>1. sync[q].writes \in Writes
      BY <1>1 DEF Running
    <3>2. /\ DOMAIN Noted(sync[q].writes, k, w) = DOMAIN sync[q].writes \cup {k}
          /\ \A n \in DOMAIN sync[q].writes \ {k} :
               Noted(sync[q].writes, k, w)[n] = sync[q].writes[n]
      BY <1>9, <3>1, NotedTypes
    <3>3. sync'[q].writes = Noted(sync[q].writes, k, w)
      BY <1>10, <1>12
    <3> QED BY <1>1, <1>15, <2>2, <3>2, <3>3 DEF Wrote
  <2> QED BY <2>1, <2>2
<1>16. sync'[q].writes[k] = w
  <2>1. sync[q].writes \in Writes
    BY <1>1 DEF Running
  <2>2. Noted(sync[q].writes, k, w)[k] = w
    BY <1>9, <2>1, NotedTypes
  <2> QED BY <1>10, <1>12, <2>2
<1>17. \A r \in Tx : FoundHolds(r)'
  BY <1>1, <1>10, <1>12, <1>14 DEF JournalInvariant, WritesHold, FoundHolds, InPc
<1>18. ASSUME NEW r \in Tx, NEW m \in Key, Wrote(r, m)'
       PROVE  WriteHolds(r, m)'
  <2>1. CASE r = q /\ m = k
    BY <1>4, <1>5, <1>9, <1>14, <1>16, <2>1 DEF WriteHolds
  <2>2. CASE r # q \/ m # k
    BY <1>14, <1>15, <1>18, <2>2 DEF JournalInvariant, WritesHold, WriteHolds
  <2> QED BY <2>1, <2>2
<1>19. ASSUME NEW r \in Tx \ {q}, Wrote(r, k)
       PROVE  LET v == sync[r].writes[k]
              IN (w.reverse = 0 \/ v.reverse # w.reverse) /\ (w.post = <<>> \/ v.post = <<>>)
  BY <1>9, <1>11, <1>19 DEF Wrote, ReversalSlot, VersionSlot
<1>20. ASSUME NEW r \in Tx, NEW p \in Tx, NEW m \in Key, r # p, Wrote(r, m)', Wrote(p, m)'
       PROVE  Apart(r, p, m)'
  <2>1. CASE m # k
    BY <1>15, <1>20, <2>1 DEF JournalInvariant, WritesHold, Apart
  <2>2. CASE m = k /\ r = q
    <3>1. Wrote(p, k) /\ sync'[p].writes[k] = sync[p].writes[k]
      BY <1>15, <1>20, <2>2
    <3> QED BY <1>16, <1>19, <1>20, <2>2, <3>1 DEF Apart
  <2>3. CASE m = k /\ p = q
    <3>1. Wrote(r, k) /\ sync'[r].writes[k] = sync[r].writes[k]
      BY <1>15, <1>20, <2>3
    <3> QED BY <1>16, <1>19, <1>20, <2>3, <3>1 DEF Apart
  <2>4. CASE m = k /\ r # q /\ p # q
    <3>1. /\ Wrote(r, k) /\ sync'[r].writes[k] = sync[r].writes[k]
          /\ Wrote(p, k) /\ sync'[p].writes[k] = sync[p].writes[k]
      BY <1>15, <1>20, <2>4
    <3>2. Apart(r, p, k)
      BY <1>20, <3>1 DEF JournalInvariant, WritesHold
    <3> QED BY <2>4, <3>1, <3>2 DEF Apart
  <2> QED BY <2>1, <2>2, <2>3, <2>4
<1> QED BY <1>13, <1>14, <1>17, <1>18, <1>20 DEF JournalInvariant, WritesHold

(* The versions of a posting after a write: those it had, one of them perhaps
   reversed, and perhaps one more. *)
LEMMA Corrected ==
  ASSUME NEW h \in Seq(Entry), NEW w \in Written, w.reverse # 0 => w.into \in Month
  PROVE  LET g == [i \in DOMAIN h |-> IF i = w.reverse THEN [h[i] EXCEPT !.reversal = w.into]
                                      ELSE h[i]] \o w.post
         IN /\ g \in Seq(Entry)
            /\ \A i \in 1 .. Len(h) :
                 /\ g[i].money = h[i].money
                 /\ g[i].reversal = Standing <=> (h[i].reversal = Standing /\ i # w.reverse)
            /\ w.post = <<>> => Len(g) = Len(h)
            /\ w.post # <<>> => Len(g) = Len(h) + 1 /\ g[Len(h) + 1].reversal = Standing
<1> DEFINE n == Len(h)
<1> DEFINE base == [i \in DOMAIN h |-> IF i = w.reverse THEN [h[i] EXCEPT !.reversal = w.into]
                                       ELSE h[i]]
<1> DEFINE g == base \o w.post
<1>1. n \in Nat /\ DOMAIN h = 1 .. n /\ \A i \in 1 .. n : h[i] \in Entry
  OBVIOUS
<1>2. w.reverse \in Nat /\ w.post \in Posted1
  BY DEF Written
<1>3. ASSUME NEW i \in 1 .. n
      PROVE  /\ base[i] \in Entry /\ base[i].money = h[i].money
             /\ base[i].reversal = Standing <=> (h[i].reversal = Standing /\ i # w.reverse)
  <2>1. base[i] = IF i = w.reverse THEN [h[i] EXCEPT !.reversal = w.into] ELSE h[i]
    BY <1>1
  <2>2. h[i] \in Entry
    BY <1>1
  <2> HIDE DEF base
  <2>3. CASE i = w.reverse
    <3>1. w.into \in Month /\ w.into # Standing
      BY <1>1, <2>3, JournalAssumption DEF Standing
    <3>2. base[i] = [h[i] EXCEPT !.reversal = w.into]
      BY <2>1, <2>3
    <3> QED BY <2>2, <2>3, <3>1, <3>2 DEF Entry
  <2>4. CASE i # w.reverse
    BY <2>1, <2>2, <2>4
  <2> QED BY <2>3, <2>4
<1>4. DOMAIN base = 1 .. n
  BY <1>1
<1> HIDE DEF base
<1>5. base \in Seq(Entry) /\ Len(base) = n
  <2>1. base = [i \in 1 .. n |-> base[i]]
    BY <1>1 DEF base
  <2> QED BY <1>1, <1>3, <2>1
<1>6. CASE w.post = <<>>
  <2>1. g \in Seq(Entry) /\ Len(g) = n /\ \A i \in 1 .. n : g[i] = base[i]
    BY <1>1, <1>5, <1>6
  <2> HIDE DEF g, n
  <2>2. \A i \in 1 .. n : /\ g[i].money = h[i].money
                          /\ g[i].reversal = Standing <=> (h[i].reversal = Standing /\ i # w.reverse)
    BY <1>3, <2>1
  <2>3. g \in Seq(Entry) /\ Len(g) = Len(h)
    BY <2>1 DEF n
  <2> QED BY <1>6, <2>2, <2>3 DEF g, base, n
<1>7. CASE w.post # <<>>
  <2>1. PICK e \in Entry : w.post = <<e>> /\ e.reversal = Standing
    BY <1>2, <1>7 DEF Posted1
  <2>2. g \in Seq(Entry) /\ Len(g) = n + 1 /\ g[n + 1] = e /\ \A i \in 1 .. n : g[i] = base[i]
    BY <1>1, <1>5, <2>1
  <2> HIDE DEF g, n
  <2>3. \A i \in 1 .. n : /\ g[i].money = h[i].money
                          /\ g[i].reversal = Standing <=> (h[i].reversal = Standing /\ i # w.reverse)
    BY <1>3, <2>2
  <2>4. g \in Seq(Entry) /\ Len(g) = n + 1 /\ g[n + 1].reversal = Standing
    BY <2>1, <2>2
  <2> QED BY <1>7, <2>3, <2>4 DEF g, base, n
<1> QED BY <1>6, <1>7

(* What a commit makes of a posting it wrote. *)
LEMMA AfterCommit ==
  ASSUME JournalInvariant, NEW q \in Tx, NEW k \in Key, Wrote(q, k), hist'[k] = After(q, k)
  PROVE  LET w == sync[q].writes[k]
             n == Len(hist[k])
         IN /\ hist[k] \in Seq(Entry) /\ hist'[k] \in Seq(Entry)
            /\ \A i \in 1 .. n : hist'[k][i].money = hist[k][i].money
            /\ w.post = <<>> => Len(hist'[k]) = n /\ Posted(k)' = Posted(k) \ {w.reverse}
            /\ w.post # <<>> => Len(hist'[k]) = n + 1 /\ Posted(k)' = {n + 1}
<1> DEFINE w == sync[q].writes[k]
<1> DEFINE n == Len(hist[k])
<1> DEFINE g == hist'[k]
<1>1. w \in Written
  BY WriteTypes DEF JournalInvariant
<1>2. WriteHolds(q, k)
  BY DEF JournalInvariant, WritesHold
<1>3. hist[k] \in Seq(Entry)
  BY DEF JournalInvariant, JournalTypes
<1>4. g = [i \in DOMAIN hist[k] |-> IF i = w.reverse THEN [hist[k][i] EXCEPT !.reversal = w.into]
                                   ELSE hist[k][i]] \o w.post
  BY DEF Wrote, After
<1>5. /\ w.reverse # 0 => w.into \in Month
      /\ w.post # <<>> => Posted(k) \subseteq {w.reverse}
  BY <1>2 DEF WriteHolds
<1>6. /\ Posted(k) = {i \in DOMAIN hist[k] : hist[k][i].reversal = Standing}
      /\ Posted(k)' = {i \in DOMAIN g : g[i].reversal = Standing}
  BY DEF Posted
<1> HIDE DEF w, g
<1>7. /\ g \in Seq(Entry)
      /\ \A i \in 1 .. n :
           /\ g[i].money = hist[k][i].money
           /\ g[i].reversal = Standing <=> (hist[k][i].reversal = Standing /\ i # w.reverse)
      /\ w.post = <<>> => Len(g) = n
      /\ w.post # <<>> => Len(g) = n + 1 /\ g[n + 1].reversal = Standing
  BY <1>1, <1>3, <1>4, <1>5, Corrected
<1>8. n \in Nat /\ DOMAIN hist[k] = 1 .. n /\ DOMAIN g = 1 .. Len(g)
  BY <1>3, <1>7
<1> HIDE DEF n
<1>9. ASSUME NEW i \in 1 .. n, i \in DOMAIN g
      PROVE  i \in Posted(k)' <=> (i \in Posted(k) /\ i # w.reverse)
  BY <1>6, <1>7, <1>8, <1>9
<1>10. CASE w.post = <<>>
  <2>1. Len(g) = n /\ DOMAIN g = 1 .. n
    BY <1>7, <1>8, <1>10
  <2>2. Posted(k) \subseteq 1 .. n /\ Posted(k)' \subseteq 1 .. n
    BY <1>6, <1>8, <2>1
  <2>3. Posted(k)' = Posted(k) \ {w.reverse}
    BY <1>9, <2>1, <2>2
  <2> QED BY <1>3, <1>7, <1>10, <2>1, <2>3 DEF w, n, g
<1>11. CASE w.post # <<>>
  <2>1. Len(g) = n + 1 /\ DOMAIN g = 1 .. n + 1 /\ g[n + 1].reversal = Standing
    BY <1>7, <1>8, <1>11
  <2>2. n + 1 \in Posted(k)' /\ Posted(k)' \subseteq 1 .. n + 1
    BY <1>6, <1>8, <2>1
  <2>3. ASSUME NEW i \in Posted(k)'
        PROVE  i = n + 1
    <3>1. i \in 1 .. n => i \in Posted(k) /\ i # w.reverse
      BY <1>8, <1>9, <2>1, <2>3
    <3>2. i \notin 1 .. n
      BY <1>5, <1>11, <3>1
    <3> QED BY <1>8, <2>2, <3>2
  <2>4. Posted(k)' = {n + 1}
    BY <2>2, <2>3
  <2> QED BY <1>3, <1>7, <1>11, <2>1, <2>4 DEF w, n, g
<1> QED BY <1>10, <1>11

(* A commit leaves a posting it did not write, and one it wrote as it does. *)
LEMMA CommitsAll ==
  ASSUME NEW q \in Tx, CommitSync(q), NEW k \in Key
  PROVE  /\ hist'[k] = After(q, k)
         /\ ~Wrote(q, k) => hist'[k] = hist[k] /\ Posted(k)' = Posted(k)
<1>1. Writing(q) /\ hist'[k] = After(q, k)
  BY DEF CommitSync, SyncDone, InPc, Writing
<1>2. ASSUME ~Wrote(q, k)
      PROVE  hist'[k] = hist[k]
  BY <1>1, <1>2 DEF Wrote, After
<1> QED BY <1>1, <1>2 DEF Posted

(* What another transaction found still is, or a version was posted since. *)
LEMMA FoundLater ==
  ASSUME JournalInvariant, NEW q \in Tx, CommitSync(q), NEW r \in Tx, FoundHolds(r),
         sync'[r] = sync[r], sync[r].pc = "writing"
  PROVE  FoundHolds(r)'
<1>1. PICK k \in Key, len \in Nat, active \in Nat :
        /\ k = sync[r].key /\ len = sync[r].len /\ active = sync[r].active
        /\ len <= Len(hist[k]) /\ active <= len
        /\ len = Len(hist[k]) => Posted(k) \subseteq {active}
  <2>1. sync[r] \in Running
    BY DEF JournalInvariant, JournalTypes, Asleep
  <2>2. sync[r].len \in Nat /\ sync[r].active \in Nat
    BY <2>1 DEF Running
  <2> QED BY <2>2 DEF FoundHolds, InPc
<1>2. Len(hist[k]) \in Nat
  <2>1. hist[k] \in Seq(Entry)
    BY DEF JournalInvariant, JournalTypes
  <2> QED BY <2>1
<1>3. SUFFICES /\ len <= Len(hist'[k])
               /\ len = Len(hist'[k]) => Posted(k)' \subseteq {active}
  <2>1. sync'[r].key = k /\ sync'[r].len = len /\ sync'[r].active = active
    BY <1>1
  <2> QED BY <1>1, <1>3, <2>1 DEF FoundHolds, Posted
<1>4. CASE ~Wrote(q, k)
  BY <1>1, <1>4, CommitsAll
<1>5. CASE Wrote(q, k)
  <2>1. hist'[k] = After(q, k)
    BY CommitsAll
  <2>2. \/ Len(hist'[k]) = Len(hist[k]) /\ Posted(k)' \subseteq Posted(k)
        \/ Len(hist'[k]) = Len(hist[k]) + 1
    BY <1>5, <2>1, AfterCommit
  <2> QED BY <1>1, <1>2, <2>2
<1> QED BY <1>4, <1>5

LEMMA Commits ==
  ASSUME JournalInvariant, NEW q \in Tx, CommitSync(q)
  PROVE  JournalInvariant'
<1>1. sync'[q] = Asleep /\ \A r \in Tx \ {q} : sync'[r] = sync[r]
  BY DEF JournalInvariant, JournalTypes, CommitSync
<1>2. JournalTypes'
  <2>1. sync' \in [Tx -> Running \cup {Asleep}]
    BY DEF JournalInvariant, JournalTypes, CommitSync
  <2>2. ASSUME NEW k \in Key
        PROVE  hist'[k] \in Seq(Entry)
    <3>1. CASE Wrote(q, k)
      <4>1. hist'[k] = After(q, k)
        BY CommitsAll
      <4> QED BY <3>1, <4>1, AfterCommit
    <3>2. CASE ~Wrote(q, k)
      <4>1. hist'[k] = hist[k]
        BY <3>2, CommitsAll
      <4> QED BY <4>1 DEF JournalInvariant, JournalTypes
    <3> QED BY <3>1, <3>2
  <2>3. hist' = [k \in Key |-> hist'[k]]
    BY DEF CommitSync
  <2>4. hist' \in [Key -> Seq(Entry)]
    BY <2>2, <2>3
  <2> QED BY <2>1, <2>4 DEF JournalTypes
<1>3. ASSUME NEW r \in Tx, NEW k \in Key, Wrote(r, k)'
      PROVE  r # q /\ Wrote(r, k) /\ sync'[r].writes = sync[r].writes
  BY <1>1, <1>3 DEF Wrote, Writing, InPc, Asleep
<1>4. ASSUME NEW k \in Key, NEW i \in Posted(k)', NEW j \in Posted(k)'
      PROVE  i = j
  <2>1. CASE Wrote(q, k)
    <3>1. hist'[k] = After(q, k)
      BY CommitsAll
    <3>2. Posted(k)' \subseteq Posted(k) \/ \E n : Posted(k)' = {n}
      BY <2>1, <3>1, AfterCommit
    <3> QED BY <1>4, <3>2 DEF JournalInvariant, OneStands
  <2>2. CASE ~Wrote(q, k)
    <3>1. Posted(k)' = Posted(k)
      BY <2>2, CommitsAll
    <3> QED BY <1>4, <3>1 DEF JournalInvariant, OneStands
  <2> QED BY <2>1, <2>2
<1>5. ASSUME NEW r \in Tx
      PROVE  FoundHolds(r)'
  <2>1. CASE r = q
    BY <1>1, <2>1 DEF FoundHolds, InPc, Asleep
  <2>2. CASE r # q /\ sync[r].pc = "writing"
    <3>1. FoundHolds(r) /\ sync'[r] = sync[r]
      BY <1>1, <2>2 DEF JournalInvariant, WritesHold
    <3> QED BY <2>2, <3>1, FoundLater
  <2>3. CASE r # q /\ sync[r].pc # "writing"
    BY <1>1, <2>3 DEF FoundHolds, InPc
  <2> QED BY <2>1, <2>2, <2>3
<1>6. ASSUME NEW r \in Tx, NEW k \in Key, Wrote(r, k)'
      PROVE  WriteHolds(r, k)'
  <2>1. r # q /\ Wrote(r, k) /\ sync'[r].writes = sync[r].writes
    BY <1>3, <1>6
  <2>2. WriteHolds(r, k)
    BY <2>1 DEF JournalInvariant, WritesHold
  <2> DEFINE v == sync[r].writes[k]
  <2>3. SUFFICES (v.reverse # 0 => v.reverse \in Posted(k)' /\ v.into \in Month)
                 /\ (v.post # <<>> => Posted(k)' \subseteq {v.reverse})
    BY <2>1, <2>3 DEF WriteHolds
  <2>4. CASE ~Wrote(q, k)
    <3>1. Posted(k)' = Posted(k)
      BY <2>4, CommitsAll
    <3> QED BY <2>2, <3>1 DEF WriteHolds
  <2>5. CASE Wrote(q, k)
    <3> DEFINE w == sync[q].writes[k]
    <3>1. hist'[k] = After(q, k)
      BY CommitsAll
    <3>2. /\ w.post = <<>> => Posted(k)' = Posted(k) \ {w.reverse}
          /\ w.post # <<>> => Posted(k)' = {Len(hist[k]) + 1}
      BY <2>5, <3>1, AfterCommit
    <3>3. /\ w.post # <<>> => Posted(k) \subseteq {w.reverse}
          /\ w.reverse # 0 => w.reverse \in Posted(k)
      BY <2>5 DEF JournalInvariant, WritesHold, WriteHolds
    <3>4. Apart(r, q, k)
      BY <2>1, <2>5 DEF JournalInvariant, WritesHold
    <3>5. /\ v.reverse = 0 \/ v.reverse # w.reverse
          /\ v.post = <<>> \/ w.post = <<>>
      BY <3>4 DEF Apart
    <3>6. /\ v.reverse # 0 => v.reverse \in Posted(k) /\ v.into \in Month
          /\ v.post # <<>> => Posted(k) \subseteq {v.reverse}
      BY <2>2 DEF WriteHolds
    <3> HIDE DEF v, w
    <3> QED BY <3>2, <3>3, <3>5, <3>6
  <2> QED BY <2>4, <2>5
<1>7. \A r, p \in Tx, k \in Key : r # p /\ Wrote(r, k)' /\ Wrote(p, k)' => Apart(r, p, k)'
  BY <1>3 DEF JournalInvariant, WritesHold, Apart
<1> QED BY <1>2, <1>4, <1>5, <1>6, <1>7 DEF JournalInvariant, WritesHold, OneStands

-----------------------------------------------------------------------------
(* The inductive invariant. *)
Inductive == RowTypes /\ JournalInvariant

LEMMA Starts == ASSUME Init PROVE Inductive
<1>1. RowTypes
  <2>1. Absent \in Row
    BY JournalAssumption DEF Absent, Row
  <2>2. <<>> \in Paid
    BY JournalAssumption DEF Paid
  <2>3. stmt \in [Source -> Row] /\ instalment \in [Source -> Paid]
    BY <2>1, <2>2 DEF Init, StatementId
  <2>4. DOMAIN draft = Tx /\ \A q \in Tx : draft[q] = Nothing
    BY DEF Init
  <2> QED BY <2>3, <2>4 DEF RowTypes
<1>2. hist = [k \in Key |-> <<>>] /\ sync = [q \in Tx |-> Asleep]
  BY DEF Init, JournalInit
<1>3. JournalTypes
  BY <1>2 DEF JournalTypes
<1>4. \A k \in Key : Posted(k) = {}
  BY <1>2 DEF Posted
<1>5. \A q \in Tx : ~Writing(q) /\ ~InPc(q, "writing")
  BY <1>2 DEF Writing, InPc, Asleep
<1> QED BY <1>1, <1>3, <1>4, <1>5 DEF Inductive, JournalInvariant, OneStands, WritesHold, FoundHolds, Wrote

(* A step that leaves the journal and its transactions alone. *)
LEMMA JournalStays == ASSUME JournalInvariant, UNCHANGED <<hist, sync>> PROVE JournalInvariant'
<1>1. OneStands' /\ \A k \in Key : Posted(k)' = Posted(k)
  BY SamePosted DEF JournalInvariant
<1>2. JournalTypes'
  BY DEF JournalInvariant, JournalTypes
<1>3. \A q \in Tx : FoundHolds(q)'
  BY <1>1, FoundStays DEF JournalInvariant, WritesHold
<1>4. \A q \in Tx, k \in Key : Wrote(q, k)' => WriteHolds(q, k)'
  BY <1>1 DEF JournalInvariant, WritesHold, WriteHolds, Wrote, Writing, InPc
<1>5. \A q, r \in Tx, k \in Key : q # r /\ Wrote(q, k)' /\ Wrote(r, k)' => Apart(q, r, k)'
  BY DEF JournalInvariant, WritesHold, Apart, Wrote, Writing, InPc
<1> QED BY <1>1, <1>2, <1>3, <1>4, <1>5 DEF JournalInvariant, WritesHold

(* A transaction's end gives its rows to the tables, or drops them. *)
LEMMA RowsCommitted ==
  ASSUME RowTypes, NEW q \in Tx, Commit(q)
  PROVE  RowTypes'
<1>1. /\ draft[q].id \in Source /\ draft[q].row \in Row /\ draft[q].paid \in Paid
      /\ stmt' = [stmt EXCEPT ![draft[q].id] = draft[q].row]
      /\ instalment' = [instalment EXCEPT ![draft[q].id] = draft[q].paid]
      /\ draft' = [draft EXCEPT ![q] = Nothing]
  BY DEF RowTypes, Commit
<1>2. stmt' \in [Source -> Row] /\ instalment' \in [Source -> Paid]
  BY <1>1 DEF RowTypes
<1>3. DOMAIN draft' = Tx /\ \A r \in Tx : draft'[r] = Nothing \/ draft'[r] = draft[r]
  BY <1>1 DEF RowTypes
<1> QED BY <1>2, <1>3 DEF RowTypes

LEMMA RowsDropped ==
  ASSUME RowTypes, NEW q \in Tx, UNCHANGED <<stmt, instalment>>,
         draft' = [draft EXCEPT ![q] = Nothing]
  PROVE  RowTypes'
<1>1. DOMAIN draft' = Tx /\ \A r \in Tx : draft'[r] = Nothing \/ draft'[r] = draft[r]
  BY DEF RowTypes
<1> QED BY <1>1 DEF RowTypes

LEMMA RowsStay == ASSUME RowTypes, UNCHANGED Rows PROVE RowTypes'
BY DEF RowTypes, Rows

LEMMA Kept == ASSUME Inductive, [Next]_vars PROVE Inductive'
<1>0. RowTypes /\ JournalInvariant /\ JournalTypes
  BY DEF Inductive, JournalInvariant
<1>1. ASSUME NEW q \in Request, NEW s \in StatementId, Operation(q, s)
      PROVE  Inductive'
  <2>1. q \in Tx /\ s \in Source
    BY DEF Request, StatementId
  <2>2. /\ RowTypes' /\ UNCHANGED <<hist, period>> /\ sync[q].pc = "idle"
        /\ \E want \in Wants : sync' = [sync EXCEPT ![q] = Describe(q, s, want)]
    BY <1>0, <1>1, <2>1, OperationBegins
  <2>3. JournalInvariant'
    BY <1>0, <2>1, <2>2, Described
  <2> QED BY <2>2, <2>3 DEF Inductive
<1>2. ASSUME NEW q \in Request, Commit(q)
      PROVE  Inductive'
  <2>1. q \in Tx /\ CommitSync(q)
    BY <1>2 DEF Request, Commit
  <2>2. JournalInvariant'
    BY <1>0, <2>1, Commits
  <2>3. RowTypes'
    BY <1>0, <1>2, <2>1, RowsCommitted
  <2> QED BY <2>2, <2>3 DEF Inductive
<1>3. ASSUME NEW q \in Sweeper, NEW s \in StatementId, Sweep(q, s)
      PROVE  Inductive'
  <2>1. q \in Tx /\ s \in Source /\ stmt[s] \in Row /\ instalment[s] \in Paid
    BY <1>0, CarrierAssumption DEF RowTypes, StatementId
  <2>2. Postings(s, stmt[s], instalment[s]) \in Wants
    BY <2>1, PostingsWanted
  <2>3. /\ sync[q].pc = "idle" /\ UNCHANGED hist
        /\ sync' = [sync EXCEPT ![q] = Describe(q, s, Postings(s, stmt[s], instalment[s]))]
    BY <1>3 DEF Sweep, InPc
  <2>4. JournalInvariant'
    BY <1>0, <2>1, <2>2, <2>3, Described
  <2>5. RowTypes'
    BY <1>0, <1>3, RowsStay DEF Sweep, Rows
  <2> QED BY <2>4, <2>5 DEF Inductive
<1>4. ASSUME NEW q \in Sweeper, SweepCommit(q)
      PROVE  Inductive'
  <2>1. q \in Tx /\ CommitSync(q)
    BY <1>4, CarrierAssumption DEF SweepCommit
  <2>2. JournalInvariant'
    BY <1>0, <2>1, Commits
  <2>3. RowTypes'
    BY <1>0, <1>4, RowsStay DEF SweepCommit, Rows
  <2> QED BY <2>2, <2>3 DEF Inductive
<1>5. ASSUME NEW q \in Tx, SyncStep(q)
      PROVE  Inductive'
  <2>1. RowTypes'
    BY <1>0, <1>5, RowsStay DEF SyncStep
  <2>2. JournalInvariant'
    BY <1>0, <1>5, ReadsLiveKeys, Assesses, Writes1 DEF SyncStep
  <2> QED BY <2>1, <2>2 DEF Inductive
<1>6. ASSUME NEW q \in Tx, Rollback(q)
      PROVE  Inductive'
  <2>1. JournalInvariant'
    BY <1>0, <1>6, Aborts DEF Rollback
  <2>2. RowTypes'
    BY <1>0, <1>6, RowsDropped DEF Rollback
  <2> QED BY <2>1, <2>2 DEF Inductive
<1>7. ASSUME NEW m \in Month, ClosePeriod(m) \/ ReopenPeriod(m), UNCHANGED Rows
      PROVE  Inductive'
  <2>1. UNCHANGED <<hist, sync>>
    BY <1>7 DEF ClosePeriod, ReopenPeriod
  <2> QED BY <1>0, <1>7, <2>1, JournalStays, RowsStay DEF Inductive
<1>8. ASSUME UNCHANGED vars
      PROVE  Inductive'
  <2>1. UNCHANGED <<hist, sync>> /\ UNCHANGED Rows
    BY <1>8 DEF vars, Rows
  <2> QED BY <1>0, <2>1, JournalStays, RowsStay DEF Inductive
<1> QED BY <1>1, <1>2, <1>3, <1>4, <1>5, <1>6, <1>7, <1>8 DEF Next

-----------------------------------------------------------------------------
(* Of all versions of a posting at most one counts, whatever sweeps and
   operations sync the same statement at once, in whichever order. *)
THEOREM OneEntryCounts == Spec => []OneActivePosting
<1>1. Inductive => OneActivePosting
  <2> SUFFICES ASSUME Inductive, NEW k \in Key
               PROVE  Cardinality(Posted(k)) <= 1
    BY DEF OneActivePosting
  <2>1. CASE Posted(k) = {}
    BY <2>1, FS_EmptySet
  <2>2. CASE Posted(k) # {}
    <3>1. PICK i \in Posted(k) : TRUE
      BY <2>2
    <3>2. Posted(k) = {i}
      BY <3>1 DEF Inductive, JournalInvariant, OneStands
    <3>3. Cardinality({i}) = 1
      BY FS_Singleton
    <3> QED BY <3>2, <3>3
  <2> QED BY <2>1, <2>2
<1> QED BY <1>1, Starts, Kept, PTL DEF Spec

(* A commit changes each posting as the book allows. *)
LEMMA EntersBook ==
  ASSUME JournalInvariant, NEW q \in Tx, CommitSync(q), NEW k \in Key
  PROVE  LET old == [versions |-> Versions(k), live |-> Active(k)]
             new == [versions |-> Versions(k)', live |-> Active(k)']
         IN Book!Kept(old, new) \/ Book!Reversed(old, new) \/ Book!Restated(old, new)
<1> DEFINE old == [versions |-> Versions(k), live |-> Active(k)]
<1> DEFINE new == [versions |-> Versions(k)', live |-> Active(k)']
<1>1. hist'[k] = After(q, k)
  BY CommitsAll
<1>2. CASE ~Wrote(q, k)
  <2>1. hist'[k] = hist[k] /\ Posted(k)' = Posted(k)
    BY <1>2, CommitsAll
  <2>2. new = old
    BY <2>1 DEF Versions, Active
  <2> QED BY <2>2 DEF Book!Kept
<1>3. CASE Wrote(q, k)
  <2> DEFINE w == sync[q].writes[k]
  <2> DEFINE n == Len(hist[k])
  <2>1. /\ hist[k] \in Seq(Entry) /\ hist'[k] \in Seq(Entry)
        /\ \A i \in 1 .. n : hist'[k][i].money = hist[k][i].money
        /\ w.post = <<>> => Len(hist'[k]) = n /\ Posted(k)' = Posted(k) \ {w.reverse}
        /\ w.post # <<>> => Len(hist'[k]) = n + 1 /\ Posted(k)' = {n + 1}
    BY <1>1, <1>3, AfterCommit
  <2>2. /\ n \in Nat /\ DOMAIN hist[k] = 1 .. n /\ DOMAIN hist'[k] = 1 .. Len(hist'[k])
    BY <2>1
  <2>3. /\ Versions(k) = [i \in 1 .. n |-> hist[k][i].money]
        /\ Versions(k)' = [i \in 1 .. Len(hist'[k]) |-> hist'[k][i].money]
    BY <2>2 DEF Versions
  <2>4. CASE w.post = <<>> /\ Posted(k)' = Posted(k)
    <3>1. Versions(k)' = Versions(k)
      BY <2>1, <2>3, <2>4
    <3>2. Active(k)' = Active(k)
      BY <2>4 DEF Active
    <3> QED BY <3>1, <3>2 DEF Book!Kept
  <2>5. CASE w.post = <<>> /\ Posted(k)' # Posted(k)
    <3>1. Versions(k)' = Versions(k)
      BY <2>1, <2>3, <2>5
    <3>2. Posted(k)' = {} /\ Posted(k) # {}
      BY <2>1, <2>5 DEF JournalInvariant, OneStands
    <3>3. Active(k)' = 0
      BY <3>2 DEF Active
    <3>4. Active(k) # 0
      <4>1. Active(k) \in Posted(k)
        BY <3>2, ActiveStands DEF JournalInvariant
      <4> QED BY <2>2, <4>1 DEF Posted
    <3>5. old.live # 0 /\ new = [old EXCEPT !.live = 0]
      BY <3>1, <3>3, <3>4
    <3> QED BY <3>5 DEF Book!Reversed
  <2>6. CASE w.post # <<>>
    <3>1. Posted(k)' = {n + 1} /\ Len(hist'[k]) = n + 1
      BY <2>1, <2>6
    <3>2. Active(k)' = n + 1
      <4>1. Active(k)' = CHOOSE i \in {n + 1} : \A j \in {n + 1} : i <= j
        BY <3>1 DEF Active
      <4>2. \E i \in {n + 1} : \A j \in {n + 1} : i <= j
        BY <2>2
      <4> HIDE DEF n
      <4>3. Active(k)' \in {n + 1}
        BY <4>1, <4>2
      <4> QED BY <4>3
    <3> DEFINE v == Versions(k)
    <3> DEFINE x == Versions(k)'
    <3>3. /\ v \in Seq(Lines) /\ Len(v) = n
      <4>1. \A i \in 1 .. n : hist[k][i] \in Entry
        BY <2>1, <2>2
      <4>2. \A i \in 1 .. n : hist[k][i].money \in Lines
        BY <4>1 DEF Entry
      <4> QED BY <2>2, <2>3, <4>2
    <3>4. /\ x \in Seq(Lines) /\ Len(x) = n + 1
          /\ \A i \in 1 .. n : x[i] = v[i]
      <4>1. \A i \in 1 .. n + 1 : hist'[k][i] \in Entry
        BY <2>1, <2>2, <3>1
      <4>2. \A i \in 1 .. n + 1 : hist'[k][i].money \in Lines
        BY <4>1 DEF Entry
      <4> QED BY <2>1, <2>2, <2>3, <3>1, <4>2
    <3> HIDE DEF v, x, n
    <3>5. x = Append(v, x[n + 1])
      BY <2>2, <3>3, <3>4 DEF n
    <3>6. new = [versions |-> Append(old.versions, new.versions[n + 1]), live |-> n + 1]
      BY <3>2, <3>5 DEF v, x
    <3>7. Len(old.versions) = n /\ Len(new.versions) = n + 1
      BY <3>3, <3>4 DEF v, x
    <3> QED BY <3>6, <3>7 DEF Book!Restated
  <2> QED BY <2>4, <2>5, <2>6
<1> QED BY <1>2, <1>3

(* The journal, with every transaction that syncs it and every sweep, is a book
   in which a posting is written once and never altered, the latest version is
   the only one that can count, and one that stopped counting never does again. *)
THEOREM JournalIsABook == Spec => BookKept
<1> DEFINE pages == [k \in Key |-> [versions |-> Versions(k), live |-> Active(k)]]
<1>1. Init => Book!Init
  <2> SUFFICES ASSUME Init PROVE Book!Init
    OBVIOUS
  <2>1. \A k \in Key : hist[k] = <<>>
    BY DEF Init, JournalInit
  <2>2. ASSUME NEW k \in Key
        PROVE  Versions(k) = <<>> /\ Active(k) = 0
    <3>1. hist[k] = <<>> /\ Posted(k) = {}
      BY <2>1 DEF Posted
    <3> QED BY <3>1 DEF Versions, Active
  <2> QED BY <2>2 DEF Book!Init, Book!Blank
<1>2. Inductive /\ [Next]_vars => [Book!Next]_pages
  <2> SUFFICES ASSUME Inductive, [Next]_vars
               PROVE  Book!Next \/ UNCHANGED pages
    OBVIOUS
  <2>1. CASE UNCHANGED hist
    <3>1. \A k \in Key : Versions(k)' = Versions(k) /\ Active(k)' = Active(k)
      BY <2>1 DEF Versions, Active, Posted
    <3> QED BY <3>1
  <2>2. CASE \E q \in Tx : CommitSync(q)
    <3>1. PICK q \in Tx : CommitSync(q)
      BY <2>2
    <3>2. \A k \in Key :
            LET old == [versions |-> Versions(k), live |-> Active(k)]
                new == [versions |-> Versions(k)', live |-> Active(k)']
            IN Book!Kept(old, new) \/ Book!Reversed(old, new) \/ Book!Restated(old, new)
      BY <3>1, EntersBook DEF Inductive
    <3> QED BY <3>2 DEF Book!Next
  <2>3. UNCHANGED hist \/ \E q \in Tx : CommitSync(q)
    <3>1. ASSUME NEW q \in Request, NEW s \in StatementId, Operation(q, s)
          PROVE  UNCHANGED hist
      <4>1. q \in Tx /\ s \in Source
        BY DEF Request, StatementId
      <4> QED BY <3>1, <4>1, OperationBegins DEF Inductive, JournalInvariant
    <3>2. ASSUME NEW q \in Request, Commit(q)
          PROVE  q \in Tx /\ CommitSync(q)
      BY <3>2 DEF Request, Commit
    <3>3. ASSUME NEW q \in Sweeper, SweepCommit(q)
          PROVE  q \in Tx /\ CommitSync(q)
      BY <3>3, CarrierAssumption DEF SweepCommit
    <3>4. ASSUME NEW q \in Sweeper, NEW s \in StatementId, Sweep(q, s)
          PROVE  UNCHANGED hist
      BY <3>4 DEF Sweep
    <3>5. ASSUME NEW q \in Tx, SyncStep(q)
          PROVE  UNCHANGED hist
      <4>1. ASSUME NEW k \in Key, Write(q, k)
            PROVE  UNCHANGED hist
        BY <4>1 DEF Write
      <4>2. ASSUME NEW k \in Key, Assess(q, k)
            PROVE  UNCHANGED hist
        BY <4>2 DEF Assess
      <4>3. ReadLiveKeys(q) => UNCHANGED hist
        BY DEF ReadLiveKeys
      <4> QED BY <3>5, <4>1, <4>2, <4>3 DEF SyncStep
    <3>6. ASSUME NEW q \in Tx, Rollback(q)
          PROVE  UNCHANGED hist
      BY <3>6 DEF Rollback, AbortSync
    <3>7. ASSUME NEW m \in Month, ClosePeriod(m) \/ ReopenPeriod(m)
          PROVE  UNCHANGED hist
      BY <3>7 DEF ClosePeriod, ReopenPeriod
    <3>8. UNCHANGED vars => UNCHANGED hist
      BY DEF vars
    <3> QED BY <3>1, <3>2, <3>3, <3>4, <3>5, <3>6, <3>7, <3>8 DEF Next
  <2> QED BY <2>1, <2>2, <2>3
<1> QED BY <1>1, <1>2, Starts, Kept, PTL DEF Spec, BookKept, Book!Spec

-----------------------------------------------------------------------------
(***************************************************************************)
(* The money: statements agree with their instalments and with the orders  *)
(* they clear, and the books hold no cash but what a carrier paid.         *)
(*                                                                         *)
(* A statement's instalments only grow, so what a transaction wants posted *)
(* for one of them, or has posted, stays right whatever it was read from:  *)
(* the committed rows, for a sweep, or the operation's own.                *)
(***************************************************************************)

Received(is) == SumFunctionOnSet([p \in DOMAIN is |-> is[p].amount], DOMAIN is)

(* A row agrees with its instalments. *)
Balanced(row, is) ==
  /\ \A p \in DOMAIN is : is[p].amount \in Nat
  /\ row.paid = Received(is)
  /\ row.status = "settled" => row.paid = Net(row)
  /\ row.status = "partially_paid" => row.paid \in 1 .. Net(row) - 1

(* Instalments are added and never changed. *)
Longer(old, new) == DOMAIN old \subseteq DOMAIN new /\ \A p \in DOMAIN old : new[p] = old[p]

(* What an operation is about to commit. *)
Prepared(q) == draft[q] # Nothing =>
  LET d == draft[q] IN
  /\ q \in Request /\ d.row.status # "none" /\ stmt[d.id].status # "settled"
  /\ Balanced(d.row, d.paid) /\ Longer(instalment[d.id], d.paid)
  /\ d.cleared = IF d.row.status = "settled" THEN DOMAIN d.row.items ELSE {}

LocksHeld ==
  \A q, r \in Tx :
    q # r /\ draft[q] # Nothing /\ draft[r] # Nothing => draft[q].id # draft[r].id

ClearsSettled ==
  remitted = UNION {OnStatement(s) : s \in {t \in StatementId : stmt[t].status = "settled"}}

RowsAgree ==
  /\ \A s \in Source : /\ Balanced(stmt[s], instalment[s])
                       /\ stmt[s].status = "none" => instalment[s] = <<>>
  /\ \A q \in Tx : Prepared(q)
  /\ LocksHeld /\ ClearsSettled

-----------------------------------------------------------------------------
(* A charge never exceeds the cash it is taken from. *)
LEMMA NetIsNat ==
  ASSUME NEW row \in Row
  PROVE  Gross(row) \in Nat /\ ChargeTotal(row) \in Nat /\ Net(row) \in Nat
<1>1. PICK ids, f : /\ ids \subseteq Collection /\ f = row.items /\ DOMAIN f = ids
                    /\ \A c \in ids : f[c] \in Nat /\ f[c] <= Cash[c]
  <2>1. CASE row.items = <<>>
    BY <2>1
  <2>2. CASE row.items \in Items
    <3>1. PICK ids \in (SUBSET Collection) \ {{}} : row.items \in [ids -> Charges]
                                       /\ \A c \in ids : row.items[c] <= Cash[c]
      BY <2>2 DEF Items
    <3> QED BY <3>1, CarrierAssumption
  <2> QED BY <2>1, <2>2 DEF Row
<1>2. IsFiniteSet(ids) /\ \A c \in ids : f[c] \in Nat /\ Cash[c] \in Nat /\ f[c] <= Cash[c]
  BY <1>1, CarrierAssumption, FS_Subset
<1>3. SumFunctionOnSet(Cash, ids) \in Nat /\ SumFunctionOnSet(f, ids) \in Nat
  BY <1>2, SumIsNat
<1>4. SumFunctionOnSet(f, ids) <= SumFunctionOnSet(Cash, ids)
  BY <1>2, SumAtMost
<1>5. Gross(row) = SumFunctionOnSet(Cash, ids) /\ ChargeTotal(row) = SumFunctionOnSet(f, ids)
  BY <1>1 DEF Gross, ChargeTotal
<1> QED BY <1>3, <1>4, <1>5 DEF Net

LEMMA ReceivedNothing == Received(<<>>) = 0
<1>1. DOMAIN <<>> = {}
  OBVIOUS
<1> QED BY <1>1, SumOfNone DEF Received

LEMMA ReceivedIsNat ==
  ASSUME NEW is \in Paid, \A p \in DOMAIN is : is[p].amount \in Nat
  PROVE  Received(is) \in Nat
<1>1. is \in Seq(Instalment) /\ DOMAIN is = 1 .. Len(is)
  BY DEF Paid
<1>2. IsFiniteSet(DOMAIN is)
  BY <1>1, FS_Interval
<1>3. PICK f : f = [p \in DOMAIN is |-> is[p].amount]
  OBVIOUS
<1>4. \A p \in DOMAIN is : f[p] \in Nat
  BY <1>3
<1>5. SumFunctionOnSet(f, DOMAIN is) \in Nat
  BY <1>2, <1>4, SumIsNat
<1> QED BY <1>3, <1>5 DEF Received

LEMMA ReceivedMore ==
  ASSUME NEW is \in Paid, NEW e \in Instalment, e.amount \in Nat,
         \A p \in DOMAIN is : is[p].amount \in Nat
  PROVE  /\ Received(Append(is, e)) = Received(is) + e.amount
         /\ Longer(is, Append(is, e))
         /\ \A p \in DOMAIN Append(is, e) : Append(is, e)[p].amount \in Nat
<1>1. is \in Seq(Instalment)
  BY DEF Paid
<1>2. PICK n \in Nat : n = Len(is)
  BY <1>1
<1>3. PICK more : more = Append(is, e)
  OBVIOUS
<1>4. DOMAIN is = 1 .. n /\ DOMAIN more = 1 .. n + 1 /\ more[n + 1] = e
      /\ \A p \in 1 .. n : more[p] = is[p]
  BY <1>1, <1>2, <1>3
<1>5. PICK old, new : old = 1 .. n /\ new = 1 .. n + 1
  OBVIOUS
<1>6. new = old \cup {n + 1} /\ n + 1 \notin old /\ IsFiniteSet(old)
  <2>1. IsFiniteSet(1 .. n)
    BY FS_Interval
  <2> QED BY <1>5, <2>1
<1>7. PICK f, g : f = [p \in old |-> is[p].amount] /\ g = [p \in new |-> more[p].amount]
  OBVIOUS
<1>8. \A p \in old : f[p] = g[p] /\ g[p] \in Nat
  BY <1>4, <1>5, <1>6, <1>7
<1>9. g[n + 1] = e.amount
  BY <1>4, <1>6, <1>7
<1>10. SumFunctionOnSet(f, old) = SumFunctionOnSet(g, old)
  BY <1>6, <1>8, SumSame
<1>11. \A p \in old \cup {n + 1} : g[p] \in Int
  BY <1>8, <1>9
<1>12. SumFunctionOnSet(g, old \cup {n + 1}) = SumFunctionOnSet(g, old) + g[n + 1]
  <2>1. PICK x : x = n + 1
    OBVIOUS
  <2>2. x \notin old /\ \A p \in old \cup {x} : g[p] \in Int
    BY <1>6, <1>11, <2>1
  <2>3. SumFunctionOnSet(g, old \cup {x}) = SumFunctionOnSet(g, old) + g[x]
    BY <1>6, <2>2, SumAdd
  <2> QED BY <2>1, <2>3
<1>13. Received(more) = SumFunctionOnSet(g, old \cup {n + 1})
  BY <1>4, <1>5, <1>6, <1>7 DEF Received
<1>14. Received(is) = SumFunctionOnSet(f, old)
  BY <1>4, <1>5, <1>7 DEF Received
<1>15. Longer(is, more)
  BY <1>4, <1>5, <1>6 DEF Longer
<1>16. \A p \in DOMAIN more : more[p].amount \in Nat
  BY <1>4, <1>5, <1>6
<1> QED BY <1>3, <1>9, <1>10, <1>12, <1>13, <1>14, <1>15, <1>16

-----------------------------------------------------------------------------
(* The rows: an operation locks its statement, writes it, and commits. *)
LEMMA DraftIsOne ==
  ASSUME NEW s \in Source, NEW row, NEW is, NEW cleared
  PROVE  [id |-> s, row |-> row, paid |-> is, cleared |-> cleared] # Nothing
<1>1. "row" \in DOMAIN [id |-> s, row |-> row, paid |-> is, cleared |-> cleared]
  OBVIOUS
<1>2. "row" \notin DOMAIN Nothing
  BY DEF Nothing
<1> QED BY <1>1, <1>2

LEMMA OpensRows ==
  ASSUME RowTypes, RowsAgree, NEW q \in Request, NEW s \in Source, NEW row, NEW is, NEW cleared,
         Begin(q, s, row, is, cleared), lockCarrierSettlement(s),
         row.status # "none", stmt[s].status # "settled",
         Balanced(row, is), Longer(instalment[s], is),
         cleared = IF row.status = "settled" THEN DOMAIN row.items ELSE {}
  PROVE  RowsAgree'
<1>1. PICK d : d = [id |-> s, row |-> row, paid |-> is, cleared |-> cleared]
  OBVIOUS
<1>2. draft' = [draft EXCEPT ![q] = d] /\ UNCHANGED <<stmt, instalment, remitted>>
  BY <1>1 DEF Begin
<1>3. q \in Tx /\ draft'[q] = d /\ \A r \in Tx \ {q} : draft'[r] = draft[r]
  BY <1>2 DEF RowTypes, Request
<1>4. ASSUME NEW r \in Tx PROVE Prepared(r)'
  <2>1. CASE r = q
    <3>1. /\ d.id = s /\ d.row = row /\ d.paid = is /\ d.cleared = cleared
          /\ stmt'[s] = stmt[s] /\ instalment'[s] = instalment[s]
      BY <1>1, <1>2
    <3> QED BY <1>3, <2>1, <3>1 DEF Prepared
  <2>2. CASE r # q
    BY <1>2, <1>3, <2>2 DEF RowsAgree, Prepared
  <2> QED BY <2>1, <2>2
<1>5. \A r \in Tx \ {q} : draft[r] # Nothing => draft[r].id # s
  BY DEF RowsAgree, Prepared, lockCarrierSettlement
<1>6. LocksHeld'
  BY <1>1, <1>3, <1>5 DEF RowsAgree, LocksHeld
<1>7. ClearsSettled'
  BY <1>2 DEF RowsAgree, ClearsSettled, OnStatement
<1> QED BY <1>2, <1>4, <1>6, <1>7 DEF RowsAgree

LEMMA SameNet ==
  ASSUME NEW row, NEW new, new.items = row.items
  PROVE  Net(new) = Net(row)
BY DEF Net, Gross, ChargeTotal

LEMMA OperationOpens ==
  ASSUME RowTypes, RowsAgree, NEW q \in Request, NEW s \in StatementId, Operation(q, s)
  PROVE  RowsAgree'
<1>1. /\ s \in Source /\ stmt[s] \in Row /\ instalment[s] \in Paid /\ Today \in Month
      /\ Balanced(stmt[s], instalment[s])
  BY JournalAssumption DEF RowTypes, RowsAgree, StatementId
<1>2. Longer(instalment[s], instalment[s])
  BY DEF Longer
<1>3. ASSUME NEW items, NEW month, createCarrierSettlement(q, s, items, month)
      PROVE  RowsAgree'
  <2>1. PICK row : row = [status |-> "pending", month |-> month, items |-> items, paid |-> 0]
    OBVIOUS
  <2>2. Balanced(row, <<>>) /\ row.status = "pending"
    BY <2>1, ReceivedNothing DEF Balanced
  <2>3. stmt[s].status = "none" /\ Longer(instalment[s], <<>>)
    BY <1>1, <1>2, <1>3 DEF createCarrierSettlement, RowsAgree
  <2> QED BY <1>1, <1>3, <2>1, <2>2, <2>3, OpensRows DEF createCarrierSettlement
<1>4. ASSUME NEW items, updateCarrierSettlement(q, s, items)
      PROVE  RowsAgree'
  <2>1. PICK row : row = [stmt[s] EXCEPT !.items = items]
    OBVIOUS
  <2>2. stmt[s].status = "pending" /\ row.status = "pending" /\ row.paid = stmt[s].paid
    BY <1>1, <1>4, <2>1 DEF updateCarrierSettlement, Row
  <2>3. Balanced(row, instalment[s])
    BY <1>1, <2>2 DEF Balanced
  <2> QED BY <1>1, <1>2, <1>4, <2>1, <2>2, <2>3, OpensRows DEF updateCarrierSettlement
<1>5. ASSUME cancelCarrierSettlement(q, s)
      PROVE  RowsAgree'
  <2>1. PICK row : row = [stmt[s] EXCEPT !.status = "cancelled", !.items = <<>>]
    OBVIOUS
  <2>2. stmt[s].status = "pending" /\ row.status = "cancelled" /\ row.paid = stmt[s].paid
    BY <1>1, <1>5, <2>1 DEF cancelCarrierSettlement, Row
  <2>3. Balanced(row, instalment[s])
    BY <1>1, <2>2 DEF Balanced
  <2> QED BY <1>1, <1>2, <1>5, <2>1, <2>2, <2>3, OpensRows DEF cancelCarrierSettlement
<1>6. ASSUME NEW amount \in 0 .. Net(stmt[s]), payCarrierSettlement(q, s, amount)
      PROVE  RowsAgree'
  <2>1. PICK paid, full : paid = stmt[s].paid + amount /\ full = (Net(stmt[s]) = paid)
    OBVIOUS
  <2>2. PICK row : row = [stmt[s] EXCEPT !.paid = paid,
                            !.status = IF full THEN "settled" ELSE "partially_paid"]
    OBVIOUS
  <2>0. amount \in Nat /\ Net(stmt[s]) \in Nat
    BY <1>1, NetIsNat
  <2>3. PICK e \in Instalment : e = [amount |-> amount, month |-> Today] /\ e.amount = amount
    <3>1. PICK e : e = [amount |-> amount, month |-> Today]
      OBVIOUS
    <3>2. e \in Instalment /\ e.amount = amount
      BY <1>1, <2>0, <3>1 DEF Instalment
    <3> QED BY <3>1, <3>2
  <2>4. row.paid = paid /\ row.items = stmt[s].items
        /\ row.status = (IF full THEN "settled" ELSE "partially_paid")
    BY <1>1, <2>2 DEF Row
  <2>5. amount \in Nat /\ Net(stmt[s]) \in Nat /\ Net(row) = Net(stmt[s])
    BY <2>0, <2>4, SameNet
  <2>6. /\ Begin(q, s, row, Append(instalment[s], e), IF full THEN DOMAIN row.items ELSE {})
        /\ lockCarrierSettlement(s) /\ stmt[s].status \in {"pending", "partially_paid"}
        /\ amount > 0 \/ Net(stmt[s]) = stmt[s].paid
        /\ paid <= Net(stmt[s])
    BY <1>6, <2>1, <2>2, <2>3, <2>4 DEF payCarrierSettlement
  <2>7. stmt[s].paid \in Nat /\ stmt[s].paid = Received(instalment[s])
    BY <1>1, ReceivedIsNat DEF Balanced
  <2>8. /\ Received(Append(instalment[s], e)) = paid /\ Longer(instalment[s], Append(instalment[s], e))
        /\ \A p \in DOMAIN Append(instalment[s], e) : Append(instalment[s], e)[p].amount \in Nat
    BY <1>1, <2>1, <2>3, <2>5, <2>7, ReceivedMore DEF Balanced
  <2>9. ~full => paid \in 1 .. Net(row) - 1
    <3>1. PICK net \in Nat, had \in Nat : net = Net(stmt[s]) /\ had = stmt[s].paid
      BY <2>0, <2>7
    <3>2. amount > 0 \/ net = had
      BY <2>6, <3>1
    <3>3. paid = had + amount /\ paid <= net /\ (~full => paid # net)
      BY <2>1, <2>6, <3>1
    <3>4. ~full => paid \in 1 .. net - 1
      BY <2>0, <3>1, <3>2, <3>3
    <3> QED BY <2>5, <3>1, <3>4
  <2>10. Balanced(row, Append(instalment[s], e))
    BY <2>1, <2>4, <2>5, <2>8, <2>9 DEF Balanced
  <2>11. row.status = "settled" <=> full
    BY <2>4
  <2> QED BY <1>1, <2>4, <2>6, <2>8, <2>10, <2>11, OpensRows
<1> QED BY <1>3, <1>4, <1>5, <1>6 DEF Operation

LEMMA CommitsRows ==
  ASSUME RowTypes, RowsAgree, NEW q \in Request, Commit(q)
  PROVE  /\ RowsAgree'
         /\ \A s \in Source : Longer(instalment[s], instalment'[s])
<1>1. PICK d : /\ d = draft[q] /\ d # Nothing /\ q \in Tx /\ d.id \in Source
               /\ Prepared(q)
  BY DEF Commit, RowTypes, RowsAgree, Request
<1>2. /\ stmt' = [stmt EXCEPT ![d.id] = d.row]
      /\ instalment' = [instalment EXCEPT ![d.id] = d.paid]
      /\ remitted' = remitted \cup d.cleared
      /\ draft' = [draft EXCEPT ![q] = Nothing]
  BY <1>1 DEF Commit
<1>3. /\ stmt'[d.id] = d.row /\ instalment'[d.id] = d.paid
      /\ \A s \in Source \ {d.id} : stmt'[s] = stmt[s] /\ instalment'[s] = instalment[s]
      /\ draft'[q] = Nothing /\ \A r \in Tx \ {q} : draft'[r] = draft[r]
  BY <1>1, <1>2 DEF RowTypes
<1>4. /\ d.row.status # "none" /\ stmt[d.id].status # "settled"
      /\ Balanced(d.row, d.paid) /\ Longer(instalment[d.id], d.paid)
      /\ d.cleared = IF d.row.status = "settled" THEN DOMAIN d.row.items ELSE {}
  BY <1>1 DEF Prepared
<1>5. ASSUME NEW s \in Source
      PROVE  /\ Balanced(stmt[s], instalment[s])'
             /\ stmt'[s].status = "none" => instalment'[s] = <<>>
  <2>1. Balanced(stmt'[s], instalment'[s])
    BY <1>3, <1>4 DEF RowsAgree
  <2>2. stmt'[s].status = "none" => instalment'[s] = <<>>
    BY <1>3, <1>4 DEF RowsAgree
  <2> QED BY <2>1, <2>2 DEF Balanced, Net, Gross, ChargeTotal, Received
<1>6. ASSUME NEW r \in Tx PROVE Prepared(r)'
  <2>1. CASE r = q
    BY <1>3, <2>1 DEF Prepared
  <2>2. CASE r # q /\ draft[r] # Nothing
    <3>1. draft[r].id \in Source \ {d.id}
      BY <1>1, <2>2 DEF RowTypes, RowsAgree, LocksHeld
    <3> QED BY <1>3, <2>2, <3>1 DEF RowsAgree, Prepared
  <2>3. CASE r # q /\ draft[r] = Nothing
    BY <1>3, <2>3 DEF Prepared
  <2> QED BY <2>1, <2>2, <2>3
<1>7. LocksHeld'
  BY <1>3 DEF RowsAgree, LocksHeld
<1>8. ClearsSettled'
  <2>1. \A s \in Source : OnStatement(s)' = IF s = d.id THEN DOMAIN d.row.items ELSE OnStatement(s)
    BY <1>3 DEF OnStatement
  <2>2. \A c : c \in remitted <=> \E s \in Source : stmt[s].status = "settled" /\ c \in OnStatement(s)
    BY DEF RowsAgree, ClearsSettled, StatementId
  <2>3. \A c : c \in remitted' <=> c \in remitted \/ (d.row.status = "settled" /\ c \in DOMAIN d.row.items)
    BY <1>2, <1>4
  <2>4. \A c : c \in remitted' <=>
          \E s \in Source : stmt'[s].status = "settled" /\ c \in OnStatement(s)'
    BY <1>1, <1>3, <1>4, <2>1, <2>2, <2>3
  <2>5. remitted' = UNION {OnStatement(s)' : s \in {t \in Source : stmt'[t].status = "settled"}}
    BY <2>4
  <2> QED BY <2>5 DEF ClearsSettled, StatementId, OnStatement
<1>9. \A s \in Source : Longer(instalment[s], instalment'[s])
  BY <1>3, <1>4 DEF Longer
<1> QED BY <1>5, <1>6, <1>7, <1>8, <1>9 DEF RowsAgree

LEMMA DropsRows ==
  ASSUME RowTypes, RowsAgree, NEW q \in Tx, UNCHANGED <<stmt, instalment, remitted>>,
         draft' = [draft EXCEPT ![q] = Nothing]
  PROVE  RowsAgree'
<1>1. draft'[q] = Nothing /\ \A r \in Tx \ {q} : draft'[r] = draft[r]
  BY DEF RowTypes
<1>2. ASSUME NEW r \in Tx PROVE Prepared(r)'
  BY <1>1 DEF RowsAgree, Prepared
<1>3. LocksHeld'
  BY <1>1 DEF RowsAgree, LocksHeld
<1>4. ClearsSettled'
  BY DEF RowsAgree, ClearsSettled, OnStatement
<1> QED BY <1>2, <1>3, <1>4 DEF RowsAgree

LEMMA KeepsRows ==
  ASSUME RowsAgree, UNCHANGED Rows
  PROVE  RowsAgree'
BY DEF Rows, RowsAgree, Prepared, LocksHeld, ClearsSettled, OnStatement

-----------------------------------------------------------------------------
(* The postings. *)

(* What a posting may say, for the instalments is of its statement. *)
Says(is, k, money) ==
  IF k[2] = 0 THEN money \in Money
  ELSE k[2] \in DOMAIN is /\ money = <<is[k[2]].amount, 0>>

(* The instalments a transaction posts for. *)
Known(q) == IF draft[q] = Nothing THEN instalment[sync[q].source] ELSE draft[q].paid

Right(q, k, money) == k[1] = sync[q].source /\ Says(Known(q), k, money)

Posts(q) == Writing(q) =>
  /\ draft[q] # Nothing => sync[q].source = draft[q].id
  /\ \A k \in DOMAIN sync[q].want : Right(q, k, sync[q].want[k].money)
  /\ \A k \in DOMAIN sync[q].writes :
       sync[q].writes[k].post # <<>> => Right(q, k, sync[q].writes[k].post[1].money)

BooksSay ==
  /\ \A k \in Key : \A i \in DOMAIN hist[k] : Says(instalment[k[1]], k, hist[k][i].money)
  /\ \A q \in Tx : Posts(q)

LEMMA SaysMore ==
  ASSUME NEW old, NEW new, Longer(old, new), NEW k, NEW money, Says(old, k, money)
  PROVE  Says(new, k, money)
BY DEF Longer, Says

LEMMA PostingsSay ==
  ASSUME NEW s \in Source, NEW row \in Row, NEW is \in Paid,
         NEW k \in DOMAIN Postings(s, row, is)
  PROVE  k[1] = s /\ Says(is, k, Postings(s, row, is)[k].money)
<1>1. row.status # "cancelled"
  BY DEF Postings
<1>2. PICK ks : ks = {s} \X ({0} \cup {n \in DOMAIN is : is[n].amount > 0})
  OBVIOUS
<1>3. PICK f : f = [j \in ks |->
          IF j[2] = 0 THEN [money |-> <<Gross(row), ChargeTotal(row)>>, month |-> row.month]
          ELSE [money |-> <<is[j[2]].amount, 0>>, month |-> is[j[2]].month]]
  OBVIOUS
<1>4. Postings(s, row, is) = f
  BY <1>1, <1>2, <1>3 DEF Postings
<1>5. k \in ks
  BY <1>3, <1>4
<1>6. k[1] = s /\ (k[2] = 0 \/ k[2] \in DOMAIN is)
  BY <1>2, <1>5
<1>7. f[k].money = IF k[2] = 0 THEN <<Gross(row), ChargeTotal(row)>> ELSE <<is[k[2]].amount, 0>>
  BY <1>3, <1>5
<1>8. <<Gross(row), ChargeTotal(row)>> \in Money
  BY NetIsNat DEF Money
<1> QED BY <1>4, <1>6, <1>7, <1>8 DEF Says

(* A transaction that did not move still posts what it should. *)
LEMMA PostsStay ==
  ASSUME NEW r \in Tx, Posts(r), sync'[r] = sync[r], draft'[r] = draft[r], UNCHANGED instalment
  PROVE  Posts(r)'
<1>1. Writing(r)' <=> Writing(r)
  BY DEF Writing, InPc
<1>2. Known(r)' = Known(r)
  BY DEF Known
<1>3. \A k, money : Right(r, k, money)' <=> Right(r, k, money)
  BY <1>2 DEF Right, Says
<1> QED BY <1>1, <1>3 DEF Posts

(* A transaction sets out to post what rows call for. *)
LEMMA SetsOut ==
  ASSUME RowTypes, JournalTypes, BooksSay, UNCHANGED <<hist, instalment>>,
         NEW q \in Tx, NEW s \in Source, NEW row \in Row, NEW is \in Paid,
         sync' = [sync EXCEPT ![q] = Describe(q, s, Postings(s, row, is))],
         \A r \in Tx \ {q} : draft'[r] = draft[r],
         draft'[q] # Nothing => draft'[q].id = s,
         is = IF draft'[q] = Nothing THEN instalment[s] ELSE draft'[q].paid
  PROVE  BooksSay'
<1>1. sync'[q] = Describe(q, s, Postings(s, row, is)) /\ \A r \in Tx \ {q} : sync'[r] = sync[r]
  BY DEF JournalTypes
<1>2. /\ sync'[q].source = s /\ sync'[q].want = Postings(s, row, is)
      /\ DOMAIN sync'[q].writes = {}
  <2>1. DOMAIN <<>> = {}
    OBVIOUS
  <2> QED BY <1>1, <2>1 DEF Describe
<1>3. Known(q)' = is
  BY <1>2 DEF Known
<1>4. \A k \in DOMAIN sync'[q].want : k[1] = s /\ Says(is, k, sync'[q].want[k].money)
  BY <1>2, PostingsSay
<1>5. \A k \in DOMAIN sync'[q].want : Right(q, k, sync[q].want[k].money)'
  BY <1>2, <1>3, <1>4 DEF Right, Says
<1>6. Posts(q)'
  BY <1>2, <1>5 DEF Posts
<1>7. ASSUME NEW r \in Tx \ {q} PROVE Posts(r)'
  <2>1. Posts(r) /\ sync'[r] = sync[r] /\ draft'[r] = draft[r]
    BY <1>1 DEF BooksSay
  <2> QED BY <2>1, PostsStay
<1>8. \A k \in Key : \A i \in DOMAIN hist'[k] : Says(instalment[k[1]], k, hist[k][i].money)'
  BY DEF BooksSay, Says
<1> QED BY <1>6, <1>7, <1>8 DEF BooksSay

(* It reads, and writes what it set out to post. *)
LEMMA WorksOn ==
  ASSUME JournalTypes, BooksSay, UNCHANGED <<hist, instalment, draft>>, NEW q \in Tx, Writing(q),
         NEW j, sync' = [sync EXCEPT ![q] = j], j.source = sync[q].source, j.want = sync[q].want,
         \A k \in DOMAIN j.writes : j.writes[k].post # <<>> =>
           \/ k \in DOMAIN sync[q].writes /\ j.writes[k] = sync[q].writes[k]
           \/ k \in DOMAIN j.want /\ j.writes[k].post[1].money = j.want[k].money
  PROVE  BooksSay'
<1>1. sync'[q] = j /\ \A r \in Tx \ {q} : sync'[r] = sync[r]
  BY DEF JournalTypes
<1>2. Posts(q)
  BY DEF BooksSay
<1>3. \A k, money : Right(q, k, money)' <=> Right(q, k, money)
  BY <1>1 DEF Right, Known, Says
<1>4. Posts(q)'
  BY <1>1, <1>2, <1>3 DEF Posts
<1>5. ASSUME NEW r \in Tx \ {q} PROVE Posts(r)'
  <2>1. Posts(r) /\ sync'[r] = sync[r]
    BY <1>1 DEF BooksSay
  <2> QED BY <2>1, PostsStay
<1>6. \A k \in Key : \A i \in DOMAIN hist'[k] : Says(instalment[k[1]], k, hist[k][i].money)'
  BY DEF BooksSay, Says
<1> QED BY <1>4, <1>5, <1>6 DEF BooksSay

LEMMA Reads ==
  ASSUME JournalTypes, BooksSay, UNCHANGED <<instalment, draft>>, NEW q \in Tx,
         ReadLiveKeys(q) \/ \E k \in Key : Assess(q, k)
  PROVE  BooksSay'
<1>1. Writing(q) /\ sync[q] \in Running /\ UNCHANGED hist
  BY WorkTypes DEF ReadLiveKeys, Assess, InPc, Writing
<1>2. CASE ReadLiveKeys(q)
  <2>1. PICK todo : sync' = [sync EXCEPT ![q].pc = "syncing", ![q].todo = todo]
    BY <1>2 DEF ReadLiveKeys
  <2>2. PICK j : j = [sync[q] EXCEPT !.pc = "syncing", !.todo = todo]
    OBVIOUS
  <2>3. sync' = [sync EXCEPT ![q] = j]
    BY <2>1, <2>2 DEF JournalTypes
  <2>4. j.source = sync[q].source /\ j.want = sync[q].want /\ j.writes = sync[q].writes
    BY <1>1, <2>2 DEF Running
  <2> QED BY <1>1, <2>3, <2>4, WorksOn
<1>3. ASSUME NEW k \in Key, Assess(q, k) PROVE BooksSay'
  <2>1. PICK j : /\ sync' = [sync EXCEPT ![q] = j]
                 /\ \/ j = [sync[q] EXCEPT !.todo = @ \ {k}]
                    \/ j = [sync[q] EXCEPT !.pc = "writing", !.key = k,
                                           !.len = Len(hist[k]), !.active = Active(k)]
    <3>1. CASE IsCurrent(q, k)
      <4>1. sync' = [sync EXCEPT ![q] = [sync[q] EXCEPT !.todo = @ \ {k}]]
        BY <1>3, <3>1 DEF Assess
      <4> QED BY <4>1
    <3>2. CASE ~IsCurrent(q, k)
      <4>1. sync' = [sync EXCEPT ![q] = [sync[q] EXCEPT !.pc = "writing", !.key = k,
                                           !.len = Len(hist[k]), !.active = Active(k)]]
        BY <1>3, <3>2 DEF Assess
      <4> QED BY <4>1
    <3> QED BY <3>1, <3>2
  <2>2. j.source = sync[q].source /\ j.want = sync[q].want /\ j.writes = sync[q].writes
    BY <1>1, <2>1 DEF Running
  <2> QED BY <1>1, <2>1, <2>2, WorksOn
<1> QED BY <1>2, <1>3

LEMMA WritesWhatItSaid ==
  ASSUME JournalTypes, BooksSay, UNCHANGED <<instalment, draft>>, NEW q \in Tx,
         NEW k \in Key, Write(q, k)
  PROVE  BooksSay'
<1>1. Writing(q) /\ sync[q] \in Running /\ UNCHANGED hist
  BY WorkTypes DEF Write, InPc, Writing
<1>2. PICK w : /\ sync' = [sync EXCEPT ![q].pc = "syncing", ![q].todo = @ \ {k},
                                       ![q].writes = Noted(@, k, w)]
               /\ w.post # <<>> => /\ k \in DOMAIN sync[q].want
                                   /\ w.post[1].money = sync[q].want[k].money
  <2>1. PICK i, back, new :
          /\ i = sync[q].active
          /\ back = IF i # 0 /\ hist[k][i].reversal = Standing THEN i ELSE 0
          /\ new = (k \in DOMAIN sync[q].want /\ Len(hist[k]) = sync[q].len)
    OBVIOUS
  <2>2. PICK w : w = [reverse |-> back,
           into    |-> IF back = 0 THEN Standing ELSE ReversalMonth(q, k, back),
           post    |-> IF new THEN <<[money    |-> sync[q].want[k].money,
                                      month    |-> PostingMonth(sync[q].want[k].month),
                                      reversal |-> Standing]>>
                       ELSE <<>>]
    OBVIOUS
  <2>3. sync' = [sync EXCEPT ![q].pc = "syncing", ![q].todo = @ \ {k},
                             ![q].writes = Noted(@, k, w)]
    BY <2>1, <2>2 DEF Write
  <2>4. w.post # <<>> => k \in DOMAIN sync[q].want /\ w.post[1].money = sync[q].want[k].money
    BY <2>1, <2>2
  <2> QED BY <2>3, <2>4
<1>3. PICK j : j = [sync[q] EXCEPT !.pc = "syncing", !.todo = @ \ {k}, !.writes = Noted(@, k, w)]
  OBVIOUS
<1>4. sync' = [sync EXCEPT ![q] = j]
  BY <1>2, <1>3 DEF JournalTypes
<1>5. j.source = sync[q].source /\ j.want = sync[q].want /\ j.writes = Noted(sync[q].writes, k, w)
  BY <1>1, <1>3 DEF Running
<1>6. \A l \in DOMAIN j.writes :
        (l = k /\ j.writes[l] = w) \/ (l \in DOMAIN sync[q].writes /\ j.writes[l] = sync[q].writes[l])
  BY <1>5 DEF Noted
<1>7. \A l \in DOMAIN j.writes : j.writes[l].post # <<>> =>
           \/ l \in DOMAIN sync[q].writes /\ j.writes[l] = sync[q].writes[l]
           \/ l \in DOMAIN j.want /\ j.writes[l].post[1].money = j.want[l].money
  BY <1>2, <1>5, <1>6
<1> QED BY <1>1, <1>4, <1>5, <1>7, WorksOn

(* Its postings become the books', with the rows they were for. *)
LEMMA CommitsPostings ==
  ASSUME RowTypes, RowsAgree, JournalInvariant, BooksSay, NEW q \in Tx, CommitSync(q),
         \A r \in Tx \ {q} : draft'[r] = draft[r],
         \A s \in Source : Longer(instalment[s], instalment'[s]),
         Longer(Known(q), instalment'[sync[q].source])
  PROVE  BooksSay'
<1>1. /\ Writing(q) /\ sync[q] \in Running /\ Posts(q)
      /\ sync'[q].pc = "idle" /\ \A r \in Tx \ {q} : sync'[r] = sync[r]
  BY WorkTypes DEF CommitSync, SyncDone, InPc, Writing, Asleep, JournalInvariant, JournalTypes, BooksSay
<1>2. ASSUME NEW k \in Key, NEW i \in DOMAIN hist'[k]
      PROVE  Says(instalment'[k[1]], k, hist'[k][i].money)
  <2>0. k[1] \in Source
    BY DEF Key
  <2>1. CASE ~Wrote(q, k)
    <3>1. hist'[k] = hist[k]
      BY <2>1, CommitsAll
    <3>2. Says(instalment[k[1]], k, hist[k][i].money)
      BY <1>2, <3>1 DEF BooksSay
    <3> QED BY <2>0, <3>1, <3>2, SaysMore
  <2>2. CASE Wrote(q, k)
    <3>1. PICK w \in Written, n \in Nat : w = sync[q].writes[k] /\ n = Len(hist[k])
      BY <2>2, WriteTypes DEF JournalInvariant, JournalTypes
    <3>2. /\ hist[k] \in Seq(Entry) /\ hist'[k] \in Seq(Entry)
          /\ \A m \in 1 .. n : hist'[k][m].money = hist[k][m].money
          /\ w.post = <<>> => Len(hist'[k]) = n
          /\ w.post # <<>> => Len(hist'[k]) = n + 1
      <4>1. hist'[k] = After(q, k)
        BY CommitsAll
      <4> QED BY <2>2, <3>1, <4>1, AfterCommit
    <3>3. DOMAIN hist[k] = 1 .. n
      BY <3>1, <3>2
    <3>4. i \in 1 .. n \/ (w.post # <<>> /\ i = n + 1)
      BY <1>2, <3>2
    <3>5. CASE i \in 1 .. n
      <4>1. Says(instalment[k[1]], k, hist[k][i].money)
        BY <3>3, <3>5 DEF BooksSay
      <4> QED BY <2>0, <3>2, <3>5, <4>1, SaysMore
    <3>6. CASE w.post # <<>> /\ i = n + 1
      <4>1. hist'[k][n + 1] = w.post[1]
        <5>1. PICK h : h = [m \in DOMAIN hist[k] |-> IF m = w.reverse
                                     THEN [hist[k][m] EXCEPT !.reversal = w.into]
                                     ELSE hist[k][m]]
          OBVIOUS
        <5>2. hist'[k] = h \o w.post
          BY <2>2, <3>1, <5>1, CommitsAll DEF After, Wrote
        <5>3. h \in Seq(Entry) /\ Len(h) = n
          <6>1. w.reverse # 0 => w.into \in Month
            BY <2>2, <3>1 DEF JournalInvariant, WritesHold, WriteHolds
          <6>2. \A m \in 1 .. n : h[m] \in Entry
            <7> SUFFICES ASSUME NEW m \in 1 .. n PROVE h[m] \in Entry
              OBVIOUS
            <7>1. hist[k][m] \in Entry /\ m # 0
              BY <3>1, <3>2
            <7>2. m = w.reverse => [hist[k][m] EXCEPT !.reversal = w.into] \in Entry
              BY <6>1, <7>1 DEF Entry
            <7> QED BY <3>3, <5>1, <7>1, <7>2
          <6> QED BY <3>1, <3>3, <5>1, <6>2
        <5>4. PICK e \in Entry : w.post = <<e>>
          BY <3>1, <3>6 DEF Written, Posted1
        <5> QED BY <5>2, <5>3, <5>4
      <4>2. Right(q, k, w.post[1].money)
        BY <1>1, <2>2, <3>1, <3>6 DEF Posts, Wrote
      <4>3. Says(Known(q), k, w.post[1].money) /\ k[1] = sync[q].source
        BY <4>2 DEF Right
      <4> QED BY <3>6, <4>1, <4>3, SaysMore
    <3> QED BY <3>4, <3>5, <3>6
  <2> QED BY <2>1, <2>2
<1>3. ASSUME NEW r \in Tx PROVE Posts(r)'
  <2>1. CASE r = q
    BY <1>1, <2>1 DEF Posts, Writing, InPc
  <2>2. CASE r # q /\ Writing(r)
    <3>1. Posts(r) /\ sync'[r] = sync[r] /\ draft'[r] = draft[r] /\ sync[r].source \in Source
      BY <1>1, <2>2, WorkTypes DEF BooksSay, JournalInvariant, Running
    <3>2. Longer(Known(r), Known(r)')
      <4>1. CASE draft[r] = Nothing
        BY <3>1, <4>1 DEF Known
      <4>2. CASE draft[r] # Nothing
        BY <3>1, <4>2 DEF Known, Longer
      <4> QED BY <4>1, <4>2
    <3>3. \A k, money : Right(r, k, money) => Right(r, k, money)'
      <4> SUFFICES ASSUME NEW k, NEW money, Right(r, k, money)
                   PROVE  Right(r, k, money)'
        OBVIOUS
      <4>1. Says(Known(r)', k, money)
        BY <3>2, SaysMore DEF Right
      <4> QED BY <3>1, <4>1 DEF Right, Says
    <3> QED BY <2>2, <3>1, <3>3 DEF Posts
  <2>3. CASE r # q /\ ~Writing(r)
    BY <1>1, <2>3 DEF Posts, Writing, InPc
  <2> QED BY <2>1, <2>2, <2>3
<1>4. \A k \in Key : \A i \in DOMAIN hist'[k] : Says(instalment[k[1]], k, hist[k][i].money)'
  BY <1>2 DEF Says
<1> QED BY <1>3, <1>4 DEF BooksSay

LEMMA DropsPostings ==
  ASSUME JournalTypes, BooksSay, UNCHANGED <<hist, instalment>>, NEW q \in Tx,
         sync' = [sync EXCEPT ![q] = Asleep], \A r \in Tx \ {q} : draft'[r] = draft[r]
  PROVE  BooksSay'
<1>1. sync'[q].pc = "idle" /\ \A r \in Tx \ {q} : sync'[r] = sync[r]
  BY DEF JournalTypes, Asleep
<1>2. ASSUME NEW r \in Tx PROVE Posts(r)'
  <2>1. CASE r = q
    BY <1>1, <2>1 DEF Posts, Writing, InPc
  <2>2. CASE r # q
    <3>1. Posts(r) /\ sync'[r] = sync[r] /\ draft'[r] = draft[r]
      BY <1>1, <2>2 DEF BooksSay
    <3> QED BY <3>1, PostsStay
  <2> QED BY <2>1, <2>2
<1>3. \A k \in Key : \A i \in DOMAIN hist'[k] : Says(instalment[k[1]], k, hist[k][i].money)'
  BY DEF BooksSay, Says
<1> QED BY <1>2, <1>3 DEF BooksSay

LEMMA SamePostings ==
  ASSUME BooksSay, UNCHANGED <<hist, sync, instalment, draft>>
  PROVE  BooksSay'
BY DEF BooksSay, Posts, Right, Known, Says, Writing, InPc

-----------------------------------------------------------------------------
MoneyKept ==
  /\ RowsAgree /\ BooksSay
  /\ period \in [Month -> {"open", "closed"}]

LEMMA MoneyStarts ==
  ASSUME Init
  PROVE  MoneyKept
<1>1. /\ \A s \in Source : stmt[s] = Absent /\ instalment[s] = <<>>
      /\ remitted = {} /\ \A q \in Tx : draft[q] = Nothing /\ sync[q] = Asleep
      /\ \A k \in Key : hist[k] = <<>>
      /\ period \in [Month -> {"open", "closed"}]
  BY DEF Init, JournalInit, StatementId
<1>2. \A s \in Source : Balanced(stmt[s], instalment[s])
  BY <1>1, ReceivedNothing DEF Balanced, Absent
<1>3. \A s \in Source : stmt[s].status = "none"
  BY <1>1 DEF Absent
<1>4. ClearsSettled
  BY <1>1, <1>3 DEF ClearsSettled, StatementId
<1>5. RowsAgree
  BY <1>1, <1>2, <1>4 DEF RowsAgree, Prepared, LocksHeld
<1>6. \A q \in Tx : Posts(q)
  BY <1>1 DEF Posts, Writing, InPc, Asleep
<1>7. BooksSay
  BY <1>1, <1>6 DEF BooksSay
<1> QED BY <1>1, <1>5, <1>7 DEF MoneyKept

LEMMA OperationMoney ==
  ASSUME Inductive, MoneyKept, NEW q \in Request, NEW s \in StatementId, Operation(q, s)
  PROVE  MoneyKept'
<1>1. /\ q \in Tx /\ s \in Source /\ RowTypes /\ JournalTypes /\ RowTypes' /\ UNCHANGED period
      /\ RowsAgree /\ BooksSay
  BY OperationBegins DEF Inductive, JournalInvariant, MoneyKept, Request, StatementId
<1>2. RowsAgree'
  BY <1>1, OperationOpens
<1>3. PICK row, is, cleared : Begin(q, s, row, is, cleared)
  BY DEF Operation, createCarrierSettlement, updateCarrierSettlement, cancelCarrierSettlement,
         payCarrierSettlement
<1>4. PICK d : d = [id |-> s, row |-> row, paid |-> is, cleared |-> cleared] /\ d # Nothing
  BY <1>1, DraftIsOne
<1>5. /\ draft' = [draft EXCEPT ![q] = d] /\ UNCHANGED <<hist, instalment>>
      /\ sync' = [sync EXCEPT ![q] = Describe(q, s, Postings(s, row, is))]
  BY <1>3, <1>4 DEF Begin
<1>6. draft'[q] = d /\ \A r \in Tx \ {q} : draft'[r] = draft[r]
  BY <1>1, <1>5 DEF RowTypes
<1>7. row \in Row /\ is \in Paid /\ d.id = s /\ d.paid = is
  BY <1>1, <1>4, <1>6 DEF RowTypes
<1>8. BooksSay'
  BY <1>1, <1>4, <1>5, <1>6, <1>7, SetsOut
<1> QED BY <1>1, <1>2, <1>8 DEF MoneyKept

LEMMA CommitMoney ==
  ASSUME Inductive, MoneyKept, NEW q \in Request, Commit(q)
  PROVE  MoneyKept'
<1>1. /\ q \in Tx /\ CommitSync(q) /\ RowTypes /\ JournalInvariant /\ RowsAgree /\ BooksSay
      /\ UNCHANGED period /\ Writing(q)
  BY DEF Commit, CommitSync, SyncDone, InPc, Writing, Inductive, MoneyKept, Request
<1>2. RowsAgree' /\ \A s \in Source : Longer(instalment[s], instalment'[s])
  BY <1>1, CommitsRows
<1>3. \A r \in Tx \ {q} : draft'[r] = draft[r]
  BY <1>1 DEF Commit, RowTypes
<1>4. Longer(Known(q), instalment'[sync[q].source])
  <2>1. draft[q] # Nothing /\ sync[q].source = draft[q].id /\ draft[q].id \in Source
    BY <1>1 DEF Commit, BooksSay, Posts, RowTypes
  <2>2. instalment'[draft[q].id] = draft[q].paid
    BY <1>1, <2>1 DEF Commit, RowTypes
  <2> QED BY <2>1, <2>2 DEF Known, Longer
<1>5. BooksSay'
  BY <1>1, <1>2, <1>3, <1>4, CommitsPostings
<1> QED BY <1>1, <1>2, <1>5 DEF MoneyKept

LEMMA SweepMoney ==
  ASSUME Inductive, MoneyKept, NEW q \in Sweeper,
         SweepCommit(q) \/ \E s \in StatementId : Sweep(q, s)
  PROVE  MoneyKept'
<1>1. /\ q \in Tx /\ RowTypes /\ JournalInvariant /\ JournalTypes /\ RowsAgree /\ BooksSay
      /\ UNCHANGED period /\ UNCHANGED Rows
  BY CarrierAssumption DEF Inductive, JournalInvariant, MoneyKept, SweepCommit, CommitSync, Sweep, Rows
<1>2. RowsAgree'
  BY <1>1, KeepsRows
<1>3. draft[q] = Nothing
  BY <1>1 DEF RowsAgree, Prepared, Request
<1>4. ASSUME NEW s \in StatementId, Sweep(q, s) PROVE BooksSay'
  <2>1. s \in Source /\ stmt[s] \in Row /\ instalment[s] \in Paid
    BY <1>1 DEF RowTypes, StatementId
  <2>2. /\ UNCHANGED <<hist, instalment, draft>>
        /\ sync' = [sync EXCEPT ![q] = Describe(q, s, Postings(s, stmt[s], instalment[s]))]
    BY <1>4 DEF Sweep
  <2> QED BY <1>1, <1>3, <2>1, <2>2, SetsOut
<1>5. ASSUME SweepCommit(q) PROVE BooksSay'
  <2>1. CommitSync(q) /\ UNCHANGED <<instalment, draft>>
    BY <1>5 DEF SweepCommit
  <2>2. Longer(Known(q), instalment'[sync[q].source]) /\ \A s \in Source : Longer(instalment[s], instalment'[s])
    BY <1>3, <2>1 DEF Known, Longer
  <2> QED BY <1>1, <2>1, <2>2, CommitsPostings
<1> QED BY <1>1, <1>2, <1>4, <1>5 DEF MoneyKept

LEMMA MoneyNext ==
  ASSUME Inductive, MoneyKept, [Next]_vars
  PROVE  MoneyKept'
<1>0. RowTypes /\ JournalTypes /\ RowsAgree /\ BooksSay /\ period \in [Month -> {"open", "closed"}]
  BY DEF Inductive, JournalInvariant, MoneyKept
<1>1. ASSUME NEW q \in Tx, SyncStep(q)
      PROVE  MoneyKept'
  <2>1. UNCHANGED Rows /\ UNCHANGED period
    BY <1>1 DEF SyncStep, ReadLiveKeys, Assess, Write
  <2>2. RowsAgree'
    BY <1>0, <2>1, KeepsRows
  <2>3. BooksSay'
    BY <1>0, <1>1, <2>1, Reads, WritesWhatItSaid DEF SyncStep, Rows
  <2> QED BY <1>0, <2>1, <2>2, <2>3 DEF MoneyKept
<1>2. ASSUME NEW q \in Tx, Rollback(q)
      PROVE  MoneyKept'
  <2>1. /\ UNCHANGED <<hist, period, stmt, instalment, remitted>>
        /\ sync' = [sync EXCEPT ![q] = Asleep] /\ draft' = [draft EXCEPT ![q] = Nothing]
    BY <1>2 DEF Rollback, AbortSync
  <2>2. RowsAgree'
    BY <1>0, <2>1, DropsRows
  <2>3. \A r \in Tx \ {q} : draft'[r] = draft[r]
    BY <1>0, <2>1 DEF RowTypes
  <2>4. BooksSay'
    BY <1>0, <2>1, <2>3, DropsPostings
  <2> QED BY <1>0, <2>1, <2>2, <2>4 DEF MoneyKept
<1>3. ASSUME NEW m \in Month, ClosePeriod(m) \/ ReopenPeriod(m), UNCHANGED Rows
      PROVE  MoneyKept'
  <2>1. UNCHANGED <<hist, sync, instalment, draft>> /\ period' \in [Month -> {"open", "closed"}]
    BY <1>0, <1>3 DEF ClosePeriod, ReopenPeriod, Rows
  <2> QED BY <1>0, <1>3, <2>1, KeepsRows, SamePostings DEF MoneyKept
<1>4. ASSUME UNCHANGED vars
      PROVE  MoneyKept'
  <2>1. UNCHANGED <<hist, sync, instalment, draft, period>> /\ UNCHANGED Rows
    BY <1>4 DEF vars, Rows
  <2> QED BY <1>0, <2>1, KeepsRows, SamePostings DEF MoneyKept
<1> QED BY <1>1, <1>2, <1>3, <1>4, OperationMoney, CommitMoney, SweepMoney DEF Next

LEMMA MoneyStays == Spec => [](Inductive /\ MoneyKept)
<1>1. Init => Inductive /\ MoneyKept
  BY Starts, MoneyStarts
<1>2. Inductive /\ MoneyKept /\ [Next]_vars => (Inductive /\ MoneyKept)'
  BY Kept, MoneyNext
<1> QED BY <1>1, <1>2, PTL DEF Spec

(* Statement rows, postings and periods keep the types of their columns, and no
   carrier charge exceeds the cash it is taken from (carrierItems). *)
THEOREM TypesHold == Spec => []TypeOK
<1>1. Inductive /\ MoneyKept => TypeOK
  <2> SUFFICES ASSUME Inductive, MoneyKept PROVE TypeOK
    OBVIOUS
  <2>0. RowTypes /\ JournalTypes /\ RowsAgree /\ BooksSay
    BY DEF Inductive, JournalInvariant, MoneyKept
  <2>1. ASSUME NEW k \in Key, NEW i \in DOMAIN hist[k]
        PROVE  hist[k][i] \in [money : Money, month : Month, reversal : Month \cup {Standing}]
    <3>1. hist[k][i] \in Entry
      BY <2>0 DEF JournalTypes
    <3>2. Says(instalment[k[1]], k, hist[k][i].money) /\ k[1] \in Source
      BY <2>0 DEF BooksSay, Key
    <3>3. hist[k][i].money \in Money
      <4>1. CASE k[2] = 0
        BY <3>2, <4>1 DEF Says
      <4>2. CASE k[2] # 0
        <5>1. PICK n : n = instalment[k[1]][k[2]].amount /\ hist[k][i].money = <<n, 0>> /\ n \in Nat
          BY <2>0, <3>2, <4>2 DEF Says, RowsAgree, Balanced
        <5> QED BY <5>1 DEF Money
      <4> QED BY <4>1, <4>2
    <3> QED BY <3>1, <3>3 DEF Entry
  <2>2. \A q \in Tx : sync[q].pc \in {"idle", "described", "syncing", "writing"}
    BY <2>0 DEF JournalTypes, Running, Asleep
  <2>3. ASSUME NEW s \in StatementId
        PROVE  /\ stmt[s].status \in {"none", "pending", "partially_paid", "settled", "cancelled"}
               /\ Net(stmt[s]) \in Nat /\ OnStatement(s) \subseteq Collection
    <3>1. stmt[s] \in Row
      BY <2>0 DEF RowTypes, StatementId
    <3>2. stmt[s].items = <<>> \/ stmt[s].items \in Items
      BY <3>1 DEF Row
    <3>3. OnStatement(s) \subseteq Collection
      BY <3>2 DEF OnStatement, Items
    <3> QED BY <3>1, <3>3, NetIsNat DEF Row
  <2>4. remitted \subseteq Collection
    BY <2>0, <2>3 DEF RowsAgree, ClearsSettled
  <2> QED BY <2>1, <2>2, <2>3, <2>4 DEF TypeOK, MoneyKept
<1> QED BY <1>1, MoneyStays, PTL

(* The books never hold cash a carrier did not pay: an instalment is posted for
   a payment recorded and for its amount (syncCarrierSettlementPostings). *)
THEOREM CashIsPaid == Spec => []CashNeverOverposted
<1>1. Inductive /\ MoneyKept => CashNeverOverposted
  <2> SUFFICES ASSUME Inductive, MoneyKept, NEW s \in StatementId, NEW p \in Payment,
                      Posted(<<s, p>>) # {}
               PROVE  /\ p \in DOMAIN instalment[s]
                      /\ Books(<<s, p>>) = <<instalment[s][p].amount, 0>>
    BY DEF CashNeverOverposted
  <2>1. PICK k \in Key : k = <<s, p>> /\ k[1] = s /\ k[2] = p /\ p # 0
    BY DEF Key, StatementId, Payment
  <2>2. JournalTypes /\ OneStands /\ BooksSay
    BY DEF Inductive, JournalInvariant, MoneyKept
  <2>3. Active(k) \in Posted(k) /\ Active(k) \in 0 .. Len(hist[k])
    BY <2>1, <2>2, ActiveStands
  <2>4. Active(k) \in DOMAIN hist[k] /\ Active(k) # 0
    BY <2>2, <2>3 DEF Posted, JournalTypes
  <2>5. Says(instalment[s], k, hist[k][Active(k)].money)
    BY <2>1, <2>2, <2>4 DEF BooksSay
  <2> QED BY <2>1, <2>4, <2>5 DEF Says, Books
<1> QED BY <1>1, MoneyStays, PTL

(* A carrier statement's paid total is its instalments, it is settled when they
   come to its net, and exactly the orders of settled statements are cleared
   (payCarrierSettlement). *)
THEOREM PaymentsAddUp == Spec => []CarrierPaidAddsUp
<1>1. Inductive /\ MoneyKept => CarrierPaidAddsUp
  <2> SUFFICES ASSUME Inductive, MoneyKept PROVE CarrierPaidAddsUp
    OBVIOUS
  <2>1. \A s \in StatementId : Balanced(stmt[s], instalment[s])
    BY DEF MoneyKept, RowsAgree, StatementId
  <2>2. remitted = UNION {OnStatement(s) : s \in {t \in StatementId : stmt[t].status = "settled"}}
    BY DEF MoneyKept, RowsAgree, ClearsSettled
  <2> QED BY <2>1, <2>2 DEF CarrierPaidAddsUp, Balanced, Received
<1> QED BY <1>1, MoneyStays, PTL
=============================================================================
