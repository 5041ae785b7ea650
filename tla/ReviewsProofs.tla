--------------------------- MODULE ReviewsProofs ---------------------------
(***************************************************************************)
(* Proofs about CodRequests and BranchStatement, for any vendors, branches *)
(* and statements, any number of handlers and transactions, and any        *)
(* amounts.                                                                *)
(***************************************************************************)
EXTENDS Reviews, Sums

-----------------------------------------------------------------------------
(* COD requests.  What a review has read stays true until it writes, because
   its request stays live that long, and the index lets the vendor have no
   other live one that could be settled meanwhile. *)
Reviewing(h) == call[h].at \in {"statement", "taken", "swap"}
Settles(h)   == Reviewing(h) /\ call[h].status = "settled"

(* A review works on a request that was raised, of the vendor it has read. *)
KnowsRequest ==
  \A h \in Handler : Reviewing(h) =>
    /\ request[call[h].id] \in Row
    /\ request[call[h].id].vendor = call[h].vendor

(* What a settlement has looked at so far; only settlements look. *)
KnowsStatement ==
  \A h \in Handler :
    /\ call[h].at \in {"statement", "taken"} => call[h].status = "settled"
    /\ Settles(h) => call[h].statement \in VendorStatement
    /\ Settles(h) /\ call[h].at # "statement" => Owner[call[h].statement] = call[h].vendor

(* cod_settlement_requests_one_live_per_vendor *)
OneLive ==
  \A r1, r2 \in RequestId :
    Live(r1) /\ Live(r2) /\ request[r1].vendor = request[r2].vendor => r1 = r2

(* While its request is live, the statement of a settlement that is about to be
   written has answered no other. *)
StillFree ==
  \A h \in Handler : Settles(h) /\ call[h].at = "swap" /\ Live(call[h].id) =>
    \A other \in RequestId \ {call[h].id} :
      request[other].status = "settled" => request[other].statement # call[h].statement

CodInv == CodTypeOK /\ KnowsRequest /\ KnowsStatement /\ OneLive /\ StillFree /\ AnsweredOnce

LEMMA CodStarts == CodInit => CodInv
BY CodRequestsAssumption
   DEF CodInit, CodInv, CodTypeOK, KnowsRequest, KnowsStatement, OneLive, StillFree, AnsweredOnce,
       Reviewing, Settles, Live, NoRequest, AtRest, Nobody, LIVE_REQUEST_STATUSES, TERMINAL

(* A handler that writes nothing: what it goes on to know is all to check. *)
LEMMA CodReads ==
  ASSUME CodInv, UNCHANGED <<request, statement>>, NEW h \in Handler, NEW c,
         call' = [call EXCEPT ![h] = c],
         c = AtRest \/ (/\ c.at = "create" /\ c \in [at : {"create"}, vendor : Vendor])
                    \/ (/\ c \in Review
                        /\ request[c.id] \in Row /\ request[c.id].vendor = c.vendor
                        /\ c.at \in {"statement", "taken"} => c.status = "settled"
                        /\ c.status = "settled" =>
                             /\ c.statement \in VendorStatement
                             /\ c.at # "statement" => Owner[c.statement] = c.vendor
                             /\ c.at = "swap" => ~LinkedTo(c.statement, c.id))
  PROVE  CodInv'
<1>1. call'[h] = c /\ \A g \in Handler \ {h} : call'[g] = call[g]
  BY DEF CodInv, CodTypeOK
<1>2. CodTypeOK'
  BY DEF CodInv, CodTypeOK
<1>3. KnowsRequest'
  BY <1>1 DEF CodInv, KnowsRequest, Reviewing, AtRest
<1>4. KnowsStatement'
  BY <1>1 DEF CodInv, KnowsStatement, Reviewing, Settles, AtRest
<1>5. OneLive' /\ AnsweredOnce'
  BY DEF CodInv, OneLive, AnsweredOnce, Live
<1>6. StillFree'
  BY <1>1 DEF CodInv, StillFree, Reviewing, Settles, AtRest, Live, LinkedTo
<1> QED BY <1>2, <1>3, <1>4, <1>5, <1>6 DEF CodInv

LEMMA CodHandles ==
  ASSUME CodInv, NEW h \in Handler, Handle(h)
  PROVE  CodInv'
<1>1. ASSUME NEW v \in Vendor \cup {Nobody}, ReadLiveRequest(h, v)
      PROVE  CodInv'
  <2>1. v \in Vendor
    BY <1>1 DEF ReadLiveRequest, VendorAccount
  <2> QED BY <1>1, <2>1, CodReads DEF ReadLiveRequest
<1>2. ASSUME NEW r \in RequestId, createCodSettlementRequest(h, r)
      PROVE  CodInv'
  <2> DEFINE new == [status |-> "open", vendor |-> call[h].vendor, statement |-> Nobody]
  <2>1. /\ request'[r] = new /\ \A s \in RequestId \ {r} : request'[s] = request[s]
        /\ call'[h] = AtRest /\ \A g \in Handler \ {h} : call'[g] = call[g]
        /\ request[r].status = Nobody /\ call[h].vendor \in Vendor
        /\ \A s \in RequestId : Live(s) => request[s].vendor # call[h].vendor
    BY <1>2 DEF createCodSettlementRequest, CodInv, CodTypeOK, OneLivePerVendor, LiveOf, AtRest, Review
  <2>2. CodTypeOK'
    BY <1>2, <2>1 DEF createCodSettlementRequest, CodInv, CodTypeOK, Row, LIVE_REQUEST_STATUSES
  <2>3. KnowsRequest'
    BY <2>1 DEF CodInv, KnowsRequest, CodTypeOK, Review, Reviewing, AtRest, Row, Nobody,
                LIVE_REQUEST_STATUSES, TERMINAL
  <2>4. KnowsStatement'
    BY <2>1 DEF CodInv, KnowsStatement, Reviewing, Settles, AtRest
  <2>5. OneLive'
    BY <2>1 DEF CodInv, OneLive, Live
  <2>6. StillFree'
    <3> SUFFICES ASSUME NEW g \in Handler, (Settles(g) /\ call[g].at = "swap" /\ Live(call[g].id))',
                        NEW other \in RequestId \ {call'[g].id}, request'[other].status = "settled"
                 PROVE  request'[other].statement # call'[g].statement
      BY DEF StillFree
    <3>1. g # h /\ call'[g] = call[g] /\ Settles(g) /\ call[g].at = "swap"
      BY <2>1 DEF Settles, Reviewing, AtRest
    <3>2. call[g].id # r /\ call[g].id \in RequestId
      BY <2>1, <3>1 DEF Settles, CodInv, KnowsRequest, Row, Nobody, LIVE_REQUEST_STATUSES, TERMINAL,
                        CodTypeOK, Review, Reviewing, AtRest
    <3>3. Live(call[g].id) /\ other # r /\ other \in RequestId \ {call[g].id}
      BY <2>1, <3>1, <3>2 DEF Live
    <3> QED BY <2>1, <3>1, <3>3 DEF CodInv, StillFree
  <2>7. AnsweredOnce'
    BY <2>1 DEF CodInv, AnsweredOnce
  <2> QED BY <2>2, <2>3, <2>4, <2>5, <2>6, <2>7 DEF CodInv
<1>3. ASSUME NEW r \in RequestId, NEW d \in Decisions, ReadRequest(h, r, d)
      PROVE  CodInv'
  <2> DEFINE c == [at |-> IF d.status = "settled" THEN "statement" ELSE "swap",
                   id |-> r, vendor |-> request[r].vendor, status |-> d.status,
                   statement |-> d.statement]
  <2>1. request[r] \in Row
    BY <1>3 DEF ReadRequest, Live, CodInv, CodTypeOK, NoRequest, Nobody, LIVE_REQUEST_STATUSES
  <2>2. c \in Review /\ (d.status = "settled" => d.statement \in VendorStatement)
    BY <2>1 DEF Row, Review, Decisions, TERMINAL
  <2>3. UNCHANGED <<request, statement>> /\ call' = [call EXCEPT ![h] = c]
    BY <1>3 DEF ReadRequest
  <2> HIDE DEF c
  <2>4. c.id = r /\ c.vendor = request[r].vendor /\ c.status = d.status /\ c.statement = d.statement
        /\ c.at = IF d.status = "settled" THEN "statement" ELSE "swap"
    BY DEF c
  <2> QED BY <2>1, <2>2, <2>3, <2>4, CodReads
<1>4. CASE ReadStatement(h)
  <2> DEFINE c == [call[h] EXCEPT !.at = "taken"]
  <2>1. call[h] \in Review /\ call[h].at = "statement"
    BY <1>4 DEF ReadStatement, CodInv, CodTypeOK, AtRest, Review
  <2>2. c \in Review /\ c.at = "taken" /\ c.id = call[h].id /\ c.vendor = call[h].vendor
        /\ c.status = call[h].status /\ c.statement = call[h].statement
    BY <2>1 DEF Review
  <2>3. /\ call[h].status = "settled" /\ call[h].statement \in VendorStatement
        /\ Owner[call[h].statement] = call[h].vendor
        /\ request[call[h].id] \in Row /\ request[call[h].id].vendor = call[h].vendor
    BY <1>4, <2>1 DEF ReadStatement, CodInv, KnowsStatement, KnowsRequest, Settles, Reviewing
  <2>4. UNCHANGED <<request, statement>> /\ call' = [call EXCEPT ![h] = c]
    BY <1>4 DEF ReadStatement
  <2> HIDE DEF c
  <2> QED BY <2>2, <2>3, <2>4, CodReads
<1>5. CASE ReadTaken(h)
  <2> DEFINE c == [call[h] EXCEPT !.at = "swap"]
  <2>1. call[h] \in Review /\ call[h].at = "taken"
    BY <1>5 DEF ReadTaken, CodInv, CodTypeOK, AtRest, Review
  <2>2. c \in Review /\ c.at = "swap" /\ c.id = call[h].id /\ c.vendor = call[h].vendor
        /\ c.status = call[h].status /\ c.statement = call[h].statement
    BY <2>1 DEF Review
  <2>3. /\ call[h].status = "settled" /\ call[h].statement \in VendorStatement
        /\ Owner[call[h].statement] = call[h].vendor
        /\ request[call[h].id] \in Row /\ request[call[h].id].vendor = call[h].vendor
    BY <2>1 DEF CodInv, KnowsStatement, KnowsRequest, Settles, Reviewing
  <2>4. UNCHANGED <<request, statement>> /\ call' = [call EXCEPT ![h] = c]
        /\ ~LinkedTo(call[h].statement, call[h].id)
    BY <1>5 DEF ReadTaken
  <2> HIDE DEF c
  <2> QED BY <2>2, <2>3, <2>4, CodReads
<1>6. CASE updateCodSettlementRequestStatus(h)
  <2> DEFINE c == call[h]
             new == [request[c.id] EXCEPT !.status = c.status,
                       !.statement = IF c.statement = Nobody THEN @ ELSE c.statement]
  <2>1. c \in Review /\ c.at = "swap" /\ Live(c.id)
    BY <1>6 DEF updateCodSettlementRequestStatus, CodInv, CodTypeOK, AtRest, Review, StillLive
  <2>2. c.id \in RequestId /\ request[c.id] \in Row /\ request[c.id].vendor = c.vendor
    BY <2>1 DEF CodInv, KnowsRequest, Reviewing, Review
  <2>3. /\ request' = [request EXCEPT ![c.id] = new]
        /\ call' = [call EXCEPT ![h] = AtRest] /\ statement' = statement
    BY <1>6, <2>2 DEF updateCodSettlementRequestStatus, CodInv, CodTypeOK, Row
  <2>4. /\ new \in Row /\ new.status = c.status /\ new.vendor = c.vendor
        /\ new.statement = IF c.statement = Nobody THEN request[c.id].statement ELSE c.statement
    BY <2>1, <2>2 DEF Row, Review, LIVE_REQUEST_STATUSES
  <2> HIDE DEF new
  <2>5. /\ request'[c.id] = new /\ \A s \in RequestId \ {c.id} : request'[s] = request[s]
        /\ call'[h] = AtRest /\ \A g \in Handler \ {h} : call'[g] = call[g]
    BY <2>2, <2>3 DEF CodInv, CodTypeOK
  <2>6. c.status = "settled" =>
          /\ c.statement \in VendorStatement /\ Owner[c.statement] = c.vendor
          /\ new.statement = c.statement
          /\ \A other \in RequestId \ {c.id} :
               request[other].status = "settled" => request[other].statement # c.statement
    BY <2>1, <2>4, CodRequestsAssumption
       DEF CodInv, KnowsStatement, StillFree, Settles, Reviewing
  <2>7. CodTypeOK'
    BY <2>2, <2>3, <2>4 DEF CodInv, CodTypeOK
  <2>8. KnowsRequest'
    BY <2>2, <2>4, <2>5 DEF CodInv, KnowsRequest, CodTypeOK, Review, Reviewing, AtRest
  <2>9. KnowsStatement'
    BY <2>5 DEF CodInv, KnowsStatement, Reviewing, Settles, AtRest
  <2>10. OneLive'
    BY <2>1, <2>2, <2>4, <2>5 DEF CodInv, OneLive, Live
  <2>11. StillFree'
    <3> SUFFICES ASSUME NEW g \in Handler, (Settles(g) /\ call[g].at = "swap" /\ Live(call[g].id))',
                        NEW other \in RequestId \ {call'[g].id}, request'[other].status = "settled"
                 PROVE  request'[other].statement # call'[g].statement
      BY DEF StillFree
    <3>1. g # h /\ call'[g] = call[g] /\ Settles(g) /\ call[g].at = "swap"
      BY <2>5 DEF Settles, Reviewing, AtRest
    <3>2. call[g].id \in RequestId /\ request[call[g].id].vendor = call[g].vendor
          /\ Owner[call[g].statement] = call[g].vendor
      BY <3>1 DEF Settles, CodInv, KnowsRequest, KnowsStatement, CodTypeOK, Review, Reviewing, AtRest
    <3>3. Live(call[g].id)
      BY <2>1, <2>5, <3>1, <3>2 DEF Live
    <3>4. CASE other = c.id
      <4>1. c.status = "settled" /\ request'[other].statement = c.statement
        BY <2>4, <2>5, <2>6, <3>4
      <4>2. call[g].id # c.id
        BY <3>1, <3>4
      <4>3. request[call[g].id].vendor # c.vendor
        BY <2>1, <2>2, <3>2, <3>3, <4>2 DEF CodInv, OneLive
      <4> QED BY <2>6, <3>1, <3>2, <4>1, <4>3
    <3>5. CASE other # c.id
      BY <2>5, <3>1, <3>3, <3>5 DEF CodInv, StillFree
    <3> QED BY <3>4, <3>5
  <2>12. AnsweredOnce'
    BY <2>2, <2>4, <2>5, <2>6 DEF CodInv, AnsweredOnce
  <2> QED BY <2>7, <2>8, <2>9, <2>10, <2>11, <2>12 DEF CodInv
<1>7. CASE GiveUp(h)
  BY <1>7, CodReads DEF GiveUp
<1> QED BY <1>1, <1>2, <1>3, <1>4, <1>5, <1>6, <1>7 DEF Handle

LEMMA CodKeeps == CodInv /\ [CodNext]_codVars => CodInv'
<1> SUFFICES ASSUME CodInv, [CodNext]_codVars
             PROVE  CodInv'
  OBVIOUS
<1>1. ASSUME UNCHANGED <<request, call>>, statement' \in [VendorStatement -> {Nobody, "raised", "cancelled"}]
      PROVE  CodInv'
  BY <1>1 DEF CodInv, CodTypeOK, KnowsRequest, KnowsStatement, OneLive, StillFree, AnsweredOnce,
              Reviewing, Settles, Live
<1>2. ASSUME NEW s \in VendorStatement, createSettlement(s) \/ cancelSettlement(s)
      PROVE  CodInv'
  BY <1>1, <1>2 DEF createSettlement, cancelSettlement, CodInv, CodTypeOK
<1>3. CASE UNCHANGED codVars
  BY <1>1, <1>3 DEF codVars, CodInv, CodTypeOK
<1> QED BY <1>2, <1>3, CodHandles DEF CodNext

LEMMA CodInvariance == CodSpec => []CodInv
BY CodStarts, CodKeeps, PTL DEF CodSpec

(* A statement answers one request, of its own vendor, for any number of
   handlers that review without a lock (updateCodSettlementRequestStatus). *)
THEOREM AnswersOnce == CodSpec => []AnsweredOnce
<1>1. CodInv => AnsweredOnce
  BY DEF CodInv
<1> QED BY <1>1, CodInvariance, PTL

(* A closed request never changes again (the condition of the updateMany). *)
THEOREM ClosedStays == CodSpec => ClosedForGood
<1>1. ASSUME CodInv, [CodNext]_codVars, NEW r \in RequestId, request[r].status \in TERMINAL
      PROVE  request'[r] = request[r]
  <2>1. ASSUME NEW h \in Handler, NEW s \in RequestId, createCodSettlementRequest(h, s)
        PROVE  request'[r] = request[r]
    BY <1>1, <2>1 DEF createCodSettlementRequest, CodInv, CodTypeOK, TERMINAL, Nobody
  <2>2. ASSUME NEW h \in Handler, updateCodSettlementRequestStatus(h)
        PROVE  request'[r] = request[r]
    BY <1>1, <2>2 DEF updateCodSettlementRequestStatus, StillLive, Live, CodInv, CodTypeOK,
                      TERMINAL, LIVE_REQUEST_STATUSES
  <2>3. ASSUME ~\E h \in Handler : \/ updateCodSettlementRequestStatus(h)
                                   \/ \E s \in RequestId : createCodSettlementRequest(h, s)
        PROVE  request' = request
    BY <1>1, <2>3 DEF CodNext, Handle, ReadLiveRequest, ReadRequest, ReadStatement, ReadTaken, GiveUp,
                      createSettlement, cancelSettlement, codVars
  <2> QED BY <2>1, <2>2, <2>3
<1>2. CodInv /\ [CodNext]_codVars =>
        [\A r \in RequestId : request[r].status \in TERMINAL => request'[r] = request[r]]_codVars
  BY <1>1
<1> QED BY <1>2, CodInvariance, PTL DEF CodSpec, ClosedForGood

-----------------------------------------------------------------------------
(* Branch statements.  What a transaction has read of a statement's payments,
   and what it will write of them, is on payment lines already, up to its own
   credit; lines only grow, so that stays true of reads as old as they may be. *)
HoldingOps == {"create", "pay", "cancel", "update"}

BranchRow ==
  {r \in [status : {"none", "pending", "partially_paid", "settled", "cancelled"}, rate : Nat,
          items : SUBSET Order, net : Nat, paid : Nat] : r.paid <= r.net}
PaymentRow == [status : {"none", "pending", "verified", "rejected"},
               amount : Nat, link : StatementId \cup {None}]
Reads == UNION {[ids -> BranchRow] : ids \in SUBSET StatementId}

Job ==
  {Idle}
  \cup [op : HoldingOps, locked : SUBSET StatementId, id : StatementId, row : BranchRow, credit : Nat]
  \cup [op : {"submit"}, locked : {{}}, id : StatementId \cup {None}, credit : Amounts]
  \cup [op : {"file"}, locked : {{}}, id : StatementId, room : Int, credit : Amounts]
  \cup [op : {"review"}, locked : {{}}, id : PaymentId, rows : Reads, credit : Amounts]
  \cup [op : {"lock"}, locked : SUBSET StatementId, credit : Amounts]
  \cup [op : {"receive"}, locked : SUBSET StatementId, rows : Reads, credit : Amounts]

BranchTyped ==
  /\ stmt \in [StatementId -> BranchRow]
  /\ lines \in [StatementId -> [office : Nat, receipts : Nat]]
  /\ payment \in [PaymentId -> PaymentRow]
  /\ tx \in [Tx -> Job]
  /\ \A p \in PaymentId : payment[p].status = "pending" => payment[p].amount \in Amounts

Backed(job) ==
  /\ job.op \in HoldingOps => job.row.paid <= Received(job.id) + job.credit
  /\ job.op \in {"review", "receive"} => \A s \in DOMAIN job.rows : job.rows[s].paid <= Received(s)

(* A review has its payment to itself, and its receipt fits its statement. *)
Claimed(job) == job.op = "review" =>
  LET claim == payment[job.id] IN
  /\ claim.status = "pending" /\ claim.amount = job.credit
  /\ claim.link # None => /\ DOMAIN job.rows = {claim.link}
                          /\ job.credit <= Outstanding(job.rows, claim.link)

OneReviewer ==
  \A q1, q2 \in Tx : tx[q1].op = "review" /\ tx[q2].op = "review" /\ tx[q1].id = tx[q2].id => q1 = q2

BranchInv ==
  /\ BranchTyped /\ OneReviewer /\ PaidIsBacked /\ ReceiptsAccounted
  /\ \A q \in Tx : Backed(tx[q]) /\ Claimed(tx[q])

(* One transaction takes a step and writes; the rest keep what they have. *)
LEMMA BranchStep ==
  ASSUME BranchInv, NEW q \in Tx, NEW job \in Job, tx' = [tx EXCEPT ![q] = job],
         stmt' \in [StatementId -> BranchRow],
         lines' \in [StatementId -> [office : Nat, receipts : Nat]],
         payment' \in [PaymentId -> PaymentRow],
         \A p \in PaymentId : payment'[p].status = "pending" => payment'[p].amount \in Amounts,
         \A s \in StatementId : Received(s) <= Received(s)',
         PaidIsBacked', ReceiptsAccounted', Backed(job)', Claimed(job)',
         \A g \in Tx \ {q} : tx[g].op = "review" =>
           /\ payment'[tx[g].id] = payment[tx[g].id]
           /\ job.op = "review" => job.id # tx[g].id
  PROVE  BranchInv'
<1>1. tx'[q] = job /\ \A g \in Tx \ {q} : tx'[g] = tx[g]
  BY DEF BranchInv, BranchTyped
<1>2. BranchTyped'
  BY DEF BranchInv, BranchTyped
<1>3. OneReviewer'
  BY <1>1 DEF BranchInv, OneReviewer
<1>4. ASSUME NEW g \in Tx \ {q}
      PROVE  Backed(tx[g])' /\ Claimed(tx[g])'
  <2>1. tx'[g] = tx[g] /\ tx[g] \in Job /\ Backed(tx[g]) /\ Claimed(tx[g])
    BY <1>1 DEF BranchInv, BranchTyped
  <2>2. \A s \in StatementId : Received(s) \in Nat /\ Received(s)' \in Nat /\ Received(s) <= Received(s)'
    BY DEF BranchInv, BranchTyped, Received
  <2>3. Backed(tx[g])'
    <3>1. ASSUME tx[g].op \in HoldingOps
          PROVE  tx[g].row.paid <= Received(tx[g].id)' + tx[g].credit
      <4>1. tx[g].id \in StatementId /\ tx[g].row.paid \in Nat /\ tx[g].credit \in Nat
        BY <2>1, <3>1 DEF Job, Idle, HoldingOps, BranchRow
      <4> QED BY <2>1, <2>2, <3>1, <4>1 DEF Backed
    <3>2. ASSUME tx[g].op \in {"review", "receive"}, NEW s \in DOMAIN tx[g].rows
          PROVE  tx[g].rows[s].paid <= Received(s)'
      <4>1. s \in StatementId /\ tx[g].rows[s].paid \in Nat
        BY <2>1, <3>2 DEF Job, Idle, HoldingOps, Reads, BranchRow
      <4> QED BY <2>1, <2>2, <3>2, <4>1 DEF Backed
    <3> QED BY <2>1, <3>1, <3>2 DEF Backed
  <2>4. Claimed(tx[g])'
    BY <2>1 DEF Claimed, Outstanding
  <2> QED BY <2>3, <2>4
<1>5. Backed(tx[q])' /\ Claimed(tx[q])'
  BY <1>1
<1> QED BY <1>2, <1>3, <1>4, <1>5 DEF BranchInv

(* A transaction that only reads, and one that only ends. *)
LEMMA BranchReads ==
  ASSUME BranchInv, NEW q \in Tx, NEW job \in Job, tx' = [tx EXCEPT ![q] = job],
         UNCHANGED <<stmt, lines, payment>>, Backed(job), Claimed(job),
         \A g \in Tx \ {q} : tx[g].op = "review" /\ job.op = "review" => job.id # tx[g].id
  PROVE  BranchInv'
<1>1. \A s \in StatementId : Received(s)' = Received(s) /\ Received(s) \in Nat
  BY DEF Received, BranchInv, BranchTyped
<1>2. PaidIsBacked' /\ ReceiptsAccounted'
  BY DEF BranchInv, PaidIsBacked, ReceiptsAccounted, Received, AmountOf, Verified
<1>3. Backed(job)' /\ Claimed(job)'
  BY DEF Backed, Claimed, Received, Outstanding
<1>4. \A s \in StatementId : Received(s) <= Received(s)'
  BY <1>1
<1>5. /\ stmt' \in [StatementId -> BranchRow]
      /\ lines' \in [StatementId -> [office : Nat, receipts : Nat]]
      /\ payment' \in [PaymentId -> PaymentRow]
      /\ \A p \in PaymentId : payment'[p].status = "pending" => payment'[p].amount \in Amounts
  BY DEF BranchInv, BranchTyped
<1>6. \A g \in Tx \ {q} : tx[g].op = "review" =>
        /\ payment'[tx[g].id] = payment[tx[g].id]
        /\ job.op = "review" => job.id # tx[g].id
  OBVIOUS
<1> QED BY <1>2, <1>3, <1>4, <1>5, <1>6, BranchStep

LEMMA IdleIsJob == Idle \in Job /\ Idle.op = "idle" /\ Backed(Idle) /\ Claimed(Idle) /\ Backed(Idle)' /\ Claimed(Idle)'
BY DEF Job, Idle, Backed, Claimed, HoldingOps

(* Operations on the one statement they lock. *)
LEMMA NetOfIsNat == \A ids \in SUBSET Order, rate \in Nat : NetOf(ids, rate) \in Nat
<1> SUFFICES ASSUME NEW ids \in SUBSET Order, NEW rate \in Nat
             PROVE  NetOf(ids, rate) \in Nat
  OBVIOUS
<1> DEFINE f == [o \in Order |-> Monus(Cash[o], rate)]
<1>1. IsFiniteSet(ids) /\ \A o \in ids : f[o] \in Nat
  BY FS_Subset, BranchAssumption DEF Monus
<1> HIDE DEF f
<1>2. SumFunctionOnSet(f, ids) \in Nat
  BY <1>1, SumIsNat
<1> QED BY <1>2 DEF NetOf, f

LEMMA BranchOpens ==
  ASSUME BranchInv, NEW q \in Tx, NEW s \in StatementId, OnStatement(q, s)
  PROVE  BranchInv'
<1>1. stmt[s] \in BranchRow /\ Received(s) \in Nat /\ stmt[s].paid <= Received(s)
  BY DEF BranchInv, BranchTyped, PaidIsBacked, Received
<1>2. ASSUME NEW op \in HoldingOps, NEW row \in BranchRow, NEW amount \in Nat,
             Begin(q, Holding(op, s, row, amount)), row.paid <= Received(s) + amount
      PROVE  BranchInv'
  <2> DEFINE job == Holding(op, s, row, amount)
  <2>1. job \in Job /\ job.op = op /\ job.id = s /\ job.row = row /\ job.credit = amount
    BY DEF Job, Holding
  <2>2. tx' = [tx EXCEPT ![q] = job] /\ UNCHANGED <<stmt, lines, payment>>
    BY <1>2 DEF Begin
  <2> HIDE DEF job
  <2>3. Backed(job) /\ Claimed(job) /\ job.op # "review"
    BY <1>2, <2>1 DEF Backed, Claimed, HoldingOps
  <2> QED BY <2>1, <2>2, <2>3, BranchReads
<1>3. ASSUME NEW ids \in (SUBSET Order) \ {{}}, NEW rate \in Rates, createBranchSettlement(q, s, ids, rate)
      PROVE  BranchInv'
  <2> DEFINE row == [status |-> "pending", rate |-> rate, items |-> ids, net |-> NetOf(ids, rate), paid |-> 0]
  <2>1. rate \in Nat /\ NetOf(ids, rate) \in Nat
    BY NetOfIsNat, BranchAssumption
  <2>2. row \in BranchRow /\ row.paid = 0
    BY <2>1 DEF BranchRow
  <2>3. Begin(q, Holding("create", s, row, 0))
    BY <1>3 DEF createBranchSettlement
  <2> HIDE DEF row
  <2> QED BY <1>1, <1>2, <2>2, <2>3 DEF HoldingOps
<1>4. ASSUME NEW ids \in (SUBSET Order) \ {{}}, updateBranchSettlement(q, s, ids)
      PROVE  BranchInv'
  <2> DEFINE row == [stmt[s] EXCEPT !.items = ids, !.net = NetOf(ids, stmt[s].rate)]
  <2>1. NetOf(ids, stmt[s].rate) \in Nat /\ stmt[s].paid = 0
    BY <1>1, <1>4, NetOfIsNat DEF BranchRow, updateBranchSettlement, Untouched
  <2>2. row \in BranchRow /\ row.paid = 0
    <3>1. stmt[s] \in [status : {"none", "pending", "partially_paid", "settled", "cancelled"},
                       rate : Nat, items : SUBSET Order, net : Nat, paid : Nat]
      BY <1>1 DEF BranchRow
    <3>2. PICK net \in Nat : net = NetOf(ids, stmt[s].rate)
      BY <2>1
    <3>3. row = [stmt[s] EXCEPT !.items = ids, !.net = net]
      BY <3>2
    <3>4. /\ row \in [status : {"none", "pending", "partially_paid", "settled", "cancelled"},
                      rate : Nat, items : SUBSET Order, net : Nat, paid : Nat]
          /\ row.paid = 0 /\ row.net = net
      <4> HIDE DEF row
      <4> QED BY <2>1, <3>1, <3>3
    <3> HIDE DEF row
    <3> QED BY <3>4 DEF BranchRow
  <2>3. Begin(q, Holding("update", s, row, 0))
    BY <1>4 DEF updateBranchSettlement
  <2> HIDE DEF row
  <2> QED BY <1>1, <1>2, <2>2, <2>3 DEF HoldingOps
<1>5. ASSUME NEW amount \in Amounts \cup {0}, payBranchSettlement(q, s, amount)
      PROVE  BranchInv'
  <2> DEFINE paid == stmt[s].paid + amount
             row  == [stmt[s] EXCEPT !.paid = paid, !.status = Progress(stmt[s].net, paid)]
  <2>1. amount \in Nat /\ paid \in Nat /\ paid <= stmt[s].net
    BY <1>1, <1>5, BranchAssumption DEF BranchRow, payBranchSettlement
  <2>2. row \in BranchRow /\ row.paid = paid
    BY <1>1, <2>1 DEF BranchRow, Progress
  <2>3. Begin(q, Holding("pay", s, row, amount))
    BY <1>5 DEF payBranchSettlement
  <2>4. row.paid <= Received(s) + amount
    BY <1>1, <2>1, <2>2 DEF BranchRow
  <2> HIDE DEF row
  <2> QED BY <1>2, <2>1, <2>2, <2>3, <2>4 DEF HoldingOps
<1>6. ASSUME cancelBranchSettlement(q, s)
      PROVE  BranchInv'
  <2> DEFINE row == [stmt[s] EXCEPT !.status = "cancelled", !.items = {}]
  <2>1. row \in BranchRow /\ row.paid = stmt[s].paid
    BY <1>1 DEF BranchRow
  <2>2. Begin(q, Holding("cancel", s, row, 0))
    BY <1>6 DEF cancelBranchSettlement
  <2>3. row.paid <= Received(s) + 0
    BY <1>1, <2>1 DEF BranchRow
  <2> HIDE DEF row
  <2> QED BY <1>2, <2>1, <2>2, <2>3 DEF HoldingOps
<1> QED BY <1>3, <1>4, <1>5, <1>6 DEF OnStatement

LEMMA BranchCommits ==
  ASSUME BranchInv, NEW q \in Tx, CommitHolding(q)
  PROVE  BranchInv'
<1> DEFINE job == tx[q]
<1>1. /\ job.id \in StatementId /\ job.row \in BranchRow /\ job.credit \in Nat
      /\ job.row.paid <= Received(job.id) + job.credit
  BY DEF CommitHolding, BranchInv, BranchTyped, Job, Idle, HoldingOps, Backed
<1>2. /\ stmt' = [stmt EXCEPT ![job.id] = job.row]
      /\ lines' = [lines EXCEPT ![job.id].office = @ + job.credit]
      /\ tx' = [tx EXCEPT ![q] = Idle] /\ payment' = payment
  BY DEF CommitHolding, End
<1>3. /\ stmt \in [StatementId -> BranchRow] /\ payment \in [PaymentId -> PaymentRow]
      /\ lines \in [StatementId -> [office : Nat, receipts : Nat]]
  BY DEF BranchInv, BranchTyped
<1> HIDE DEF job
<1>4. /\ stmt' \in [StatementId -> BranchRow]
      /\ lines' \in [StatementId -> [office : Nat, receipts : Nat]]
  BY <1>1, <1>2, <1>3
<1>5. \A s \in StatementId :
        /\ lines'[s].receipts = lines[s].receipts
        /\ s # job.id => lines'[s] = lines[s] /\ stmt'[s] = stmt[s]
        /\ s = job.id => lines'[s].office = lines[s].office + job.credit /\ stmt'[s] = job.row
  BY <1>1, <1>2, <1>3
<1>6. \A s \in StatementId : Received(s) <= Received(s)' /\ Received(s) \in Nat
        /\ (s = job.id => Received(s)' = Received(s) + job.credit)
  BY <1>1, <1>3, <1>5 DEF Received
<1>7. PaidIsBacked'
  BY <1>1, <1>5, <1>6 DEF BranchInv, PaidIsBacked, Received
<1>8. ReceiptsAccounted'
  <2>1. [s \in StatementId |-> lines[s].receipts]' = [s \in StatementId |-> lines[s].receipts]
    BY <1>5
  <2> QED BY <1>2, <2>1 DEF BranchInv, ReceiptsAccounted, AmountOf, Verified
<1>9. payment' \in [PaymentId -> PaymentRow]
      /\ \A p \in PaymentId : payment'[p].status = "pending" => payment'[p].amount \in Amounts
  BY <1>2 DEF BranchInv, BranchTyped
<1> QED BY <1>2, <1>4, <1>6, <1>7, <1>8, <1>9, IdleIsJob, BranchStep

(* What a credit gives to each statement read is within what that one owes. *)
LEMMA OwedIsInt == \A rows \in Reads : Owed(rows) \in Int
<1> SUFFICES ASSUME NEW rows \in Reads PROVE Owed(rows) \in Int
  OBVIOUS
<1> DEFINE f == [s \in DOMAIN rows |-> Outstanding(rows, s)]
<1>1. DOMAIN rows \in SUBSET StatementId /\ \A s \in DOMAIN rows : rows[s] \in BranchRow
  BY DEF Reads
<1>2. IsFiniteSet(DOMAIN rows) /\ \A s \in DOMAIN rows : f[s] \in Int
  BY <1>1, FS_Subset, BranchAssumption DEF Outstanding, BranchRow
<1> HIDE DEF f
<1>3. SumFunctionOnSet(f, DOMAIN rows) \in Int
  BY <1>2, SumIsInt
<1> QED BY <1>3 DEF Owed, f

LEMMA TakesWithin ==
  ASSUME NEW rows \in Reads, NEW credit \in Nat
  PROVE  LET take == Absorbed(rows, credit) IN
         /\ DOMAIN take = DOMAIN rows /\ DOMAIN rows \in SUBSET StatementId
         /\ IsFiniteSet(DOMAIN rows)
         /\ \A s \in DOMAIN rows : /\ rows[s] \in BranchRow /\ take[s] \in Nat
                                   /\ rows[s].paid + take[s] <= rows[s].net
<1>1. DOMAIN rows \in SUBSET StatementId /\ \A s \in DOMAIN rows : rows[s] \in BranchRow
  BY DEF Reads
<1>2. IsFiniteSet(DOMAIN rows)
  BY <1>1, FS_Subset, BranchAssumption
<1>3. ASSUME NEW s \in DOMAIN rows
      PROVE  /\ Absorbed(rows, credit)[s] \in Nat
             /\ rows[s].paid + Absorbed(rows, credit)[s] <= rows[s].net
  <2>1. Earlier(rows, s) \in Reads
    <3> DEFINE ids == {t \in DOMAIN rows : t < s}
    <3>1. ids \in SUBSET StatementId /\ Earlier(rows, s) \in [ids -> BranchRow]
      BY <1>1 DEF Earlier
    <3> HIDE DEF ids
    <3> QED BY <3>1 DEF Reads
  <2>2. PICK m \in Int : m = Owed(Earlier(rows, s))
    BY <2>1, OwedIsInt
  <2>3. Monus(credit, m) \in Nat
    BY DEF Monus
  <2>4. rows[s].net \in Nat /\ rows[s].paid \in Nat /\ rows[s].paid <= rows[s].net
    BY <1>1 DEF BranchRow
  <2>5. Absorbed(rows, credit)[s] = Least(rows[s].net - rows[s].paid, Monus(credit, m))
    BY <2>2 DEF Absorbed, Outstanding
  <2> QED BY <2>3, <2>4, <2>5 DEF Least
<1>4. DOMAIN Absorbed(rows, credit) = DOMAIN rows
  BY DEF Absorbed
<1> QED BY <1>1, <1>2, <1>3, <1>4

(* A receipt that fits its statement goes there whole. *)
LEMMA TakesAll ==
  ASSUME NEW rows \in Reads, NEW credit \in Nat, NEW s \in StatementId, DOMAIN rows = {s},
         credit <= Outstanding(rows, s)
  PROVE  /\ Absorbed(rows, credit)[s] = credit
         /\ SumFunctionOnSet(Absorbed(rows, credit), DOMAIN rows) = credit
<1>1. s \in Int /\ rows[s] \in BranchRow /\ IsFiniteSet(DOMAIN rows)
  BY TakesWithin, BranchAssumption DEF Reads
<1>2. DOMAIN Earlier(rows, s) = {}
  BY <1>1 DEF Earlier
<1>3. Owed(Earlier(rows, s)) = 0
  BY <1>2, SumOfNone DEF Owed
<1>4. Absorbed(rows, credit)[s] = credit
  BY <1>1, <1>3 DEF Absorbed, Least, Monus, Outstanding, BranchRow
<1>5. SumFunctionOnSet(Absorbed(rows, credit), {s})
        = Absorbed(rows, credit)[s] + SumFunctionOnSet(Absorbed(rows, credit), {s} \ {s})
  BY <1>1, <1>4, SumTakeOut
<1>6. {s} \ {s} = {}
  OBVIOUS
<1>7. SumFunctionOnSet(Absorbed(rows, credit), {s} \ {s}) = 0
  BY <1>6, SumOfNone
<1> QED BY <1>4, <1>5, <1>7

(* What the payment lines of receipts come to. *)
FromReceipts == SumFunctionOnSet([s \in StatementId |-> lines[s].receipts], StatementId)

LEMMA Pays ==
  ASSUME BranchInv, NEW q \in Tx, NEW rows \in Reads, NEW credit \in Nat,
         \A s \in DOMAIN rows : rows[s].paid <= Received(s),
         NEW origin \in {"office", "receipts"}, Pay(q, rows, Absorbed(rows, credit), origin)
  PROVE  /\ stmt' \in [StatementId -> BranchRow]
         /\ lines' \in [StatementId -> [office : Nat, receipts : Nat]]
         /\ \A s \in StatementId : Received(s) <= Received(s)'
         /\ PaidIsBacked'
         /\ origin = "office" => FromReceipts' = FromReceipts
         /\ origin = "receipts" =>
              FromReceipts' = FromReceipts
                + SumFunctionOnSet(Absorbed(rows, credit), DOMAIN rows)
<1> DEFINE take == Absorbed(rows, credit)
           given == [s \in StatementId |-> IF s \in DOMAIN rows THEN take[s] ELSE 0]
           before == [s \in StatementId |-> lines[s].receipts]
           after  == [s \in StatementId |-> lines'[s].receipts]
<1>1. /\ DOMAIN take = DOMAIN rows /\ DOMAIN rows \in SUBSET StatementId
      /\ IsFiniteSet(DOMAIN rows)
      /\ \A s \in DOMAIN rows : /\ rows[s] \in BranchRow /\ take[s] \in Nat
                                /\ rows[s].paid + take[s] <= rows[s].net
  BY TakesWithin
<1>2. /\ stmt \in [StatementId -> BranchRow]
      /\ lines \in [StatementId -> [office : Nat, receipts : Nat]]
      /\ \A s \in StatementId : Received(s) \in Nat /\ stmt[s].paid <= Received(s)
  BY DEF BranchInv, BranchTyped, PaidIsBacked, Received
<1>3. Pay(q, rows, take, origin)
  OBVIOUS
<1> HIDE DEF take
<1>4. Touched(take) = {s \in DOMAIN rows : take[s] > 0}
  BY <1>1 DEF Touched
<1>5. ASSUME NEW s \in StatementId, s \in Touched(take)
      PROVE  /\ stmt'[s] \in BranchRow /\ stmt'[s].paid = rows[s].paid + take[s]
             /\ lines'[s] = [lines[s] EXCEPT ![origin] = @ + take[s]]
  <2>1. /\ s \in DOMAIN rows /\ rows[s].paid \in Nat /\ take[s] \in Nat /\ rows[s].net \in Nat
        /\ stmt[s] \in BranchRow
    BY <1>1, <1>2, <1>4, <1>5 DEF BranchRow
  <2>2. rows[s].paid + take[s] <= stmt[s].net
    BY <1>3, <1>5 DEF Pay
  <2>3. stmt'[s] = [stmt[s] EXCEPT !.paid = rows[s].paid + take[s],
                      !.status = Progress(rows[s].net, rows[s].paid + take[s])]
    BY <1>3, <1>5 DEF Pay
  <2>4. Progress(rows[s].net, rows[s].paid + take[s]) \in {"settled", "partially_paid"}
    BY DEF Progress
  <2>5. stmt'[s] \in BranchRow /\ stmt'[s].paid = rows[s].paid + take[s]
    <3>1. PICK paid \in Nat, status \in {"settled", "partially_paid"} :
            /\ paid = rows[s].paid + take[s]
            /\ status = Progress(rows[s].net, rows[s].paid + take[s])
      BY <2>1, <2>4
    <3>2. stmt'[s] = [stmt[s] EXCEPT !.paid = paid, !.status = status] /\ paid <= stmt[s].net
      BY <2>2, <2>3, <3>1
    <3>3. stmt'[s] \in BranchRow /\ stmt'[s].paid = paid
      BY <2>1, <3>2 DEF BranchRow
    <3> QED BY <3>1, <3>3
  <2> QED BY <1>3, <1>5, <2>5 DEF Pay, Recorded
<1>6. ASSUME NEW s \in StatementId, s \notin Touched(take)
      PROVE  stmt'[s] = stmt[s] /\ lines'[s] = lines[s]
  BY <1>3, <1>6 DEF Pay
<1>7. stmt' \in [StatementId -> BranchRow]
  <2>1. stmt' = [s \in StatementId |-> stmt'[s]]
    BY <1>3 DEF Pay
  <2>2. \A s \in StatementId : stmt'[s] \in BranchRow
    BY <1>2, <1>5, <1>6
  <2> QED BY <2>1, <2>2
<1>8. ASSUME NEW s \in StatementId
      PROVE  /\ lines'[s] \in [office : Nat, receipts : Nat]
             /\ origin = "office" => lines'[s].receipts = lines[s].receipts
             /\ origin = "receipts" => lines'[s].receipts = lines[s].receipts + given[s]
             /\ Received(s)' = Received(s) + given[s] /\ given[s] \in Nat
  <2>1. lines[s] \in [office : Nat, receipts : Nat]
    BY <1>2
  <2>2. CASE s \in Touched(take)
    <3>1. given[s] = take[s] /\ take[s] \in Nat
      BY <1>1, <1>4, <2>2
    <3>2. lines'[s] = [lines[s] EXCEPT ![origin] = @ + take[s]]
      BY <1>5, <2>2
    <3>3. CASE origin = "office"
      <4>1. lines'[s] = [lines[s] EXCEPT !.office = @ + take[s]]
        BY <3>2, <3>3
      <4> QED BY <2>1, <3>1, <3>3, <4>1 DEF Received
    <3>4. CASE origin = "receipts"
      <4>1. lines'[s] = [lines[s] EXCEPT !.receipts = @ + take[s]]
        BY <3>2, <3>4
      <4> QED BY <2>1, <3>1, <3>4, <4>1 DEF Received
    <3> QED BY <3>3, <3>4
  <2>3. CASE s \notin Touched(take)
    <3>1. given[s] = 0
      BY <1>1, <1>4, <2>3
    <3> QED BY <1>6, <2>1, <2>3, <3>1 DEF Received
  <2> QED BY <2>2, <2>3
<1>9. lines' \in [StatementId -> [office : Nat, receipts : Nat]]
  <2>1. lines' = [s \in StatementId |-> lines'[s]]
    BY <1>3 DEF Pay
  <2> QED BY <1>8, <2>1
<1>10. PaidIsBacked'
  <2> SUFFICES ASSUME NEW s \in StatementId PROVE stmt'[s].paid <= Received(s)'
    BY DEF PaidIsBacked, Received
  <2>1. CASE s \in Touched(take)
    <3>1. s \in DOMAIN rows /\ given[s] = take[s] /\ rows[s].paid \in Nat /\ take[s] \in Nat
      BY <1>1, <1>4, <2>1 DEF BranchRow
    <3>2. PICK m \in Nat : m = Received(s) /\ Received(s)' = m + take[s] /\ rows[s].paid <= m
      BY <1>2, <1>8, <3>1
    <3>3. stmt'[s].paid = rows[s].paid + take[s]
      BY <1>5, <2>1
    <3>4. rows[s].paid + take[s] <= m + take[s]
      BY <3>1, <3>2
    <3> QED BY <3>2, <3>3, <3>4
  <2>2. CASE s \notin Touched(take)
    <3>1. stmt[s].paid \in Nat
      BY <1>2 DEF BranchRow
    <3> QED BY <1>2, <1>6, <1>8, <2>2, <3>1
  <2> QED BY <2>1, <2>2
<1>11. origin = "office" => FromReceipts' = FromReceipts
  <2>1. origin = "office" => after = before
    BY <1>8
  <2> QED BY <2>1 DEF FromReceipts
<1>12. ASSUME origin = "receipts"
       PROVE  FromReceipts' = FromReceipts + SumFunctionOnSet(take, DOMAIN rows)
  <2>1. \A s \in StatementId : /\ before[s] \in Int /\ given[s] \in Int
                               /\ after[s] = before[s] + given[s]
    BY <1>2, <1>8, <1>12
  <2>2. \A s \in StatementId \ DOMAIN rows : given[s] = 0
    OBVIOUS
  <2>3. \A s \in DOMAIN rows : given[s] = take[s]
    BY <1>1
  <2>4. FromReceipts' = SumFunctionOnSet(after, StatementId)
        /\ FromReceipts = SumFunctionOnSet(before, StatementId)
    BY DEF FromReceipts
  <2> HIDE DEF before, after, given
  <2>5. SumFunctionOnSet(after, StatementId)
          = SumFunctionOnSet(before, StatementId) + SumFunctionOnSet(given, StatementId)
    BY <2>1, SumTogether, BranchAssumption
  <2>6. SumFunctionOnSet(given, StatementId) = SumFunctionOnSet(given, DOMAIN rows)
    BY <1>1, <2>1, <2>2, SumOutside, BranchAssumption
  <2>7. SumFunctionOnSet(given, DOMAIN rows) = SumFunctionOnSet(take, DOMAIN rows)
    BY <1>1, <2>3, SumSame
  <2> QED BY <2>4, <2>5, <2>6, <2>7
<1>13. \A s \in StatementId : Received(s) <= Received(s)'
  BY <1>2, <1>8
<1> QED BY <1>7, <1>9, <1>10, <1>11, <1>12, <1>13 DEF take

(* The verified payments that point at a statement, and what they come to. *)
Linked   == {p \in Verified : payment[p].link # None}
Credited == AmountOf(Linked)

LEMMA AccountedIff ==
  /\ ReceiptsAccounted <=> Credited = FromReceipts
  /\ ReceiptsAccounted' <=> Credited' = FromReceipts'
BY DEF ReceiptsAccounted, Credited, Linked, FromReceipts

LEMMA CreditGrows ==
  ASSUME payment \in [PaymentId -> PaymentRow], payment' \in [PaymentId -> PaymentRow],
         \A p \in Linked : payment'[p].amount = payment[p].amount
  PROVE  /\ Credited \in Nat
         /\ Linked' = Linked => Credited' = Credited
         /\ \A p \in PaymentId \ Linked :
              Linked' = Linked \cup {p} => Credited' = Credited + payment'[p].amount
<1> DEFINE f == [p \in PaymentId |-> payment[p].amount]
           g == [p \in PaymentId |-> payment'[p].amount]
<1>1. Linked \in SUBSET PaymentId /\ IsFiniteSet(Linked)
  BY FS_Subset, BranchAssumption DEF Linked, Verified
<1>2. \A p \in PaymentId : f[p] \in Nat /\ g[p] \in Nat
  BY DEF PaymentRow
<1>3. \A p \in Linked : g[p] = f[p]
  BY <1>1
<1>4. Credited = SumFunctionOnSet(f, Linked) /\ Credited' = SumFunctionOnSet(g, Linked')
  BY DEF Credited, AmountOf
<1>5. \A p \in PaymentId : g[p] = payment'[p].amount
  OBVIOUS
<1> HIDE DEF f, g
<1>6. SumFunctionOnSet(g, Linked) = SumFunctionOnSet(f, Linked) /\ SumFunctionOnSet(f, Linked) \in Nat
  BY <1>1, <1>2, <1>3, SumSame, SumIsNat
<1>7. ASSUME NEW p \in PaymentId \ Linked
      PROVE  SumFunctionOnSet(g, Linked \cup {p}) = SumFunctionOnSet(g, Linked) + g[p]
  <2>1. \A r \in Linked \cup {p} : g[r] \in Int
    BY <1>1, <1>2
  <2> QED BY <1>1, <2>1, SumAdd
<1> QED BY <1>4, <1>5, <1>6, <1>7

LEMMA BranchBegins ==
  ASSUME BranchInv, NEW q \in Tx,
         \/ \E p \in PaymentId : BeginReview(q, p)
         \/ \E amount \in Amounts :
              \/ BeginReceive(q, amount)
              \/ \E s \in StatementId \cup {None} : BeginSubmit(q, s, amount)
         \/ ListOpen(q) \/ CheckAwaiting(q)
  PROVE  BranchInv'
<1>1. /\ stmt \in [StatementId -> BranchRow] /\ payment \in [PaymentId -> PaymentRow]
      /\ \A s \in StatementId : stmt[s].paid <= Received(s)
      /\ \A p \in PaymentId : payment[p].status = "pending" => payment[p].amount \in Amounts
  BY DEF BranchInv, BranchTyped, PaidIsBacked
<1>2. ASSUME NEW ids \in SUBSET StatementId
      PROVE  /\ Snapshot(ids) \in Reads /\ DOMAIN Snapshot(ids) = ids
             /\ \A s \in ids : Snapshot(ids)[s].paid <= Received(s)
  <2>1. Snapshot(ids) \in [ids -> BranchRow]
    BY <1>1 DEF Snapshot
  <2> QED BY <1>1, <2>1 DEF Snapshot, Reads
<1>3. ASSUME NEW p \in PaymentId, BeginReview(q, p)
      PROVE  BranchInv'
  <2> DEFINE s    == payment[p].link
             ids  == IF s = None THEN {t \in StatementId : Open(t)} ELSE {s}
             job  == [op |-> "review", locked |-> {}, id |-> p, rows |-> Snapshot(ids),
                      credit |-> payment[p].amount]
  <2>1. /\ payment[p].status = "pending" /\ tx' = [tx EXCEPT ![q] = job]
        /\ UNCHANGED <<stmt, lines, payment>>
        /\ \A g \in Tx \ {q} : ~(tx[g].op = "review" /\ tx[g].id = p)
        /\ s # None => payment[p].amount <= Outstanding(stmt, s)
    BY <1>3 DEF BeginReview, Begin, ClaimFree
  <2>2. ids \in SUBSET StatementId /\ payment[p].amount \in Amounts
    BY <1>1, <2>1 DEF PaymentRow
  <2>3. /\ job.op = "review" /\ job.id = p /\ job.rows = Snapshot(ids) /\ job.credit = payment[p].amount
        /\ Snapshot(ids) \in Reads
    BY <1>2, <2>2
  <2>4. job \in Job
    BY <2>2, <2>3 DEF Job
  <2>5. s # None => DOMAIN job.rows = {s} /\ Outstanding(job.rows, s) = Outstanding(stmt, s)
    BY <1>2, <2>2, <2>3 DEF Outstanding, Snapshot
  <2> HIDE DEF job, ids
  <2>6. Backed(job)
    BY <1>2, <2>2, <2>3 DEF Backed, HoldingOps
  <2>7. Claimed(job)
    BY <2>1, <2>3, <2>5 DEF Claimed
  <2> QED BY <2>1, <2>3, <2>4, <2>6, <2>7, BranchReads
<1>4. ASSUME NEW amount \in Amounts, BeginReceive(q, amount)
      PROVE  BranchInv'
  <2> DEFINE ids == {s \in StatementId : Open(s)}
             job == [op |-> "lock", locked |-> ids, credit |-> amount]
  <2>1. tx' = [tx EXCEPT ![q] = job] /\ UNCHANGED <<stmt, lines, payment>>
    BY <1>4 DEF BeginReceive, Begin
  <2>2. job \in Job /\ job.op = "lock"
    BY DEF Job
  <2> HIDE DEF job
  <2>3. Backed(job) /\ Claimed(job)
    BY <2>2 DEF Backed, Claimed, HoldingOps
  <2> QED BY <2>1, <2>2, <2>3, BranchReads
<1>5. ASSUME NEW amount \in Amounts, NEW s \in StatementId \cup {None}, BeginSubmit(q, s, amount)
      PROVE  BranchInv'
  <2>1. CASE s = None
    <3> DEFINE job == [op |-> "submit", locked |-> {}, id |-> None, credit |-> amount]
    <3>1. tx' = [tx EXCEPT ![q] = job] /\ UNCHANGED <<stmt, lines, payment>>
      BY <1>5, <2>1 DEF BeginSubmit, Begin
    <3>2. job \in Job /\ job.op = "submit"
      BY DEF Job
    <3> HIDE DEF job
    <3>3. Backed(job) /\ Claimed(job)
      BY <3>2 DEF Backed, Claimed, HoldingOps
    <3> QED BY <3>1, <3>2, <3>3, BranchReads
  <2>2. CASE s # None
    <3> DEFINE job == [op |-> "file", locked |-> {}, id |-> s, room |-> Outstanding(stmt, s),
                       credit |-> amount]
    <3>1. tx' = [tx EXCEPT ![q] = job] /\ UNCHANGED <<stmt, lines, payment>>
      BY <1>5, <2>2 DEF BeginSubmit, Begin
    <3>2. s \in StatementId /\ Outstanding(stmt, s) \in Int
      BY <1>1, <2>2 DEF Outstanding, BranchRow
    <3>3. job \in Job /\ job.op = "file"
      BY <3>2 DEF Job
    <3> HIDE DEF job
    <3>4. Backed(job) /\ Claimed(job)
      BY <3>3 DEF Backed, Claimed, HoldingOps
    <3> QED BY <3>1, <3>3, <3>4, BranchReads
  <2> QED BY <2>1, <2>2
<1>6. ASSUME ListOpen(q)
      PROVE  BranchInv'
  <2> DEFINE ids == {s \in StatementId : Open(s)}
             job == [op |-> "receive", locked |-> tx[q].locked, rows |-> Snapshot(ids),
                     credit |-> tx[q].credit]
  <2>1. /\ tx[q].op = "lock" /\ tx' = [tx EXCEPT ![q] = job] /\ UNCHANGED <<stmt, lines, payment>>
    BY <1>6 DEF ListOpen
  <2>2. tx[q].locked \in SUBSET StatementId /\ tx[q].credit \in Amounts
    BY <2>1 DEF BranchInv, BranchTyped, Job, Idle, HoldingOps
  <2>3. ids \in SUBSET StatementId
    OBVIOUS
  <2>4. job.op = "receive" /\ job.rows = Snapshot(ids) /\ Snapshot(ids) \in Reads
    BY <1>2, <2>3
  <2>5. job \in Job
    BY <2>2, <2>4 DEF Job
  <2> HIDE DEF job, ids
  <2>6. Backed(job) /\ Claimed(job)
    BY <1>2, <2>3, <2>4 DEF Backed, Claimed, HoldingOps
  <2> QED BY <2>1, <2>4, <2>5, <2>6, BranchReads
<1>7. ASSUME CheckAwaiting(q)
      PROVE  BranchInv'
  <2> DEFINE job == [op |-> "submit", locked |-> {}, id |-> tx[q].id, credit |-> tx[q].credit]
  <2>1. /\ tx[q].op = "file" /\ tx' = [tx EXCEPT ![q] = job] /\ UNCHANGED <<stmt, lines, payment>>
    BY <1>7 DEF CheckAwaiting
  <2>2. tx[q].id \in StatementId /\ tx[q].credit \in Amounts
    BY <2>1 DEF BranchInv, BranchTyped, Job, Idle, HoldingOps
  <2>3. job \in Job /\ job.op = "submit"
    BY <2>2 DEF Job
  <2> HIDE DEF job
  <2>4. Backed(job) /\ Claimed(job)
    BY <2>3 DEF Backed, Claimed, HoldingOps
  <2> QED BY <2>1, <2>3, <2>4, BranchReads
<1> QED BY <1>3, <1>4, <1>5, <1>6, <1>7

(* Payments filed and rejected: none of them is verified. *)
LEMMA BranchFiles ==
  ASSUME BranchInv, NEW q \in Tx, NEW p \in PaymentId, CommitSubmit(q, p) \/ reject(q, p)
  PROVE  BranchInv'
<1>1. /\ stmt \in [StatementId -> BranchRow] /\ payment \in [PaymentId -> PaymentRow]
      /\ lines \in [StatementId -> [office : Nat, receipts : Nat]]
      /\ \A r \in PaymentId : payment[r].status = "pending" => payment[r].amount \in Amounts
  BY DEF BranchInv, BranchTyped
<1>2. PICK row \in PaymentRow :
        /\ payment' = [payment EXCEPT ![p] = row] /\ UNCHANGED <<stmt, lines>>
        /\ tx' = [tx EXCEPT ![q] = Idle]
        /\ payment[p].status # "verified" /\ row.status # "verified"
        /\ row.status = "pending" => row.amount \in Amounts
        /\ \A g \in Tx \ {q} : tx[g].op = "review" => tx[g].id # p
  <2>1. CASE CommitSubmit(q, p)
    <3> DEFINE row == [status |-> "pending", amount |-> tx[q].credit, link |-> tx[q].id]
    <3>1. tx[q].op = "submit" /\ tx[q].credit \in Amounts /\ tx[q].id \in StatementId \cup {None}
      BY <2>1 DEF CommitSubmit, BranchInv, BranchTyped, Job, Idle, HoldingOps
    <3>2. row \in PaymentRow
      BY <3>1, BranchAssumption DEF PaymentRow
    <3>3. \A g \in Tx \ {q} : tx[g].op = "review" => tx[g].id # p
      BY <2>1 DEF CommitSubmit, BranchInv, Claimed
    <3> QED BY <2>1, <3>1, <3>2, <3>3 DEF CommitSubmit, End
  <2>2. CASE reject(q, p)
    <3> DEFINE row == [payment[p] EXCEPT !.status = "rejected"]
    <3>1. row \in PaymentRow /\ row.status = "rejected"
      BY <1>1 DEF PaymentRow
    <3>2. tx' = [tx EXCEPT ![q] = Idle]
      BY <2>2 DEF reject, BranchInv, BranchTyped
    <3> QED BY <1>1, <2>2, <3>1, <3>2 DEF reject, ClaimFree
  <2> QED BY <2>1, <2>2
<1>3. payment'[p] = row /\ \A r \in PaymentId \ {p} : payment'[r] = payment[r]
  BY <1>1, <1>2
<1>4. payment' \in [PaymentId -> PaymentRow]
      /\ \A r \in PaymentId : payment'[r].status = "pending" => payment'[r].amount \in Amounts
  BY <1>1, <1>2, <1>3
<1>5. Linked' = Linked /\ \A r \in Linked : payment'[r].amount = payment[r].amount
  BY <1>2, <1>3 DEF Linked, Verified
<1>6. ReceiptsAccounted'
  <2>1. Credited' = Credited
    BY <1>1, <1>4, <1>5, CreditGrows
  <2>2. FromReceipts' = FromReceipts
    BY <1>2 DEF FromReceipts
  <2> QED BY <2>1, <2>2, AccountedIff DEF BranchInv
<1>7. /\ PaidIsBacked' /\ \A s \in StatementId : Received(s) <= Received(s)'
      /\ stmt' \in [StatementId -> BranchRow]
      /\ lines' \in [StatementId -> [office : Nat, receipts : Nat]]
  BY <1>1, <1>2 DEF BranchInv, PaidIsBacked, Received
<1>8. \A g \in Tx \ {q} : tx[g].op = "review" => payment'[tx[g].id] = payment[tx[g].id]
  <2> SUFFICES ASSUME NEW g \in Tx \ {q}, tx[g].op = "review"
               PROVE  payment'[tx[g].id] = payment[tx[g].id]
    OBVIOUS
  <2>1. tx[g].id \in PaymentId
    BY DEF BranchInv, BranchTyped, Job, Idle, HoldingOps
  <2> QED BY <1>2, <1>3, <2>1
<1> QED BY <1>2, <1>4, <1>6, <1>7, <1>8, IdleIsJob, BranchStep

LEMMA BranchReceives ==
  ASSUME BranchInv, NEW q \in Tx, CommitReceive(q)
  PROVE  BranchInv'
<1>1. tx[q].rows \in Reads /\ tx[q].credit \in Nat /\ \A s \in DOMAIN tx[q].rows : tx[q].rows[s].paid <= Received(s)
  <2>1. tx[q] \in Job /\ tx[q].op = "receive"
    BY DEF CommitReceive, BranchInv, BranchTyped
  <2>2. tx[q].rows \in Reads /\ tx[q].credit \in Amounts
    BY <2>1 DEF Job, Idle, HoldingOps
  <2>3. \A s \in DOMAIN tx[q].rows : tx[q].rows[s].paid <= Received(s)
    BY <2>1 DEF BranchInv, Backed
  <2> QED BY <2>2, <2>3, BranchAssumption
<1>2. Pay(q, tx[q].rows, Absorbed(tx[q].rows, tx[q].credit), "office")
      /\ tx' = [tx EXCEPT ![q] = Idle] /\ payment' = payment
  BY DEF CommitReceive, End
<1>3. /\ stmt' \in [StatementId -> BranchRow]
      /\ lines' \in [StatementId -> [office : Nat, receipts : Nat]]
      /\ \A s \in StatementId : Received(s) <= Received(s)'
      /\ PaidIsBacked' /\ FromReceipts' = FromReceipts
  BY <1>1, <1>2, Pays
<1>4. Credited' = Credited
  BY <1>2 DEF Credited, Linked, Verified, AmountOf
<1>5. ReceiptsAccounted'
  BY <1>3, <1>4, AccountedIff DEF BranchInv
<1>6. payment' \in [PaymentId -> PaymentRow]
      /\ \A p \in PaymentId : payment'[p].status = "pending" => payment'[p].amount \in Amounts
  BY <1>2 DEF BranchInv, BranchTyped
<1>7. \A g \in Tx \ {q} : tx[g].op = "review" => payment'[tx[g].id] = payment[tx[g].id]
  BY <1>2
<1> QED BY <1>2, <1>3, <1>5, <1>6, <1>7, IdleIsJob, BranchStep

(* What statements take of a verified payment is what verified payments point
   to from then on: all of a receipt, and of a deposit the row split off. *)
LEMMA BranchReviews ==
  ASSUME BranchInv, NEW q \in Tx, NEW spare \in PaymentId, CommitReview(q, spare)
  PROVE  BranchInv'
<1> DEFINE p     == tx[q].id
           rows  == tx[q].rows
           total == tx[q].credit
           take  == Absorbed(rows, total)
           used  == SumFunctionOnSet(take, DOMAIN take)
           first == CHOOSE s \in Touched(take) : \A t \in Touched(take) : s <= t
<1>1. /\ p \in PaymentId /\ rows \in Reads /\ total \in Amounts /\ total \in Nat \ {0}
      /\ \A s \in DOMAIN rows : rows[s].paid <= Received(s)
      /\ payment[p].status = "pending" /\ payment[p].amount = total
      /\ payment[p].link # None => /\ DOMAIN rows = {payment[p].link}
                                   /\ total <= Outstanding(rows, payment[p].link)
      /\ payment[p].link \in StatementId \cup {None}
  BY BranchAssumption
     DEF CommitReview, BranchInv, BranchTyped, Job, Idle, HoldingOps, Backed, Claimed, PaymentRow
<1>2. Pay(q, rows, take, "receipts") /\ tx' = [tx EXCEPT ![q] = Idle]
  BY DEF CommitReview, End
<1>3. /\ stmt' \in [StatementId -> BranchRow]
      /\ lines' \in [StatementId -> [office : Nat, receipts : Nat]]
      /\ \A s \in StatementId : Received(s) <= Received(s)'
      /\ PaidIsBacked' /\ FromReceipts' = FromReceipts + used
  <2>1. DOMAIN take = DOMAIN rows
    BY <1>1, TakesWithin
  <2> QED BY <1>1, <1>2, <2>1, Pays
<1>4. /\ DOMAIN take \in SUBSET StatementId /\ IsFiniteSet(DOMAIN take)
      /\ \A s \in DOMAIN take : take[s] \in Nat
  BY <1>1, TakesWithin
<1>5. used \in Nat
  BY <1>4, SumIsNat
<1>6. payment[p].link # None => used = total
  <2>1. DOMAIN take = DOMAIN rows
    BY <1>1, TakesWithin
  <2> QED BY <1>1, <2>1, TakesAll
<1>7. used > 0 => first \in StatementId
  <2> SUFFICES ASSUME used > 0 PROVE first \in StatementId
    OBVIOUS
  <2>1. ASSUME Touched(take) = {} PROVE FALSE
    <3>1. \A s \in DOMAIN take : take[s] = 0
      BY <1>4, <2>1 DEF Touched
    <3> HIDE DEF take
    <3>2. SumFunctionOnSet(take, DOMAIN take) = 0
      BY <1>4, <3>1, SumOfZeros
    <3> QED BY <1>5, <3>2
  <2>2. Touched(take) \in SUBSET DOMAIN take
    BY DEF Touched
  <2> HIDE DEF take
  <2>3. IsFiniteSet(Touched(take)) /\ Touched(take) \subseteq Int
    <3>1. DOMAIN take \subseteq StatementId /\ StatementId \subseteq Nat
      BY <1>4, BranchAssumption
    <3>2. IsFiniteSet(Touched(take))
      BY <1>4, <2>2, FS_Subset
    <3>3. ASSUME NEW s \in Touched(take)
          PROVE  s \in Int
      <4>1. s \in DOMAIN take
        BY <2>2
      <4>2. s \in StatementId
        BY <3>1, <4>1
      <4> QED BY <3>1, <4>2
    <3> QED BY <3>2, <3>3
  <2>4. \E s \in Touched(take) : \A t \in Touched(take) : s <= t
    BY <2>1, <2>3, LeastOf
  <2> QED BY <1>4, <2>2, <2>4
<1>8. /\ payment \in [PaymentId -> PaymentRow]
      /\ \A r \in PaymentId : payment[r].status = "pending" => payment[r].amount \in Amounts
  BY DEF BranchInv, BranchTyped
<1>9. \/ used = 0 /\ payment' = [payment EXCEPT ![p].status = "verified"]
      \/ used = total /\ payment' = [payment EXCEPT ![p] = [@ EXCEPT !.status = "verified", !.link = first]]
      \/ /\ used > 0 /\ used < total /\ payment[spare].status = "none"
         /\ payment' = DepositSplit(p, spare, used, first)
  BY DEF CommitReview
<1> HIDE DEF take, used, first, p, rows, total
<1>10. p \notin Linked /\ Linked \in SUBSET PaymentId
       /\ \A r \in Linked : payment[r].status = "verified" /\ payment[r].link # None
  BY <1>1 DEF Linked, Verified
<1>11. /\ payment' \in [PaymentId -> PaymentRow]
       /\ \A r \in PaymentId : payment'[r].status = "pending" => payment'[r].amount \in Amounts
       /\ \A r \in PaymentId : payment[r].status \in {"pending", "verified"} /\ r # p => payment'[r] = payment[r]
       /\ Credited' = Credited + used
  <2>1. CASE used = 0 /\ payment' = [payment EXCEPT ![p].status = "verified"]
    <3>1. payment[p].link = None
      BY <1>1, <1>6, <2>1
    <3>2. /\ payment'[p] = [payment[p] EXCEPT !.status = "verified"]
          /\ \A r \in PaymentId \ {p} : payment'[r] = payment[r]
      BY <1>1, <1>8, <2>1
    <3>3. payment'[p] \in PaymentRow /\ payment'[p].link = None /\ payment'[p].status = "verified"
      BY <1>1, <1>8, <3>1, <3>2 DEF PaymentRow
    <3>4. payment' \in [PaymentId -> PaymentRow]
      BY <1>8, <2>1, <3>2, <3>3
    <3>5. Linked' = Linked
      BY <3>2, <3>3, <1>10 DEF Linked, Verified
    <3>6. Credited' = Credited /\ Credited \in Nat
      BY <1>8, <1>10, <3>2, <3>4, <3>5, CreditGrows
    <3> QED BY <1>8, <2>1, <3>2, <3>3, <3>4, <3>6
  <2>2. CASE used = total
             /\ payment' = [payment EXCEPT ![p] = [@ EXCEPT !.status = "verified", !.link = first]]
    <3>1. first \in StatementId /\ first # None
      BY <1>1, <1>7, <2>2, BranchAssumption DEF None
    <3>2. /\ payment'[p] = [payment[p] EXCEPT !.status = "verified", !.link = first]
          /\ \A r \in PaymentId \ {p} : payment'[r] = payment[r]
      BY <1>1, <1>8, <2>2
    <3>3. /\ payment'[p] \in PaymentRow /\ payment'[p].link = first
          /\ payment'[p].status = "verified" /\ payment'[p].amount = total
      <4>1. PICK row \in PaymentRow : row = payment[p] /\ row.amount = total
        BY <1>1, <1>8
      <4>2. PICK s \in StatementId : s = first
        BY <3>1
      <4>3. PICK old, l : row = [status |-> old, amount |-> total, link |-> l]
        <5>1. row = [status |-> row.status, amount |-> row.amount, link |-> row.link]
          BY DEF PaymentRow
        <5> QED BY <4>1, <5>1
      <4>4. payment'[p] = [status |-> "verified", amount |-> total, link |-> s]
        BY <3>2, <4>1, <4>2, <4>3
      <4>5. total \in Nat
        BY <1>1
      <4> QED BY <4>2, <4>4, <4>5 DEF PaymentRow
    <3>4. payment' \in [PaymentId -> PaymentRow]
      BY <1>8, <2>2, <3>2, <3>3
    <3>5. Linked' = Linked \cup {p}
      BY <1>1, <1>10, <3>1, <3>2, <3>3 DEF Linked, Verified
    <3>6. Credited' = Credited + total
      BY <1>1, <1>8, <1>10, <3>2, <3>3, <3>4, <3>5, CreditGrows
    <3> QED BY <1>8, <2>2, <3>2, <3>3, <3>4, <3>6
  <2>3. CASE /\ used > 0 /\ used < total /\ payment[spare].status = "none"
             /\ payment' = DepositSplit(p, spare, used, first)
    <3>1. first \in StatementId /\ first # None /\ payment[p].link = None /\ spare # p
      BY <1>1, <1>5, <1>6, <1>7, <2>3, BranchAssumption DEF None
    <3>2. /\ payment'[p] = [payment[p] EXCEPT !.status = "verified", !.amount = @ - used]
          /\ payment'[spare] = [status |-> "verified", amount |-> used, link |-> first]
          /\ \A r \in PaymentId \ {p, spare} : payment'[r] = payment[r]
      BY <1>1, <1>8, <2>3, <3>1 DEF DepositSplit
    <3>3. PICK left \in Nat : left = total - used
      BY <1>1, <1>5, <2>3
    <3>4. /\ payment'[p] \in PaymentRow /\ payment'[p].link = None
          /\ payment'[p].status = "verified"
      <4>1. payment'[p] = [payment[p] EXCEPT !.status = "verified", !.amount = left]
        BY <1>1, <3>2, <3>3
      <4> QED BY <1>1, <1>8, <3>1, <4>1 DEF PaymentRow
    <3>5. /\ payment'[spare] \in PaymentRow /\ payment'[spare].link = first
          /\ payment'[spare].status = "verified" /\ payment'[spare].amount = used
      BY <1>5, <3>1, <3>2 DEF PaymentRow
    <3>6. payment' \in [PaymentId -> PaymentRow]
      <4>1. payment' = [r \in PaymentId |-> payment'[r]]
        BY <1>8, <2>3 DEF DepositSplit
      <4> QED BY <1>8, <3>2, <3>4, <3>5, <4>1
    <3>7. spare \notin Linked /\ Linked' = Linked \cup {spare}
      <4>1. spare \notin Linked
        BY <1>10, <2>3
      <4>2. ASSUME NEW r \in PaymentId
            PROVE  r \in Linked' <=> r \in Linked \/ r = spare
        <5>1. CASE r = p
          BY <1>10, <3>1, <3>4, <5>1 DEF Linked, Verified
        <5>2. CASE r = spare
          BY <3>1, <3>5, <5>2 DEF Linked, Verified
        <5>3. CASE r \notin {p, spare}
          BY <3>2, <5>3 DEF Linked, Verified
        <5> QED BY <5>1, <5>2, <5>3
      <4>3. Linked' \subseteq PaymentId
        BY DEF Linked, Verified
      <4> QED BY <1>10, <4>1, <4>2, <4>3
    <3>8. Credited' = Credited + used
      BY <1>8, <1>10, <3>2, <3>5, <3>6, <3>7, CreditGrows
    <3> QED BY <1>8, <2>3, <3>2, <3>4, <3>5, <3>6, <3>8
  <2> QED BY <1>9, <2>1, <2>2, <2>3
<1>12. ReceiptsAccounted'
  BY <1>3, <1>11, AccountedIff DEF BranchInv
<1>13. \A g \in Tx \ {q} : tx[g].op = "review" => payment'[tx[g].id] = payment[tx[g].id]
  <2> SUFFICES ASSUME NEW g \in Tx \ {q}, tx[g].op = "review"
               PROVE  payment'[tx[g].id] = payment[tx[g].id]
    OBVIOUS
  <2>1. tx[g].id \in PaymentId /\ payment[tx[g].id].status = "pending" /\ tx[g].id # tx[q].id
    BY DEF BranchInv, BranchTyped, Job, Idle, HoldingOps, Claimed, OneReviewer, CommitReview
  <2> QED BY <1>11, <2>1 DEF p
<1> QED BY <1>2, <1>3, <1>11, <1>12, <1>13, IdleIsJob, BranchStep

LEMMA BranchStarts == Init => BranchInv
<1> SUFFICES ASSUME Init PROVE BranchInv
  OBVIOUS
<1>1. BranchTyped
  BY IdleIsJob DEF Init, BranchTyped, BranchRow, PaymentRow, Absent, NoLines, NoClaim
<1>2. OneReviewer /\ PaidIsBacked /\ \A q \in Tx : Backed(tx[q]) /\ Claimed(tx[q])
  BY IdleIsJob DEF Init, OneReviewer, PaidIsBacked, Idle, Absent, NoLines, Received
<1>3. Credited = 0
  <2>1. Linked = {}
    BY DEF Init, Linked, Verified, NoClaim
  <2> QED BY <2>1, SumOfNone DEF Credited, AmountOf
<1>4. FromReceipts = 0
  <2>1. \A s \in StatementId : [t \in StatementId |-> lines[t].receipts][s] = 0
    BY DEF Init, NoLines
  <2> QED BY <2>1, SumOfZeros, BranchAssumption DEF FromReceipts
<1> QED BY <1>1, <1>2, <1>3, <1>4, AccountedIff DEF BranchInv

LEMMA BranchKeeps == BranchInv /\ [Next]_vars => BranchInv'
<1> SUFFICES ASSUME BranchInv, [Next]_vars PROVE BranchInv'
  OBVIOUS
<1>1. ASSUME NEW q \in Tx, Rollback(q)
      PROVE  BranchInv'
  BY <1>1, IdleIsJob, BranchReads DEF Rollback, End, Idle
<1>2. ASSUME UNCHANGED vars
      PROVE  BranchInv'
  BY <1>2 DEF vars, BranchInv, BranchTyped, OneReviewer, PaidIsBacked, ReceiptsAccounted, AmountOf,
              Verified, Received, Backed, Claimed
<1>3. ASSUME NEW q \in Tx, NEW p \in PaymentId, OnPayment(q, p)
      PROVE  BranchInv'
  BY <1>3, BranchFiles, BranchBegins, BranchReviews DEF OnPayment
<1> QED BY <1>1, <1>2, <1>3, BranchOpens, BranchCommits, BranchBegins, BranchReceives DEF Next

LEMMA BranchInvariance == Spec => []BranchInv
BY BranchStarts, BranchKeeps, PTL DEF Spec

(* Every verified rupee that points at a statement is on a payment line of a
   statement, and every line a receipt wrote has one behind it, for any number
   of reviews beside payments, edits and vouchers (reviewBranchPayment). *)
THEOREM ReceiptsAreAccounted == Spec => []ReceiptsAccounted
<1>1. BranchInv => ReceiptsAccounted
  BY DEF BranchInv
<1> QED BY <1>1, BranchInvariance, PTL

(* No statement counts as paid what none of its payment lines records, although
   reviews write totals over statements they do not lock. *)
THEOREM PaymentsAreBacked == Spec => []PaidIsBacked
<1>1. BranchInv => PaidIsBacked
  BY DEF BranchInv
<1> QED BY <1>1, BranchInvariance, PTL

(* A behaviour of both is one of each. *)
LEMMA EitherIsEach == EitherSpec => Spec /\ CodSpec
<1>1. [EitherNext]_<<vars, codVars>> => [Next]_vars /\ [CodNext]_codVars
  BY DEF EitherNext, vars, codVars
<1> QED BY <1>1, PTL DEF EitherSpec, EitherInit, Spec, CodSpec

(* Rows, payments, requests and what transactions hold keep their types. *)
THEOREM EitherTypesHold == EitherSpec => []EitherTypeOK
<1>1. BranchInv => TypeOK
  <2> SUFFICES ASSUME BranchInv PROVE TypeOK
    OBVIOUS
  <2>1. \A s \in StatementId :
          /\ stmt[s].status \in {"none", "pending", "partially_paid", "settled", "cancelled"}
          /\ stmt[s].items \subseteq Order
          /\ stmt[s].net \in Nat /\ stmt[s].paid \in 0 .. stmt[s].net
    BY DEF BranchInv, BranchTyped, BranchRow
  <2>2. \A q \in Tx : tx[q].locked \subseteq StatementId
    BY DEF BranchInv, BranchTyped, Job, Idle
  <2> QED BY <2>1, <2>2 DEF BranchInv, BranchTyped, PaymentRow, TypeOK
<1>2. CodInv => CodTypeOK
  BY DEF CodInv
<1>3. TypeOK /\ CodTypeOK => EitherTypeOK
  BY DEF EitherTypeOK
<1> QED BY <1>1, <1>2, <1>3, BranchInvariance, CodInvariance, EitherIsEach, PTL
=============================================================================
