---------------------------- MODULE CodRequests ----------------------------
(***************************************************************************)
(* A vendor's requests to be paid the COD the office holds for them, and   *)
(* their review (codSettlementRequest.service.ts).  Nothing here locks:    *)
(* each handler reads, and a unique index or a compare-and-swap decides    *)
(* when it writes.                                                         *)
(***************************************************************************)
EXTENDS Integers

CONSTANTS
  Vendor, RequestId,
  VendorStatement, \* vendor statements
  Owner,    \* the vendor of each vendor statement
  Handler   \* the calls that may be under way at once

Nobody == "none" \* NULL

ASSUME CodRequestsAssumption ==
  /\ Owner \in [VendorStatement -> Vendor]
  /\ Nobody \notin Vendor \cup VendorStatement

VARIABLES
  request,   \* the cod_settlement_requests rows
  statement, \* the vendor statements: raised (paid or not), or cancelled
  call       \* what each handler has read

codVars == <<request, statement, call>>

LIVE_REQUEST_STATUSES == {"open", "in_progress"}
TERMINAL  == {"settled", "rejected"}
NoRequest == [status |-> Nobody, vendor |-> Nobody, statement |-> Nobody]
AtRest    == [at |-> "idle"]

CodInit ==
  /\ request = [r \in RequestId |-> NoRequest]
  /\ statement = [s \in VendorStatement |-> Nobody]
  /\ call = [h \in Handler |-> AtRest]

Live(r)    == request[r].status \in LIVE_REQUEST_STATUSES
LiveOf(v)  == {r \in RequestId : request[r].vendor = v /\ Live(r)}
LinkedTo(s, r) == \E other \in RequestId \ {r} : request[other].statement = s

(* Mutant: a request is taken from whoever sends it. *)
AnyAccount(v) == v \in Vendor \cup {Nobody}

(* resolveActorVendorId: an account that acts for no vendor is refused. *)
VendorAccount(v) == v # Nobody

ReadLiveRequest(h, v) ==
  /\ call[h] = AtRest /\ VendorAccount(v) /\ LiveOf(v) = {}
  /\ call' = [call EXCEPT ![h] = [at |-> "create", vendor |-> v]]
  /\ UNCHANGED <<request, statement>>

(* Mutant: without the index, the read is all that keeps requests apart. *)
InsertsAnyway(v) == v \in Vendor

(* The unique index cod_settlement_requests_one_live_per_vendor. *)
OneLivePerVendor(v) == LiveOf(v) = {}

createCodSettlementRequest(h, r) ==
  /\ call[h].at = "create" /\ request[r].status = Nobody
  /\ OneLivePerVendor(call[h].vendor)
  /\ request' = [request EXCEPT ![r] =
       [status |-> "open", vendor |-> call[h].vendor, statement |-> Nobody]]
  /\ call' = [call EXCEPT ![h] = AtRest]
  /\ UNCHANGED statement

(* The request is live; what the reviewer asked for.  Only a settlement needs a
   statement, yet one may come with any decision, whosever it is. *)
Decisions ==
  [status : {"in_progress", "rejected"}, statement : VendorStatement \cup {Nobody}]
    \cup [status : {"settled"}, statement : VendorStatement]

ReadRequest(h, r, d) ==
  /\ call[h] = AtRest /\ Live(r)
  /\ call' = [call EXCEPT ![h] =
       [at |-> IF d.status = "settled" THEN "statement" ELSE "swap",
        id |-> r, vendor |-> request[r].vendor, status |-> d.status, statement |-> d.statement]]
  /\ UNCHANGED <<request, statement>>

ReadStatement(h) ==
  LET c == call[h] IN
  /\ c.at = "statement"
  /\ Owner[c.statement] = c.vendor
  /\ statement[c.statement] \notin {Nobody, "cancelled"}
  /\ call' = [call EXCEPT ![h].at = "taken"]
  /\ UNCHANGED <<request, statement>>

(* One statement answers one request. *)
ReadTaken(h) ==
  /\ call[h].at = "taken" /\ ~LinkedTo(call[h].statement, call[h].id)
  /\ call' = [call EXCEPT ![h].at = "swap"]
  /\ UNCHANGED <<request, statement>>

(* Mutant: the update goes by the id alone. *)
UpdatesById(r) == r \in RequestId

(* The condition of the updateMany. *)
StillLive(r) == Live(r)

updateCodSettlementRequestStatus(h) ==
  LET c == call[h] IN
  /\ c.at = "swap" /\ StillLive(c.id)
  /\ request' = [request EXCEPT
       ![c.id].status = c.status,
       ![c.id].statement = IF c.statement = Nobody THEN @ ELSE c.statement]
  /\ call' = [call EXCEPT ![h] = AtRest]
  /\ UNCHANGED statement

(* A check failed, the index or the swap refused, or the process died. *)
GiveUp(h) ==
  /\ call[h] # AtRest
  /\ call' = [call EXCEPT ![h] = AtRest]
  /\ UNCHANGED <<request, statement>>

(* What the statements do meanwhile; the module Settlement has the whole of it.
   A paid statement is a raised one that is not cancelled. *)
createSettlement(s) ==
  /\ statement[s] = Nobody
  /\ statement' = [statement EXCEPT ![s] = "raised"]
  /\ UNCHANGED <<request, call>>

cancelSettlement(s) ==
  /\ statement[s] = "raised"
  /\ statement' = [statement EXCEPT ![s] = "cancelled"]
  /\ UNCHANGED <<request, call>>

Handle(h) ==
  \/ \E v \in Vendor \cup {Nobody} : ReadLiveRequest(h, v)
  \/ \E r \in RequestId :
       \/ createCodSettlementRequest(h, r)
       \/ \E d \in Decisions : ReadRequest(h, r, d)
  \/ ReadStatement(h) \/ ReadTaken(h) \/ updateCodSettlementRequestStatus(h) \/ GiveUp(h)

CodNext ==
  \/ \E h \in Handler : Handle(h)
  \/ \E s \in VendorStatement : createSettlement(s) \/ cancelSettlement(s)

CodSpec == CodInit /\ [][CodNext]_codVars

-----------------------------------------------------------------------------
(* The shape of the rows and of what a handler holds (schema.prisma,
   cod_settlement_requests). *)
Row == [status : LIVE_REQUEST_STATUSES \cup TERMINAL, vendor : Vendor,
        statement : VendorStatement \cup {Nobody}]
Review == [at : {"statement", "taken", "swap"}, id : RequestId, vendor : Vendor,
           status : {"in_progress"} \cup TERMINAL, statement : VendorStatement \cup {Nobody}]

CodTypeOK ==
  /\ request \in [RequestId -> Row \cup {NoRequest}]
  /\ statement \in [VendorStatement -> {Nobody, "raised", "cancelled"}]
  /\ call \in [Handler -> {AtRest} \cup [at : {"create"}, vendor : Vendor] \cup Review]

(* A statement answers one request, of its own vendor: no two settled requests
   share one, although whether it is taken is read long before it is linked
   (codSettlementRequest.service.ts, updateCodSettlementRequestStatus).  What
   keeps the read good is the index: a second request of the vendor cannot have
   been live beside the first. *)
AnsweredOnce ==
  \A r \in RequestId : request[r].status = "settled" =>
    /\ Owner[request[r].statement] = request[r].vendor
    /\ \A other \in RequestId \ {r} :
         request[other].status = "settled" => request[other].statement # request[r].statement

(* A closed request is closed for ever, whichever handler read it while it was
   still live ("A terminal request never reopens"). *)
ClosedForGood ==
  [][\A r \in RequestId :
       request[r].status \in TERMINAL => request'[r] = request[r]]_codVars
=============================================================================
