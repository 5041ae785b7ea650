------------------------------ MODULE Dispatch ------------------------------
(***************************************************************************)
(* Transit: parcels waiting at a hub (status oov) leave it on one of the   *)
(* office's trucks, under a transit manifest (transitManifest.service.ts,  *)
(* orders/status-bulk.ts), or are handed to the NCM carrier                *)
(* (ncm.service.ts).                                                       *)
(*                                                                         *)
(* Every request here reads, decides, and writes later, in one or several  *)
(* transactions; requests interleave, fail half-way and die.  The parcel   *)
(* status lock of module ParcelStatus is left out: it may lapse, and       *)
(* neither scanning nor the carrier handoff takes it.                      *)
(***************************************************************************)
EXTENDS Naturals, FiniteSets

CONSTANTS
  Parcel,    \* parcels.id
  Manifest,  \* transit_manifests.id, all of one route
  Clerk,     \* request slots of the server processes
  Hub,       \* the hub each parcel is staged at
  NcmCovers, \* parcels whose destination has a matching NCM branch
  None,      \* SQL NULL
  MaxOrders  \* bound: stays in transit and carrier faults, per parcel

ASSUME DispatchAssumption ==
  /\ IsFiniteSet(Clerk) /\ DOMAIN Hub = Parcel /\ NcmCovers \subseteq Parcel
  /\ None \notin Manifest /\ MaxOrders \in Nat \ {0}

VARIABLES
  status,    \* parcels.status; "off" stands for every status outside transit
  manifest,  \* transit_manifests.status, "none" when there is no row
  link,      \* transit_manifest_parcels, by how the row was made
  remark,    \* whether a parcel has a handoff remark
  job,       \* where each request is and what it has read
  truck,     \* the manifest whose truck carries the parcel, or None
  left,      \* trucks and carriers that took it since it was last off the road
  orders,    \* orders NCM created for the parcel
  allowance  \* stays at oov, plus handoffs that failed after NCM created one

rows == <<status, manifest, link, remark>>
vars == <<rows, job, truck, left, orders, allowance>>

Idle == [at |-> "idle", op |-> "none", m |-> None, todo |-> {}, batch |-> {}, away |-> {},
         full |-> FALSE]

Init ==
  /\ status = [p \in Parcel |-> "oov"]
  /\ manifest = [m \in Manifest |-> "none"]
  /\ link = [m \in Manifest |-> [p \in Parcel |-> "no"]]
  /\ remark = [p \in Parcel |-> FALSE]
  /\ job = [c \in Clerk |-> Idle]
  /\ truck = [p \in Parcel |-> None]
  /\ left = [p \in Parcel |-> 0]
  /\ orders = [p \in Parcel |-> 0]
  /\ allowance = [p \in Parcel |-> 1]

LiveStatus == {"open", "dispatched"}
Members(m) == {p \in Parcel : link[m][p] # "no"}
OnLive(p)  == \E m \in Manifest : manifest[m] \in LiveStatus /\ p \in Members(m)
At(ps, s)  == {p \in ps : status[p] = s}
Doing(c, at) == job[c].at = at
Goes(c, j)   == job' = [job EXCEPT ![c] = j]

(* Rows a bulk update has locked FOR UPDATE and not committed. *)
Unlocked(ps) == \A c \in Clerk : Doing(c, "counted") => job[c].batch \cap ps = {}

(* Rows of status a parcel gets, and what that does to its departure. *)
Becomes(ps, s) ==
  /\ Unlocked(ps)
  /\ status' = [p \in Parcel |-> IF p \in ps THEN s ELSE status[p]]
Departs(ps, m) ==
  /\ Becomes(ps, "dispatched")
  /\ left' = [p \in Parcel |-> IF p \in ps THEN left[p] + 1 ELSE left[p]]
  /\ truck' = [p \in Parcel |-> IF p \in ps THEN m ELSE truck[p]]
Returns(ps, s) ==
  /\ Becomes(ps, s)
  /\ left' = [p \in Parcel |-> IF p \in ps THEN 0 ELSE left[p]]
  /\ truck' = [p \in Parcel |-> IF p \in ps THEN None ELSE truck[p]]

(* deleteMany of the links of ps on manifests of these statuses. *)
Evicted(ps, statuses) ==
  [m \in Manifest |-> [p \in Parcel |->
     IF p \in ps /\ manifest[m] \in statuses THEN "no" ELSE link[m][p]]]

-----------------------------------------------------------------------------
(* Building a manifest. *)

createTransitManifest(m) ==
  /\ manifest[m] = "none"
  /\ manifest' = [manifest EXCEPT ![m] = "open"]
  /\ UNCHANGED <<status, link, remark, job, truck, left, orders, allowance>>

(* A read finds the manifest open, or empty as well; the write comes later. *)
Look(c, op, m, ps) ==
  /\ Doing(c, "idle") /\ manifest[m] = "open"
  /\ op = "delete" => Members(m) = {}
  /\ op = "add" => \A p \in ps : status[p] = "oov" /\ ~OnLive(p)
  /\ op = "remove" => Cardinality(ps) = 1
  /\ Goes(c, [Idle EXCEPT !.at = op, !.m = m, !.batch = ps])
  /\ UNCHANGED <<rows, truck, left, orders, allowance>>

(* Mutants: parcels linked without looking again under their row lock, and
   linked to a row that is gone. *)
AddUnchecked(c) ==
  LET m == job[c].m IN
  /\ Doing(c, "add") /\ Unlocked(job[c].batch)
  /\ link' = IF manifest[m] = "none" THEN link
             ELSE [link EXCEPT ![m] = [p \in Parcel |->
                     IF p \in job[c].batch /\ @[p] = "no" THEN "scan" ELSE @[p]]]
  /\ Goes(c, Idle)
  /\ UNCHANGED <<status, manifest, remark, truck, left, orders, allowance>>
AddToNoRow(c) ==
  LET m == job[c].m IN
  /\ Doing(c, "add") /\ Unlocked(job[c].batch)
  /\ link' = [link EXCEPT ![m] = [p \in Parcel |->
                IF p \in job[c].batch /\ ~OnLive(p) /\ @[p] = "no" THEN "scan" ELSE @[p]]]
  /\ Goes(c, Idle)
  /\ UNCHANGED <<status, manifest, remark, truck, left, orders, allowance>>

(* addParcelsToTransitManifest: locks the parcels, drops those that joined a
   live manifest since, links the rest.  It asks no more whether this manifest
   is still open; when the row is gone the foreign key refuses. *)
addParcelsToTransitManifest(c) ==
  LET m == job[c].m IN
  /\ Doing(c, "add") /\ Unlocked(job[c].batch)
  /\ link' = IF manifest[m] = "none" THEN link
             ELSE [link EXCEPT ![m] = [p \in Parcel |->
                     IF p \in job[c].batch /\ ~OnLive(p) /\ @[p] = "no" THEN "scan" ELSE @[p]]]
  /\ Goes(c, Idle)
  /\ UNCHANGED <<status, manifest, remark, truck, left, orders, allowance>>

removeParcelFromTransitManifest(c) ==
  /\ Doing(c, "remove")
  /\ link' = [link EXCEPT ![job[c].m] = [p \in Parcel |->
                IF p \in job[c].batch THEN "no" ELSE @[p]]]
  /\ Goes(c, Idle)
  /\ UNCHANGED <<status, manifest, remark, truck, left, orders, allowance>>

(* onDelete: Cascade takes the links. *)
deleteTransitManifest(c) ==
  LET m == job[c].m IN
  /\ Doing(c, "delete")
  /\ manifest' = [manifest EXCEPT ![m] = "none"]
  /\ link' = [link EXCEPT ![m] = [p \in Parcel |-> "no"]]
  /\ Goes(c, Idle)
  /\ UNCHANGED <<status, remark, truck, left, orders, allowance>>

-----------------------------------------------------------------------------
(* Dispatching a manifest: claim it, read its members, then one bulk update
   for each hub they are staged at. *)

dispatchTransitManifest(c, m) ==
  /\ Doing(c, "idle") /\ manifest[m] = "open"
  /\ manifest' = [manifest EXCEPT ![m] = "dispatched"]
  /\ Goes(c, [Idle EXCEPT !.at = "claimed", !.op = "dispatch", !.m = m])
  /\ UNCHANGED <<status, link, remark, truck, left, orders, allowance>>

LoadMembers(c) ==
  LET m == job[c].m
      eligible == At(Members(m), "oov")
  IN
  /\ Doing(c, "claimed")
  /\ Goes(c, [job[c] EXCEPT !.at = "pruning", !.todo = eligible, !.batch = Members(m) \ eligible])
  /\ UNCHANGED <<rows, truck, left, orders, allowance>>

(* The members seen elsewhere lose their link, wherever they are by now. *)
PruneMembers(c) ==
  /\ Doing(c, "pruning")
  /\ link' = [link EXCEPT ![job[c].m] = [p \in Parcel |->
                IF p \in job[c].batch THEN "no" ELSE @[p]]]
  /\ Goes(c, [job[c] EXCEPT !.at = IF job[c].todo = {} THEN "failed" ELSE "loading", !.batch = {}])
  /\ UNCHANGED <<status, manifest, remark, truck, left, orders, allowance>>

(* bulkUpdateParcelStatus up to its transaction: a parcel on its way already
   drops out; one seen outside transit fails the batch, unless the account may
   force a status. *)
ReadGroup(c) ==
  /\ Doing(c, "loading")
  /\ \E h \in {Hub[p] : p \in job[c].todo} :
       LET group == {p \in job[c].todo : Hub[p] = h} IN
       \/ At(group, "off") # {} /\ Goes(c, [job[c] EXCEPT !.at = "failed"])
       \/ Goes(c, [job[c] EXCEPT !.at = "moving", !.todo = @ \ group,
                     !.batch = group \ At(group, "dispatched"), !.away = At(group, "off")])
  /\ UNCHANGED <<rows, truck, left, orders, allowance>>

NextGroup(c) ==
  IF job[c].todo = {} THEN Idle
  ELSE [job[c] EXCEPT !.at = "loading", !.batch = {}, !.away = {}]

(* The parcels of ps dispatched on m, which leaves with the first of them. *)
Leave(c, ps) ==
  LET m == job[c].m IN
  /\ Doing(c, "moving") /\ Unlocked(job[c].batch)
  /\ Departs(ps, m)
  /\ manifest' = [n \in Manifest |-> IF n = m /\ manifest[n] = "open" /\ ps # {}
                                     THEN "dispatched" ELSE manifest[n]]
  /\ Goes(c, NextGroup(c))
  /\ UNCHANGED <<link, remark, orders, allowance>>

(* Mutant: the transaction trusts what was read before it. *)
MoveUnlocked(c) == Leave(c, job[c].batch)

(* The transaction of bulkUpdateParcelStatus to dispatched: under the row
   locks, what somebody else moved since drops out, be it from one status
   outside transit to another. *)
MoveGroup(c) ==
  LET read == job[c] IN
  \E kept \in SUBSET At(read.away, "off") :
    Leave(c, At(read.batch \ read.away, "oov") \cup kept)

(* An error anywhere in the dispatch, and its catch. *)
DispatchFails(c) ==
  /\ job[c].op = "dispatch" /\ job[c].at \in {"claimed", "pruning", "loading", "moving"}
  /\ Goes(c, [job[c] EXCEPT !.at = "failed"])
  /\ UNCHANGED <<rows, truck, left, orders, allowance>>
ReopenManifest(c) ==
  LET m == job[c].m IN
  /\ Doing(c, "failed")
  /\ manifest' = [manifest EXCEPT
       ![m] = IF @ = "dispatched" /\ job[c].op = "dispatch" THEN "open" ELSE @]
  /\ Goes(c, Idle)
  /\ UNCHANGED <<status, link, remark, truck, left, orders, allowance>>

(* resolveAutoTransitManifests, for a dispatch that names no manifest: the
   parcels it finds at oov get an open one nothing else is staged on, or a new
   one; then the links, with no look at where else they are linked.  The rest
   of the request is a ReadPlain of its own. *)
resolveAutoTransitManifests(c, ps, m) ==
  /\ Doing(c, "idle") /\ ps # {} /\ At(ps, "oov") = ps
  /\ \/ manifest[m] = "open" /\ At(Members(m) \ ps, "oov") = {} /\ UNCHANGED manifest
     \/ manifest[m] = "none" /\ manifest' = [manifest EXCEPT ![m] = "open"]
  /\ Goes(c, [Idle EXCEPT !.at = "linking", !.op = "auto", !.m = m, !.todo = ps])
  /\ UNCHANGED <<status, link, remark, truck, left, orders, allowance>>

LinkAuto(c) ==
  LET m == job[c].m IN
  /\ Doing(c, "linking")
  /\ IF manifest[m] = "none" THEN Goes(c, Idle) /\ UNCHANGED link
     ELSE /\ link' = [link EXCEPT ![m] = [p \in Parcel |->
                        IF p \in job[c].todo /\ @[p] = "no" THEN "auto" ELSE @[p]]]
          /\ Goes(c, [job[c] EXCEPT !.at = "loading"])
  /\ UNCHANGED <<status, manifest, remark, truck, left, orders, allowance>>

-----------------------------------------------------------------------------
(* A bulk dispatch with no manifest: to a named branch, or of parcels no route
   was found for or that were not at oov, if the account may force it.  It reads,
   drops what is on its way, and moves the rest like a group. *)
ReadPlain(c, ps) ==
  /\ Doing(c, "idle") /\ ps # {} /\ At(ps, "dispatched") = {}
  /\ Goes(c, [Idle EXCEPT !.at = "moving", !.batch = ps, !.away = At(ps, "off")])
  /\ UNCHANGED <<rows, truck, left, orders, allowance>>

(* A parcel dispatched alone, from oov or by force from anywhere.  The write
   looks at nothing again; the link it drops goes by the status it read. *)
ReadAlone(c, p) ==
  /\ Doing(c, "idle")
  /\ Goes(c, [Idle EXCEPT !.at = IF status[p] = "dispatched" THEN "resending" ELSE "sending",
                          !.batch = {p}, !.away = At({p}, "off")])
  /\ UNCHANGED <<rows, truck, left, orders, allowance>>

SendAlone(c) ==
  LET ps == job[c].batch IN
  /\ Doing(c, "sending") \/ Doing(c, "resending")
  /\ Becomes(ps, "dispatched")
  /\ truck' = [p \in Parcel |-> IF p \in ps THEN None ELSE truck[p]]
  /\ link' = Evicted(ps \ job[c].away, {IF Doing(c, "sending") THEN "open" ELSE "dispatched"})
  /\ Goes(c, Idle)
  /\ UNCHANGED <<manifest, remark, left, orders, allowance>>

-----------------------------------------------------------------------------
(* Receiving: bulkUpdateParcelStatus to arrived_at_branch.  Its transaction
   counts the members still on the road as far as it can see. *)

receiveTransitManifestParcels(c, m, ps) ==
  /\ Doing(c, "idle") /\ manifest[m] = "dispatched"
  /\ ps # {} /\ ps \subseteq At(Members(m), "dispatched")
  /\ Goes(c, [Idle EXCEPT !.at = "receiving", !.m = m, !.batch = ps])
  /\ UNCHANGED <<rows, truck, left, orders, allowance>>

CountOnRoad(c) ==
  LET ps == At(job[c].batch, "dispatched") IN
  /\ Doing(c, "receiving") /\ Unlocked(job[c].batch)
  /\ Goes(c, IF ps = {} THEN Idle
             ELSE [job[c] EXCEPT !.at = "counted", !.batch = ps,
                     !.full = At(Members(job[c].m), "dispatched") \subseteq ps])
  /\ UNCHANGED <<rows, truck, left, orders, allowance>>

CommitReceive(c) ==
  LET m == job[c].m IN
  /\ Doing(c, "counted")
  /\ status' = [p \in Parcel |-> IF p \in job[c].batch THEN "off" ELSE status[p]]
  /\ truck' = [p \in Parcel |-> IF p \in job[c].batch THEN None ELSE truck[p]]
  /\ left' = [p \in Parcel |-> IF p \in job[c].batch THEN 0 ELSE left[p]]
  /\ manifest' = [manifest EXCEPT
       ![m] = IF job[c].full /\ @ # "none" THEN "received" ELSE @]
  /\ Goes(c, Idle)
  /\ UNCHANGED <<link, remark, orders, allowance>>

-----------------------------------------------------------------------------
(* handoffParcels (NCM), one parcel of the batch. *)

(* Parcels and their remarks are read for the whole batch. *)
PickForCarrier(c, p) ==
  /\ Doing(c, "idle") /\ p \in NcmCovers
  /\ status[p] = "oov" /\ ~remark[p]
  /\ Goes(c, [Idle EXCEPT !.at = "picked", !.batch = {p}])
  /\ UNCHANGED <<rows, truck, left, orders, allowance>>

(* Mutant: no claim, as in the Upaya handoff. *)
CallWithoutClaim(c) ==
  /\ Doing(c, "picked")
  /\ Departs(job[c].batch, None)
  /\ Goes(c, [job[c] EXCEPT !.at = "calling"])
  /\ UNCHANGED <<manifest, link, remark, orders, allowance>>

(* The claim: updateMany where status is still oov. *)
ClaimForCarrier(c) ==
  /\ Doing(c, "picked")
  /\ IF At(job[c].batch, "oov") = {}
       THEN Goes(c, Idle) /\ UNCHANGED <<status, truck, left>>
       ELSE Departs(job[c].batch, None) /\ Goes(c, [job[c] EXCEPT !.at = "calling"])
  /\ UNCHANGED <<manifest, link, remark, orders, allowance>>

(* NCM creates the order, or refuses. *)
NcmAnswers(c) ==
  /\ Doing(c, "calling")
  /\ \/ /\ orders' = [p \in Parcel |-> IF p \in job[c].batch THEN orders[p] + 1 ELSE orders[p]]
        /\ Goes(c, [job[c] EXCEPT !.at = "ordered"])
     \/ Goes(c, [job[c] EXCEPT !.at = "refused"]) /\ UNCHANGED orders
  /\ UNCHANGED <<rows, truck, left, allowance>>

RecordHandoff(c) ==
  /\ Doing(c, "ordered")
  /\ link' = Evicted(job[c].batch, {"open"})
  /\ remark' = [p \in Parcel |-> remark[p] \/ p \in job[c].batch]
  /\ Goes(c, Idle)
  /\ UNCHANGED <<status, manifest, truck, left, orders, allowance>>

(* The answer is lost, or recording it fails: the same catch as a refusal. *)
HandoffFails(c) ==
  /\ Doing(c, "ordered") /\ \A p \in job[c].batch : allowance[p] < MaxOrders
  /\ Goes(c, [job[c] EXCEPT !.at = "refused"])
  /\ allowance' = [p \in Parcel |-> IF p \in job[c].batch THEN allowance[p] + 1 ELSE allowance[p]]
  /\ UNCHANGED <<rows, truck, left, orders>>

(* The catch: whatever is dispatched goes back to oov. *)
ReleaseClaim(c) ==
  /\ Doing(c, "refused")
  /\ Returns(At(job[c].batch, "dispatched"), "oov")
  /\ Goes(c, Idle)
  /\ UNCHANGED <<manifest, link, remark, orders, allowance>>

-----------------------------------------------------------------------------
(* The other status handlers: a parcel leaves transit, or comes back to it.
   The carrier's report of a handed-off parcel evicts it from no manifest. *)
LeaveTransit(p) ==
  /\ status[p] # "off"
  /\ Returns({p}, "off")
  /\ \/ link' = Evicted({p}, IF status[p] = "oov" THEN {"open"} ELSE {"dispatched"})
     \/ remark[p] /\ UNCHANGED link
  /\ UNCHANGED <<manifest, remark, job, orders, allowance>>

EnterTransit(p) ==
  /\ status[p] = "off" /\ allowance[p] < MaxOrders
  /\ Returns({p}, "oov")
  /\ link' = Evicted({p}, {"dispatched"})
  /\ allowance' = [allowance EXCEPT ![p] = @ + 1]
  /\ UNCHANGED <<manifest, remark, job, orders>>

(* The process dies: nothing of the request goes on. *)
Crash(c) ==
  /\ ~Doing(c, "idle")
  /\ Goes(c, Idle)
  /\ UNCHANGED <<rows, truck, left, orders, allowance>>

Scan(c) ==
  \/ \E m \in Manifest, ps \in (SUBSET Parcel) \ {{}} :
       \/ \E op \in {"add", "remove"} : Look(c, op, m, ps)
       \/ receiveTransitManifestParcels(c, m, ps)
       \/ resolveAutoTransitManifests(c, ps, m)
  \/ \E ps \in SUBSET Parcel : ReadPlain(c, ps)
  \/ \E m \in Manifest : Look(c, "delete", m, {}) \/ dispatchTransitManifest(c, m)
  \/ \E p \in Parcel : PickForCarrier(c, p) \/ ReadAlone(c, p)

Write(c) ==
  \/ addParcelsToTransitManifest(c) \/ removeParcelFromTransitManifest(c)
  \/ deleteTransitManifest(c)
  \/ LoadMembers(c) \/ PruneMembers(c) \/ ReadGroup(c) \/ MoveGroup(c) \/ ReopenManifest(c)
  \/ LinkAuto(c) \/ SendAlone(c) \/ CountOnRoad(c) \/ CommitReceive(c)
  \/ ClaimForCarrier(c) \/ NcmAnswers(c) \/ RecordHandoff(c) \/ ReleaseClaim(c)

Next ==
  \/ \E m \in Manifest : createTransitManifest(m)
  \/ \E c \in Clerk : Scan(c) \/ Write(c) \/ DispatchFails(c) \/ HandoffFails(c) \/ Crash(c)
  \/ \E p \in Parcel : LeaveTransit(p) \/ EnterTransit(p)

Spec == Init /\ [][Next]_vars
-----------------------------------------------------------------------------
(* Columns hold what they may, a link has a manifest, and only a parcel on the
   road is on a truck. *)
TypeOK ==
  /\ status \in [Parcel -> {"oov", "dispatched", "off"}]
  /\ manifest \in [Manifest -> {"none", "open", "dispatched", "received"}]
  /\ link \in [Manifest -> [Parcel -> {"no", "scan", "auto"}]]
  /\ remark \in [Parcel -> BOOLEAN]
  /\ truck \in [Parcel -> Manifest \cup {None}]
  /\ \A m \in Manifest : manifest[m] = "none" => Members(m) = {}
  /\ \A p \in Parcel : truck[p] # None => status[p] = "dispatched"

(* "Two scans racing each other can put one parcel on two manifests - and both
   then dispatch it": scanning never does. *)
OneScanManifest ==
  \A p \in Parcel :
    Cardinality({m \in Manifest : manifest[m] \in LiveStatus /\ link[m][p] = "scan"}) <= 1

(* "one order goes to dispatched twice at the same moment": trucks and carriers
   race for a parcel, and one that an account may force takes even a parcel
   outside transit, but between two departures it came off the road, whatever
   is dispatched alone meanwhile. *)
DepartsOnce == \A p \in Parcel : left[p] <= 1

(* NCM gets at most one order for each time a parcel waits at oov, and another
   only when an answer was lost or could not be recorded: "two real orders on
   NCM's side, which no amount of cleanup here can take back". *)
OrdersAccounted == \A p \in Parcel : orders[p] <= allowance[p]
=============================================================================
