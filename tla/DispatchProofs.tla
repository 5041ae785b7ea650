--------------------------- MODULE DispatchProofs ---------------------------
(***************************************************************************)
(* Proofs about Dispatch, for any number of parcels, manifests, hubs and   *)
(* requests: scanning never puts a parcel on two live manifests, each stay *)
(* on the road begins with one departure, and every order at the carrier has a  *)
(* stay or a lost answer of its own.                                       *)
(***************************************************************************)
EXTENDS Dispatch, FiniteSetTheorems, TLAPS

Stage == {"idle", "add", "remove", "delete", "claimed", "pruning", "loading", "moving", "failed",
          "linking", "sending", "resending", "receiving", "counted", "picked", "calling", "refused", "ordered"}
Job == [at : Stage, op : {"none", "dispatch", "auto"}, m : Manifest \cup {None}, todo : SUBSET Parcel,
        batch : SUBSET Parcel, away : SUBSET Parcel, full : BOOLEAN]

Jobs == job \in [Clerk -> Job]

(* The carrier takes the parcels of a handoff one at a time. *)
Singly == \A c \in Clerk : Doing(c, "picked") => \E p \in Parcel : job[c].batch = {p}

(* A request that may still be answered by the carrier, or put the parcel back. *)
Claim(j, p) == j.at \in {"calling", "refused"} /\ p \in j.batch
Claims(p)   == {c \in Clerk : Claim(job[c], p)}

Alone(c) == \A d \in Clerk \ {c} : job'[d] = job[d]

(* Requests that read, or write nothing but what they do next. *)
Reads(c) ==
  \/ \E m \in Manifest, ps \in (SUBSET Parcel) \ {{}} :
       (\E op \in {"add", "remove"} : Look(c, op, m, ps)) \/ receiveTransitManifestParcels(c, m, ps)
  \/ \E m \in Manifest : Look(c, "delete", m, {})
  \/ \E ps \in SUBSET Parcel : ReadPlain(c, ps)
  \/ \E p \in Parcel : PickForCarrier(c, p) \/ ReadAlone(c, p)
  \/ LoadMembers(c) \/ ReadGroup(c) \/ CountOnRoad(c) \/ DispatchFails(c) \/ Crash(c)

(* Requests that write manifests and their links only. *)
Files(c) ==
  \/ \E m \in Manifest, ps \in (SUBSET Parcel) \ {{}} : resolveAutoTransitManifests(c, ps, m)
  \/ \E m \in Manifest : dispatchTransitManifest(c, m)
  \/ addParcelsToTransitManifest(c) \/ removeParcelFromTransitManifest(c)
  \/ deleteTransitManifest(c) \/ PruneMembers(c) \/ ReopenManifest(c) \/ LinkAuto(c)
  \/ RecordHandoff(c)

(* Requests that move parcels. *)
Moves(c) == MoveGroup(c) \/ SendAlone(c) \/ CommitReceive(c)

-----------------------------------------------------------------------------
(* Every step, by what it does. *)
LEMMA Steps ==
  ASSUME Next
  PROVE  \/ \E m \in Manifest : createTransitManifest(m)
         \/ \E c \in Clerk : \/ Reads(c) \/ Files(c) \/ Moves(c)
                             \/ ClaimForCarrier(c) \/ NcmAnswers(c) \/ HandoffFails(c) \/ ReleaseClaim(c)
         \/ \E p \in Parcel : LeaveTransit(p) \/ EnterTransit(p)
<1>1. ASSUME NEW c \in Clerk, Scan(c)
      PROVE  Reads(c) \/ Files(c)
  BY <1>1 DEF Scan, Reads, Files
<1>2. ASSUME NEW c \in Clerk, Write(c)
      PROVE  Reads(c) \/ Files(c) \/ Moves(c) \/ ClaimForCarrier(c) \/ NcmAnswers(c) \/ ReleaseClaim(c)
  BY <1>2 DEF Write, Reads, Files, Moves
<1> QED BY <1>1, <1>2 DEF Next, Reads

(* What a request does next is a job, and begins no claim. *)
LEMMA ReadsOnly ==
  ASSUME Jobs, NEW c \in Clerk, Reads(c)
  PROVE  /\ UNCHANGED <<rows, truck, left, orders, allowance>>
         /\ Alone(c) /\ job' \in [Clerk -> Job] /\ job'[c].at \notin {"calling"}
         /\ job'[c].at = "refused" => FALSE
         /\ job'[c].at = "picked" => \E p \in Parcel : job'[c].batch = {p}
<1>1. job[c] \in Job /\ Idle \in Job
  BY DEF Jobs, Job, Stage, Idle
<1>2. ASSUME NEW j \in Job, Goes(c, j)
      PROVE  Alone(c) /\ job' \in [Clerk -> Job] /\ job'[c] = j
  BY <1>2 DEF Jobs, Goes, Alone
<1>12. ASSUME NEW at \in Stage, NEW m \in Manifest, NEW ps \in SUBSET Parcel
       PROVE  /\ [Idle EXCEPT !.at = at, !.m = m, !.batch = ps] \in Job
              /\ [Idle EXCEPT !.at = at, !.m = m, !.batch = ps].at = at
  BY DEF Job, Idle, Stage
<1>13. ASSUME NEW at \in Stage, NEW ps \in SUBSET Parcel
       PROVE  /\ [Idle EXCEPT !.at = at, !.batch = ps] \in Job
              /\ [Idle EXCEPT !.at = at, !.batch = ps].at = at
              /\ [Idle EXCEPT !.at = at, !.batch = ps].batch = ps
  BY DEF Job, Idle, Stage
<1>3. ASSUME NEW m \in Manifest, NEW ps \in SUBSET Parcel, NEW op \in {"add", "remove", "delete"},
             Look(c, op, m, ps)
      PROVE  \E j \in Job : Goes(c, j) /\ j.at \in {"add", "remove", "delete"}
  <2> DEFINE j == [Idle EXCEPT !.at = op, !.m = m, !.batch = ps]
  <2>1. op \in Stage
    BY DEF Stage
  <2>2. j \in Job /\ j.at = op
    BY <2>1, <1>12
  <2>3. Goes(c, j)
    BY <1>3 DEF Look
  <2> HIDE DEF j
  <2> QED BY <2>2, <2>3
<1>4. ASSUME NEW m \in Manifest, NEW ps \in SUBSET Parcel, receiveTransitManifestParcels(c, m, ps)
      PROVE  \E j \in Job : Goes(c, j) /\ j.at = "receiving"
  <2> DEFINE j == [Idle EXCEPT !.at = "receiving", !.m = m, !.batch = ps]
  <2>1. "receiving" \in Stage
    BY DEF Stage
  <2>2. j \in Job /\ j.at = "receiving"
    BY <2>1, <1>12
  <2>3. Goes(c, j)
    BY <1>4 DEF receiveTransitManifestParcels
  <2> HIDE DEF j
  <2> QED BY <2>2, <2>3
<1>5. ASSUME NEW p \in Parcel, PickForCarrier(c, p)
      PROVE  \E j \in Job : Goes(c, j) /\ j.at = "picked" /\ j.batch = {p}
  <2> DEFINE j == [Idle EXCEPT !.at = "picked", !.batch = {p}]
  <2>1. "picked" \in Stage
    BY DEF Stage
  <2>2. j \in Job /\ j.at = "picked" /\ j.batch = {p}
    BY <2>1, <1>13
  <2>3. Goes(c, j)
    BY <1>5 DEF PickForCarrier
  <2> HIDE DEF j
  <2> QED BY <2>2, <2>3
<1>6. ASSUME NEW p \in Parcel, ReadAlone(c, p)
      PROVE  \E j \in Job : Goes(c, j) /\ j.at \in {"sending", "resending"}
  <2> DEFINE at == IF status[p] = "dispatched" THEN "resending" ELSE "sending"
  <2> DEFINE j == [Idle EXCEPT !.at = at, !.batch = {p}, !.away = At({p}, "off")]
  <2>1. at \in Stage /\ at \in {"sending", "resending"}
    BY DEF Stage
  <2>2. Goes(c, j)
    BY <1>6 DEF ReadAlone
  <2> HIDE DEF at
  <2>3. j \in Job /\ j.at = at
    BY <2>1 DEF Job, Idle, At
  <2> HIDE DEF j
  <2> QED BY <2>1, <2>2, <2>3
<1>15. ASSUME NEW ps \in SUBSET Parcel, ReadPlain(c, ps)
       PROVE  \E j \in Job : Goes(c, j) /\ j.at = "moving"
  <2> DEFINE j == [Idle EXCEPT !.at = "moving", !.batch = ps, !.away = At(ps, "off")]
  <2>1. j \in Job /\ j.at = "moving"
    BY DEF Job, Stage, Idle, At
  <2>2. Goes(c, j)
    BY <1>15 DEF ReadPlain
  <2> HIDE DEF j
  <2> QED BY <2>1, <2>2
<1>16. ASSUME LoadMembers(c)
       PROVE  \E j \in Job : Goes(c, j) /\ j.at = "pruning"
  <2> DEFINE ps == At(Members(job[c].m), "oov")
  <2> DEFINE j == [job[c] EXCEPT !.at = "pruning", !.todo = ps, !.batch = Members(job[c].m) \ ps]
  <2>1. ps \in SUBSET Parcel /\ Members(job[c].m) \ ps \in SUBSET Parcel
    BY DEF At, Members
  <2>2. Goes(c, j)
    BY <1>16 DEF LoadMembers
  <2> HIDE DEF ps
  <2>3. j \in Job /\ j.at = "pruning"
    BY <1>1, <2>1 DEF Job, Stage
  <2> HIDE DEF j
  <2> QED BY <2>2, <2>3
<1>7. ASSUME ReadGroup(c)
      PROVE  \E j \in Job : Goes(c, j) /\ j.at \in {"failed", "moving"}
  <2>1. PICK h \in {Hub[p] : p \in job[c].todo} :
          LET group == {p \in job[c].todo : Hub[p] = h} IN
          \/ Goes(c, [job[c] EXCEPT !.at = "failed"])
          \/ Goes(c, [job[c] EXCEPT !.at = "moving", !.todo = @ \ group,
                        !.batch = group \ At(group, "dispatched"), !.away = At(group, "off")])
    BY <1>7 DEF ReadGroup
  <2> DEFINE group == {p \in job[c].todo : Hub[p] = h}
  <2> DEFINE ps == group \ At(group, "dispatched")
  <2> DEFINE off == At(group, "off")
  <2> DEFINE j == [job[c] EXCEPT !.at = "moving", !.todo = @ \ group, !.batch = ps, !.away = off]
  <2> DEFINE failed == [job[c] EXCEPT !.at = "failed"]
  <2>2. group \in SUBSET Parcel /\ ps \in SUBSET Parcel /\ off \in SUBSET Parcel
    BY <1>1 DEF Job, At
  <2>3. Goes(c, failed) \/ Goes(c, j)
    BY <2>1
  <2> HIDE DEF group, ps, off
  <2>4. failed \in Job /\ failed.at = "failed" /\ j \in Job /\ j.at = "moving"
    BY <1>1, <2>2 DEF Job, Stage
  <2> HIDE DEF j, failed
  <2> QED BY <2>3, <2>4
<1>8. ASSUME CountOnRoad(c)
      PROVE  \E j \in Job : Goes(c, j) /\ j.at \in {"idle", "counted"}
  <2> DEFINE ps == At(job[c].batch, "dispatched")
  <2> DEFINE full == At(Members(job[c].m), "dispatched") \subseteq ps
  <2>1. ps \in SUBSET Parcel
    BY <1>1 DEF Job, At
  <2>2. [job[c] EXCEPT !.at = "counted", !.batch = ps, !.full = full] \in Job
    BY <1>1, <2>1 DEF Job, Stage
  <2>3. [job[c] EXCEPT !.at = "counted", !.batch = ps, !.full = full].at = "counted"
    BY <1>1 DEF Job, Stage
  <2> QED BY <1>1, <1>8, <2>2, <2>3 DEF CountOnRoad, Idle
<1>9. ASSUME DispatchFails(c) \/ Crash(c)
      PROVE  \E j \in Job : Goes(c, j) /\ j.at \in {"failed", "idle"}
  <2> DEFINE j == [job[c] EXCEPT !.at = "failed"]
  <2>1. j \in Job /\ j.at = "failed" /\ Idle.at = "idle"
    BY <1>1 DEF Job, Stage, Idle
  <2>2. Goes(c, j) \/ Goes(c, Idle)
    BY <1>9 DEF DispatchFails, Crash
  <2> HIDE DEF j
  <2> QED BY <1>1, <2>1, <2>2
<1>10. UNCHANGED <<rows, truck, left, orders, allowance>>
  <2>1. ASSUME LoadMembers(c) \/ ReadGroup(c) \/ CountOnRoad(c) \/ DispatchFails(c) \/ Crash(c)
        PROVE  UNCHANGED <<rows, truck, left, orders, allowance>>
    BY <2>1 DEF LoadMembers, ReadGroup, CountOnRoad, DispatchFails, Crash
  <2>2. ASSUME NEW m \in Manifest, NEW ps \in SUBSET Parcel, NEW op,
               Look(c, op, m, ps) \/ receiveTransitManifestParcels(c, m, ps)
        PROVE  UNCHANGED <<rows, truck, left, orders, allowance>>
    BY <2>2 DEF Look, receiveTransitManifestParcels
  <2>3. ASSUME NEW p \in Parcel, PickForCarrier(c, p) \/ ReadAlone(c, p)
        PROVE  UNCHANGED <<rows, truck, left, orders, allowance>>
    BY <2>3 DEF PickForCarrier, ReadAlone
  <2>4. ASSUME NEW ps \in SUBSET Parcel, ReadPlain(c, ps)
        PROVE  UNCHANGED <<rows, truck, left, orders, allowance>>
    BY <2>4 DEF ReadPlain
  <2> QED BY <2>1, <2>2, <2>3, <2>4 DEF Reads
<1>14. \A op \in {"add", "remove"} : op \in {"add", "remove", "delete"}
  OBVIOUS
<1>11. \E j \in Job : Goes(c, j) /\ \/ j.at \in {"add", "remove", "delete", "receiving", "sending", "resending",
                                                 "failed", "pruning", "moving", "idle", "counted"}
                                    \/ j.at = "picked" /\ \E p \in Parcel : j.batch = {p}
  BY <1>3, <1>4, <1>5, <1>6, <1>7, <1>8, <1>9, <1>14, <1>15, <1>16 DEF Reads
<1> QED BY <1>2, <1>10, <1>11

(* The jobs of requests that file: none of them is a claim. *)
LEMMA FilesOnly ==
  ASSUME Jobs, NEW c \in Clerk, Files(c)
  PROVE  /\ UNCHANGED <<status, truck, left, orders, allowance>>
         /\ Alone(c) /\ job' \in [Clerk -> Job]
         /\ job'[c].at \notin {"calling", "refused", "picked"}
<1>1. job[c] \in Job /\ Idle \in Job /\ Idle.at = "idle"
  BY DEF Jobs, Job, Stage, Idle
<1>2. ASSUME NEW j \in Job, Goes(c, j)
      PROVE  Alone(c) /\ job' \in [Clerk -> Job] /\ job'[c] = j
  BY <1>2 DEF Jobs, Goes, Alone
<1> DEFINE Done == \E j \in Job : Goes(c, j) /\ j.at \notin {"calling", "refused", "picked"}
<1>3. ASSUME NEW m \in Manifest, NEW ps \in SUBSET Parcel, resolveAutoTransitManifests(c, ps, m)
      PROVE  Done /\ UNCHANGED <<status, truck, left, orders, allowance>>
  <2> DEFINE j == [Idle EXCEPT !.at = "linking", !.op = "auto", !.m = m, !.todo = ps]
  <2>1. j \in Job /\ j.at = "linking"
    BY DEF Job, Stage, Idle
  <2>2. Goes(c, j) /\ UNCHANGED <<status, truck, left, orders, allowance>>
    BY <1>3 DEF resolveAutoTransitManifests
  <2> HIDE DEF j
  <2> QED BY <2>1, <2>2
<1>4. ASSUME NEW m \in Manifest, dispatchTransitManifest(c, m)
      PROVE  Done /\ UNCHANGED <<status, truck, left, orders, allowance>>
  <2> DEFINE j == [Idle EXCEPT !.at = "claimed", !.op = "dispatch", !.m = m]
  <2>1. j \in Job /\ j.at = "claimed"
    BY DEF Job, Stage, Idle
  <2>2. Goes(c, j) /\ UNCHANGED <<status, truck, left, orders, allowance>>
    BY <1>4 DEF dispatchTransitManifest
  <2> HIDE DEF j
  <2> QED BY <2>1, <2>2
<1>5. ASSUME PruneMembers(c)
      PROVE  Done /\ UNCHANGED <<status, truck, left, orders, allowance>>
  <2> DEFINE at == IF job[c].todo = {} THEN "failed" ELSE "loading"
  <2> DEFINE j == [job[c] EXCEPT !.at = at, !.batch = {}]
  <2>1. at \in {"failed", "loading"}
    OBVIOUS
  <2>2. Goes(c, j) /\ UNCHANGED <<status, truck, left, orders, allowance>>
    BY <1>5 DEF PruneMembers
  <2> HIDE DEF at
  <2>3. j \in Job /\ j.at \in {"failed", "loading"}
    BY <1>1, <2>1 DEF Job, Stage
  <2> HIDE DEF j
  <2> QED BY <2>2, <2>3
<1>6. ASSUME LinkAuto(c)
      PROVE  Done /\ UNCHANGED <<status, truck, left, orders, allowance>>
  <2> DEFINE j == [job[c] EXCEPT !.at = "loading"]
  <2>1. j \in Job /\ j.at = "loading"
    BY <1>1 DEF Job, Stage
  <2>2. (Goes(c, j) \/ Goes(c, Idle)) /\ UNCHANGED <<status, truck, left, orders, allowance>>
    BY <1>6 DEF LinkAuto
  <2> HIDE DEF j
  <2> QED BY <1>1, <2>1, <2>2
<1>7. ASSUME \/ addParcelsToTransitManifest(c) \/ removeParcelFromTransitManifest(c)
             \/ deleteTransitManifest(c) \/ ReopenManifest(c) \/ RecordHandoff(c)
      PROVE  Done /\ UNCHANGED <<status, truck, left, orders, allowance>>
  BY <1>1, <1>7 DEF addParcelsToTransitManifest, removeParcelFromTransitManifest,
                    deleteTransitManifest, ReopenManifest, RecordHandoff
<1>8. Done /\ UNCHANGED <<status, truck, left, orders, allowance>>
  BY <1>3, <1>4, <1>5, <1>6, <1>7 DEF Files
<1> QED BY <1>2, <1>8


(* A scanned link on a manifest under way; there is one at most. *)
Live(m, p) == manifest[m] \in LiveStatus /\ link[m][p] = "scan"
OneLive    == \A p \in Parcel : \A m, n \in Manifest : Live(m, p) /\ Live(n, p) => m = n

Papers ==
  /\ manifest \in [Manifest -> {"none", "open", "dispatched", "received"}]
  /\ link \in [Manifest -> [Parcel -> {"no", "scan", "auto"}]]
  /\ remark \in [Parcel -> BOOLEAN]
  /\ \A m \in Manifest : \A p \in Parcel : manifest[m] = "none" => link[m][p] = "no"

(* A manifest that closes, opens again or is new, on links that stay or go. *)
LEMMA Refiled ==
  ASSUME Papers, OneLive, UNCHANGED remark,
         manifest' \in [Manifest -> {"none", "open", "dispatched", "received"}],
         link' \in [Manifest -> [Parcel -> {"no", "scan", "auto"}]],
         \A m \in Manifest : \A p \in Parcel :
           /\ manifest'[m] = "none" => link'[m][p] = "no"
           /\ link'[m][p] = "scan" => link[m][p] = "scan"
           /\ link'[m][p] = "scan" /\ manifest'[m] \in LiveStatus => manifest[m] \in LiveStatus
  PROVE  Papers' /\ OneLive'
BY DEF Papers, OneLive, Live

(* What requests that file make of manifests and links. *)
LEMMA Filed ==
  ASSUME Papers, OneLive, NEW c \in Clerk, Files(c)
  PROVE  Papers' /\ OneLive'
<1> USE DEF LiveStatus
<1>1. manifest \in [Manifest -> {"none", "open", "dispatched", "received"}]
      /\ link \in [Manifest -> [Parcel -> {"no", "scan", "auto"}]]
  BY DEF Papers
<1>2. ASSUME NEW m \in Manifest,
             (\E ps : resolveAutoTransitManifests(c, ps, m)) \/ dispatchTransitManifest(c, m)
      PROVE  Papers' /\ OneLive'
  <2>1. UNCHANGED <<link, remark>> /\ \/ UNCHANGED manifest
                                      \/ manifest[m] = "none" /\ manifest' = [manifest EXCEPT ![m] = "open"]
                                      \/ manifest[m] = "open" /\ manifest' = [manifest EXCEPT ![m] = "dispatched"]
    BY <1>2 DEF resolveAutoTransitManifests, dispatchTransitManifest
  <2>2. \A n \in Manifest : manifest'[n] = manifest[n]
                            \/ (n = m /\ manifest[n] = "none" /\ manifest'[n] = "open")
                            \/ (n = m /\ manifest[n] = "open" /\ manifest'[n] = "dispatched")
    BY <1>1, <2>1
  <2>3. manifest' \in [Manifest -> {"none", "open", "dispatched", "received"}]
    BY <1>1, <2>1
  <2>4. \A n \in Manifest : \A p \in Parcel :
           /\ manifest'[n] = "none" => link'[n][p] = "no"
           /\ link'[n][p] = "scan" /\ manifest'[n] \in LiveStatus => manifest[n] \in LiveStatus
    BY <2>1, <2>2 DEF Papers
  <2> QED BY <1>1, <2>1, <2>3, <2>4, Refiled
<1>3. CASE addParcelsToTransitManifest(c)
  <2> DEFINE m == job[c].m
  <2>1. UNCHANGED <<manifest, remark>>
    BY <1>3 DEF addParcelsToTransitManifest
  <2>2. CASE UNCHANGED link
    BY <1>1, <2>1, <2>2, Refiled DEF Papers
  <2>3. CASE /\ manifest[m] # "none"
             /\ link' = [link EXCEPT ![m] = [p \in Parcel |->
                           IF p \in job[c].batch /\ ~OnLive(p) /\ @[p] = "no" THEN "scan" ELSE @[p]]]
    <3>1. link' \in [Manifest -> [Parcel -> {"no", "scan", "auto"}]]
      BY <1>1, <2>3
    <3>2. ASSUME NEW n \in Manifest, NEW p \in Parcel
          PROVE  link'[n][p] = link[n][p] \/ (n = m /\ ~OnLive(p))
      BY <1>1, <2>3
    <3>3. ASSUME NEW n \in Manifest, NEW p \in Parcel, Live(n, p)
          PROVE  OnLive(p)
      BY <3>3 DEF Live, OnLive, Members
    <3>4. OneLive'
      BY <2>1, <3>2, <3>3 DEF OneLive, Live
    <3>5. \A n \in Manifest : \A p \in Parcel : manifest'[n] = "none" => link'[n][p] = "no"
      BY <2>1, <2>3, <3>2 DEF Papers
    <3> QED BY <2>1, <3>1, <3>4, <3>5 DEF Papers
  <2> QED BY <1>3, <2>2, <2>3 DEF addParcelsToTransitManifest
<1>4. CASE removeParcelFromTransitManifest(c)
  <2>1. UNCHANGED <<manifest, remark>>
        /\ link' = [link EXCEPT ![job[c].m] = [p \in Parcel |-> IF p \in job[c].batch THEN "no" ELSE @[p]]]
    BY <1>4 DEF removeParcelFromTransitManifest
  <2>2. link' \in [Manifest -> [Parcel -> {"no", "scan", "auto"}]]
        /\ \A n \in Manifest : \A p \in Parcel : link'[n][p] \in {"no", link[n][p]}
    BY <1>1, <2>1
  <2> QED BY <1>1, <2>1, <2>2, Refiled DEF Papers
<1>5. CASE deleteTransitManifest(c)
  <2>1. /\ UNCHANGED remark
        /\ manifest' = [manifest EXCEPT ![job[c].m] = "none"]
        /\ link' = [link EXCEPT ![job[c].m] = [p \in Parcel |-> "no"]]
    BY <1>5 DEF deleteTransitManifest
  <2>2. /\ manifest' \in [Manifest -> {"none", "open", "dispatched", "received"}]
        /\ link' \in [Manifest -> [Parcel -> {"no", "scan", "auto"}]]
    BY <1>1, <2>1
  <2>3. ASSUME NEW n \in Manifest, NEW p \in Parcel
        PROVE  link'[n][p] = "no" \/ (link'[n][p] = link[n][p] /\ manifest'[n] = manifest[n])
    BY <1>1, <2>1
  <2> QED BY <2>1, <2>2, <2>3, Refiled DEF Papers
<1>6. CASE PruneMembers(c)
  <2>1. /\ UNCHANGED <<manifest, remark>>
        /\ link' = [link EXCEPT ![job[c].m] = [p \in Parcel |-> IF p \in job[c].batch THEN "no" ELSE @[p]]]
    BY <1>6 DEF PruneMembers
  <2>2. link' \in [Manifest -> [Parcel -> {"no", "scan", "auto"}]]
        /\ \A n \in Manifest : \A p \in Parcel : link'[n][p] \in {"no", link[n][p]}
    BY <1>1, <2>1
  <2> QED BY <1>1, <2>1, <2>2, Refiled DEF Papers
<1>7. CASE ReopenManifest(c)
  <2>1. /\ UNCHANGED <<link, remark>>
        /\ manifest' = [manifest EXCEPT
             ![job[c].m] = IF @ = "dispatched" /\ job[c].op = "dispatch" THEN "open" ELSE @]
    BY <1>7 DEF ReopenManifest
  <2>2. manifest' \in [Manifest -> {"none", "open", "dispatched", "received"}]
        /\ \A n \in Manifest : manifest'[n] = manifest[n]
                               \/ (manifest[n] = "dispatched" /\ manifest'[n] = "open")
    BY <1>1, <2>1
  <2> QED BY <1>1, <2>1, <2>2, Refiled DEF Papers
<1>8. CASE LinkAuto(c)
  <2> DEFINE m == job[c].m
  <2>1. UNCHANGED <<manifest, remark>>
    BY <1>8 DEF LinkAuto
  <2>2. CASE UNCHANGED link
    BY <1>1, <2>1, <2>2, Refiled DEF Papers
  <2>3. CASE /\ manifest[m] # "none"
             /\ link' = [link EXCEPT ![m] = [p \in Parcel |->
                           IF p \in job[c].todo /\ @[p] = "no" THEN "auto" ELSE @[p]]]
    <3>1. link' \in [Manifest -> [Parcel -> {"no", "scan", "auto"}]]
      BY <1>1, <2>3
    <3>2. ASSUME NEW n \in Manifest, NEW p \in Parcel
          PROVE  link'[n][p] = link[n][p] \/ (n = m /\ link'[n][p] = "auto")
      BY <1>1, <2>3
    <3>3. \A n \in Manifest : \A p \in Parcel : manifest'[n] = "none" => link'[n][p] = "no"
      BY <2>1, <2>3, <3>2 DEF Papers
    <3> QED BY <1>1, <2>1, <3>1, <3>2, <3>3, Refiled
  <2> QED BY <1>8, <2>2, <2>3 DEF LinkAuto
<1>9. CASE RecordHandoff(c)
  <2>1. /\ UNCHANGED manifest /\ link' = Evicted(job[c].batch, {"open"})
        /\ remark' = [p \in Parcel |-> remark[p] \/ p \in job[c].batch]
    BY <1>9 DEF RecordHandoff
  <2>2. link' \in [Manifest -> [Parcel -> {"no", "scan", "auto"}]]
        /\ \A n \in Manifest : \A p \in Parcel : link'[n][p] \in {"no", link[n][p]}
    BY <1>1, <2>1 DEF Evicted
  <2>3. remark' \in [Parcel -> BOOLEAN]
    BY <2>1 DEF Papers
  <2> QED BY <1>1, <2>1, <2>2, <2>3 DEF Papers, OneLive, Live
<1> QED BY <1>2, <1>3, <1>4, <1>5, <1>6, <1>7, <1>8, <1>9 DEF Files

-----------------------------------------------------------------------------
(* Where parcels are: one off the road has not departed since, one on a truck
   has. *)
Sites ==
  /\ status \in [Parcel -> {"oov", "dispatched", "off"}]
  /\ truck \in [Parcel -> Manifest \cup {None}]
  /\ left \in [Parcel -> Nat]
  /\ \A p \in Parcel : /\ left[p] <= 1
                       /\ status[p] # "dispatched" => left[p] = 0
                       /\ truck[p] # None => status[p] = "dispatched"

(* A parcel that departs waits no more, *)
LEMMA Departed ==
  ASSUME Sites, NEW ps \in SUBSET Parcel, NEW m \in Manifest \cup {None},
         \A p \in ps : status[p] # "dispatched", Departs(ps, m)
  PROVE  Sites' /\ \A p \in Parcel : status'[p] = IF p \in ps THEN "dispatched" ELSE status[p]
BY DEF Sites, Departs, Becomes

(* and one that returns is off the road. *)
LEMMA Returned ==
  ASSUME Sites, NEW ps \in SUBSET Parcel, NEW s \in {"oov", "off"}, Returns(ps, s)
  PROVE  Sites' /\ \A p \in Parcel : status'[p] = IF p \in ps THEN s ELSE status[p]
BY DEF Sites, Returns, Becomes

(* Requests that move parcels take no waiting one twice, and start no claim. *)
LEMMA Moved ==
  ASSUME Jobs, Papers, OneLive, Sites, NEW c \in Clerk, Moves(c)
  PROVE  /\ Papers' /\ OneLive' /\ Sites' /\ UNCHANGED <<orders, allowance>>
         /\ \A p \in Parcel : status'[p] = "oov" => status[p] = "oov"
         /\ Alone(c) /\ job' \in [Clerk -> Job]
         /\ job'[c].at \notin {"calling", "refused", "picked"}
<1> USE DEF LiveStatus
<1>1. job[c] \in Job /\ Idle \in Job /\ Idle.at = "idle"
  BY DEF Jobs, Job, Stage, Idle
<1>2. ASSUME NEW j \in Job, Goes(c, j)
      PROVE  Alone(c) /\ job' \in [Clerk -> Job] /\ job'[c] = j
  BY <1>2 DEF Jobs, Goes, Alone
<1>3. manifest \in [Manifest -> {"none", "open", "dispatched", "received"}]
      /\ link \in [Manifest -> [Parcel -> {"no", "scan", "auto"}]]
  BY DEF Papers
<1>4. CASE MoveGroup(c)
  <2>1. PICK kept \in SUBSET At(job[c].away, "off") :
          Leave(c, At(job[c].batch \ job[c].away, "oov") \cup kept)
    BY <1>4 DEF MoveGroup
  <2> DEFINE ps == At(job[c].batch \ job[c].away, "oov") \cup kept
  <2>9. ps \in SUBSET Parcel /\ (\A p \in ps : status[p] # "dispatched") /\ job[c].m \in Manifest \cup {None}
    BY <1>1 DEF At, Job
  <2>2. Departs(ps, job[c].m) /\ Goes(c, NextGroup(c)) /\ UNCHANGED <<link, remark, orders, allowance>>
        /\ manifest' = [n \in Manifest |-> IF n = job[c].m /\ manifest[n] = "open" /\ ps # {}
                                          THEN "dispatched" ELSE manifest[n]]
    BY <2>1 DEF Leave
  <2>3. Sites' /\ \A p \in Parcel : status'[p] = "oov" => status[p] = "oov"
    BY <2>9, <2>2, Departed
  <2>4. NextGroup(c) \in Job /\ NextGroup(c).at \in {"idle", "loading"}
    <3> DEFINE j == [job[c] EXCEPT !.at = "loading", !.batch = {}, !.away = {}]
    <3>1. j \in Job /\ j.at = "loading"
      BY <1>1 DEF Job, Stage
    <3>2. NextGroup(c) \in {Idle, j}
      BY DEF NextGroup
    <3> HIDE DEF j
    <3> QED BY <1>1, <3>1, <3>2
  <2>5. manifest' \in [Manifest -> {"none", "open", "dispatched", "received"}]
        /\ \A n \in Manifest : manifest'[n] = manifest[n]
                               \/ (manifest[n] = "open" /\ manifest'[n] = "dispatched")
    BY <1>3, <2>2
  <2>6. Papers' /\ OneLive'
    BY <1>3, <2>2, <2>5, Refiled DEF Papers
  <2>7. Alone(c) /\ job' \in [Clerk -> Job] /\ job'[c] = NextGroup(c)
    BY <1>2, <2>2, <2>4
  <2>8. UNCHANGED <<orders, allowance>>
    BY <2>2
  <2> QED BY <2>3, <2>4, <2>6, <2>7, <2>8
<1>5. CASE SendAlone(c)
  <2>1. Alone(c) /\ job' \in [Clerk -> Job] /\ job'[c].at = "idle"
    BY <1>1, <1>2, <1>5 DEF SendAlone
  <2>2. UNCHANGED <<manifest, remark, orders, allowance>>
    BY <1>5 DEF SendAlone
  <2>3. link' \in [Manifest -> [Parcel -> {"no", "scan", "auto"}]]
        /\ \A n \in Manifest : \A p \in Parcel : link'[n][p] \in {"no", link[n][p]}
    BY <1>3, <1>5 DEF SendAlone, Evicted
  <2>4. Papers' /\ OneLive'
    BY <1>3, <2>2, <2>3, Refiled DEF Papers
  <2>5. Sites' /\ \A p \in Parcel : status'[p] = "oov" => status[p] = "oov"
    <3>1. /\ Becomes(job[c].batch, "dispatched") /\ UNCHANGED left
          /\ truck' = [p \in Parcel |-> IF p \in job[c].batch THEN None ELSE truck[p]]
      BY <1>5 DEF SendAlone
    <3> QED BY <3>1 DEF Sites, Becomes
  <2> QED BY <2>1, <2>2, <2>4, <2>5
<1>6. CASE CommitReceive(c)
  <2>1. Alone(c) /\ job' \in [Clerk -> Job] /\ job'[c].at = "idle"
    BY <1>1, <1>2, <1>6 DEF CommitReceive
  <2>2. UNCHANGED <<link, remark, orders, allowance>>
    BY <1>6 DEF CommitReceive
  <2>3. manifest' \in [Manifest -> {"none", "open", "dispatched", "received"}]
        /\ \A n \in Manifest : manifest'[n] = manifest[n]
                               \/ (manifest[n] # "none" /\ manifest'[n] = "received")
    BY <1>3, <1>6 DEF CommitReceive
  <2>4. Papers' /\ OneLive'
    BY <1>3, <2>2, <2>3, Refiled DEF Papers
  <2>5. Sites' /\ \A p \in Parcel : status'[p] = "oov" => status[p] = "oov"
    BY <1>6 DEF Sites, CommitReceive
  <2> QED BY <2>1, <2>2, <2>4, <2>5
<1> QED BY <1>4, <1>5, <1>6 DEF Moves

-----------------------------------------------------------------------------
(* Claims can be counted. *)
LEMMA ClaimsCount ==
  ASSUME NEW p
  PROVE  /\ IsFiniteSet(Claims(p)) /\ Cardinality(Claims(p)) \in Nat
         /\ Cardinality(Claims(p)') \in Nat
<1>1. Claims(p) \in SUBSET Clerk /\ Claims(p)' \in SUBSET Clerk
  BY DEF Claims
<1> QED BY <1>1, DispatchAssumption, FS_Subset, FS_CardinalityType

(* A request that makes or gives up a claim changes their number by one. *)
LEMMA ClaimsAfter ==
  ASSUME NEW c \in Clerk, Alone(c), NEW p
  PROVE  Cardinality(Claims(p)') =
           IF Claim(job'[c], p) THEN IF Claim(job[c], p) THEN Cardinality(Claims(p))
                                     ELSE Cardinality(Claims(p)) + 1
           ELSE IF Claim(job[c], p) THEN Cardinality(Claims(p)) - 1
                ELSE Cardinality(Claims(p))
<1>1. c \in Claims(p) <=> Claim(job[c], p)
  BY DEF Claims
<1>2. CASE Claim(job'[c], p)
  <2>1. Claims(p)' = Claims(p) \cup {c}
    BY <1>2 DEF Alone, Claims, Claim
  <2> QED BY <1>1, <1>2, <2>1, ClaimsCount, FS_AddElement
<1>3. CASE ~Claim(job'[c], p)
  <2>1. Claims(p)' = Claims(p) \ {c}
    BY <1>3 DEF Alone, Claims, Claim
  <2> QED BY <1>1, <1>3, <2>1, ClaimsCount, FS_RemoveElement
<1> QED BY <1>2, <1>3

(* An order made, a claim that may still be answered, and a wait at the hub are
   each paid for by a stay or a lost answer. *)
Waits(p) == IF status[p] = "oov" THEN 1 ELSE 0
Paid ==
  /\ orders \in [Parcel -> Nat] /\ allowance \in [Parcel -> Nat]
  /\ \A p \in Parcel : orders[p] + Cardinality(Claims(p)) + Waits(p) <= allowance[p]

(* Whatever neither claims, nor puts a parcel back, nor hears from the carrier. *)
LEMMA PaidOn ==
  ASSUME Paid, UNCHANGED <<orders, allowance>>, NEW c \in Clerk, Alone(c),
         job'[c].at \notin {"calling", "refused"},
         \A p \in Parcel : status'[p] = "oov" => status[p] = "oov"
  PROVE  Paid'
<1>1. ASSUME NEW p \in Parcel
      PROVE  orders'[p] + Cardinality(Claims(p)') + Waits(p)' <= allowance'[p]
  <2>1. Cardinality(Claims(p)') <= Cardinality(Claims(p))
    BY ClaimsAfter, ClaimsCount DEF Claim
  <2>2. Waits(p)' <= Waits(p) /\ Waits(p) \in Nat /\ Waits(p)' \in Nat
    BY DEF Waits
  <2>3. /\ orders[p] + Cardinality(Claims(p)) + Waits(p) <= allowance[p]
        /\ orders[p] \in Nat /\ allowance[p] \in Nat
    BY DEF Paid
  <2> QED BY <2>1, <2>2, <2>3, ClaimsCount
<1> QED BY <1>1 DEF Paid

(* The handoff: its claim, the carrier's answer, and the way back. *)
LEMMA HandedOff ==
  ASSUME Jobs, Singly, Papers, OneLive, Sites, Paid, NEW c \in Clerk,
         ClaimForCarrier(c) \/ NcmAnswers(c) \/ HandoffFails(c) \/ ReleaseClaim(c)
  PROVE  /\ Papers' /\ OneLive' /\ Sites' /\ Paid'
         /\ Alone(c) /\ job' \in [Clerk -> Job] /\ job'[c].at # "picked"
<1> DEFINE ps == job[c].batch
<1> DEFINE n(p) == Cardinality(Claims(p))
<1>1. job[c] \in Job /\ Idle \in Job /\ Idle.at = "idle" /\ ps \in SUBSET Parcel
  BY DEF Jobs, Job, Stage, Idle
<1>2. ASSUME NEW j \in Job, Goes(c, j)
      PROVE  Alone(c) /\ job' \in [Clerk -> Job] /\ job'[c] = j
  BY <1>2 DEF Jobs, Goes, Alone
<1>3. ASSUME NEW at \in {"calling", "ordered", "refused"}, Goes(c, [job[c] EXCEPT !.at = at])
      PROVE  /\ Alone(c) /\ job' \in [Clerk -> Job] /\ job'[c].at = at /\ job'[c].batch = ps
             /\ \A p \in Parcel : Claim(job'[c], p) <=> at \in {"calling", "refused"} /\ p \in ps
  <2> DEFINE j == [job[c] EXCEPT !.at = at]
  <2>1. j \in Job /\ j.at = at /\ j.batch = ps
    BY <1>1 DEF Job, Stage
  <2>2. Goes(c, j)
    BY <1>3
  <2> HIDE DEF j
  <2>3. Alone(c) /\ job' \in [Clerk -> Job] /\ job'[c] = j
    BY <1>2, <2>1, <2>2
  <2> QED BY <2>1, <2>3 DEF Claim
<1>4. ASSUME NEW p \in Parcel
      PROVE  /\ orders[p] \in Nat /\ allowance[p] \in Nat /\ n(p) \in Nat /\ n(p)' \in Nat
             /\ orders[p] + n(p) + Waits(p) <= allowance[p]
  BY ClaimsCount DEF Paid
<1>5. CASE ClaimForCarrier(c)
  <2>1. PICK p0 \in Parcel : ps = {p0}
    BY <1>5 DEF ClaimForCarrier, Singly
  <2>2. UNCHANGED <<manifest, link, remark, orders, allowance>>
    BY <1>5 DEF ClaimForCarrier
  <2>3. CASE UNCHANGED <<status, truck, left>> /\ Goes(c, Idle)
    <3>1. Alone(c) /\ job' \in [Clerk -> Job] /\ job'[c].at = "idle"
      BY <1>1, <1>2, <2>3
    <3>2. Paid'
      BY <2>2, <2>3, <3>1, PaidOn
    <3> QED BY <2>2, <2>3, <3>1, <3>2 DEF Papers, OneLive, Live, Sites
  <2>4. CASE /\ At(ps, "oov") # {} /\ Departs(ps, None)
             /\ Goes(c, [job[c] EXCEPT !.at = "calling"])
    <3>1. status[p0] = "oov" /\ \A p \in ps : status[p] = "oov"
      BY <2>1, <2>4 DEF At
    <3>2. Sites' /\ \A p \in Parcel : status'[p] = IF p \in ps THEN "dispatched" ELSE status[p]
      BY <1>1, <2>4, <3>1, Departed
    <3>3. /\ Alone(c) /\ job' \in [Clerk -> Job] /\ job'[c].at = "calling"
          /\ \A p \in Parcel : Claim(job'[c], p) <=> p \in ps
      BY <1>3, <2>4
    <3>4. \A p : ~Claim(job[c], p)
      BY <1>5 DEF ClaimForCarrier, Doing, Claim
    <3>5. ASSUME NEW p \in Parcel
          PROVE  orders'[p] + n(p)' + Waits(p)' <= allowance'[p]
      <4>1. n(p)' = IF p \in ps THEN n(p) + 1 ELSE n(p)
        BY <3>3, <3>4, ClaimsAfter
      <4>2. Waits(p)' = IF p \in ps THEN 0 ELSE Waits(p)
        BY <3>2 DEF Waits
      <4>3. p \in ps => Waits(p) = 1
        BY <3>1 DEF Waits
      <4> QED BY <1>4, <2>2, <4>1, <4>2, <4>3 DEF Waits
    <3> QED BY <2>2, <3>2, <3>3, <3>5 DEF Papers, OneLive, Live, Paid
  <2> QED BY <1>5, <2>3, <2>4 DEF ClaimForCarrier
<1>6. CASE NcmAnswers(c)
  <2>1. UNCHANGED <<status, manifest, link, remark, truck, left, allowance>>
    BY <1>6 DEF NcmAnswers, rows
  <2>2. \A p \in Parcel : Claim(job[c], p) <=> p \in ps
    BY <1>6 DEF NcmAnswers, Doing, Claim
  <2>3. Papers' /\ OneLive' /\ Sites' /\ \A p \in Parcel : Waits(p)' = Waits(p)
    BY <2>1 DEF Papers, OneLive, Live, Sites, Waits
  <2>4. CASE /\ orders' = [p \in Parcel |-> IF p \in ps THEN orders[p] + 1 ELSE orders[p]]
             /\ Goes(c, [job[c] EXCEPT !.at = "ordered"])
    <3>1. /\ Alone(c) /\ job' \in [Clerk -> Job] /\ job'[c].at = "ordered"
          /\ \A p \in Parcel : ~Claim(job'[c], p)
      BY <1>3, <2>4
    <3>2. ASSUME NEW p \in Parcel
          PROVE  orders'[p] + n(p)' + Waits(p)' <= allowance'[p]
      <4>1. n(p)' = IF p \in ps THEN n(p) - 1 ELSE n(p)
        BY <2>2, <3>1, ClaimsAfter
      <4>2. orders'[p] = IF p \in ps THEN orders[p] + 1 ELSE orders[p]
        BY <2>4
      <4> QED BY <1>4, <2>1, <2>3, <4>1, <4>2 DEF Waits
    <3>3. orders' \in [Parcel -> Nat]
      BY <1>4, <2>4
    <3> QED BY <2>1, <2>3, <3>1, <3>2, <3>3 DEF Paid
  <2>5. CASE UNCHANGED orders /\ Goes(c, [job[c] EXCEPT !.at = "refused"])
    <3>1. /\ Alone(c) /\ job' \in [Clerk -> Job] /\ job'[c].at = "refused"
          /\ \A p \in Parcel : Claim(job'[c], p) <=> p \in ps
      BY <1>3, <2>5
    <3>2. \A p \in Parcel : n(p)' = n(p)
      BY <2>2, <3>1, ClaimsAfter
    <3> QED BY <2>1, <2>3, <2>5, <3>1, <3>2 DEF Paid
  <2> QED BY <1>6, <2>4, <2>5 DEF NcmAnswers
<1>7. CASE HandoffFails(c)
  <2>1. UNCHANGED <<status, manifest, link, remark, truck, left, orders>>
        /\ allowance' = [p \in Parcel |-> IF p \in ps THEN allowance[p] + 1 ELSE allowance[p]]
    BY <1>7 DEF HandoffFails, rows
  <2>2. Papers' /\ OneLive' /\ Sites' /\ \A p \in Parcel : Waits(p)' = Waits(p)
    BY <2>1 DEF Papers, OneLive, Live, Sites, Waits
  <2>3. /\ Alone(c) /\ job' \in [Clerk -> Job] /\ job'[c].at = "refused"
        /\ \A p \in Parcel : Claim(job'[c], p) <=> p \in ps
    BY <1>3, <1>7 DEF HandoffFails
  <2>4. \A p : ~Claim(job[c], p)
    BY <1>7 DEF HandoffFails, Doing, Claim
  <2>5. ASSUME NEW p \in Parcel
        PROVE  orders'[p] + n(p)' + Waits(p)' <= allowance'[p]
    <3>1. n(p)' = IF p \in ps THEN n(p) + 1 ELSE n(p)
      BY <2>3, <2>4, ClaimsAfter
    <3>2. allowance'[p] = IF p \in ps THEN allowance[p] + 1 ELSE allowance[p]
      BY <2>1
    <3> QED BY <1>4, <2>1, <2>2, <3>1, <3>2 DEF Waits
  <2>6. allowance' \in [Parcel -> Nat] /\ orders' \in [Parcel -> Nat]
    BY <1>4, <2>1 DEF Paid
  <2> QED BY <2>2, <2>3, <2>5, <2>6 DEF Paid
<1>8. CASE ReleaseClaim(c)
  <2>1. UNCHANGED <<manifest, link, remark, orders, allowance>>
        /\ Returns(At(ps, "dispatched"), "oov") /\ Goes(c, Idle)
    BY <1>8 DEF ReleaseClaim
  <2>2. Sites' /\ \A p \in Parcel : status'[p] = IF p \in At(ps, "dispatched") THEN "oov" ELSE status[p]
    <3>1. At(ps, "dispatched") \in SUBSET Parcel
      BY <1>1 DEF At
    <3> QED BY <2>1, <3>1, Returned
  <2>3. Alone(c) /\ job' \in [Clerk -> Job] /\ job'[c].at = "idle"
    BY <1>1, <1>2, <2>1
  <2>4. \A p \in Parcel : Claim(job[c], p) <=> p \in ps
    BY <1>8 DEF ReleaseClaim, Doing, Claim
  <2>5. ASSUME NEW p \in Parcel
        PROVE  orders'[p] + n(p)' + Waits(p)' <= allowance'[p]
    <3>1. n(p)' = IF p \in ps THEN n(p) - 1 ELSE n(p)
      BY <2>3, <2>4, ClaimsAfter DEF Claim
    <3>2. p \notin ps => Waits(p)' = Waits(p)
      BY <2>2 DEF At, Waits
    <3>3. Waits(p) \in {0, 1} /\ Waits(p)' \in {0, 1}
      BY DEF Waits
    <3> QED BY <1>4, <2>1, <3>1, <3>2, <3>3
  <2> QED BY <2>1, <2>2, <2>3, <2>5 DEF Papers, OneLive, Live, Paid
<1> QED BY <1>5, <1>6, <1>7, <1>8

(* Parcels that leave transit or come back, and new manifests. *)
LEMMA Elsewhere ==
  ASSUME Papers, OneLive, Sites, Paid,
         \/ \E m \in Manifest : createTransitManifest(m)
         \/ \E p \in Parcel : LeaveTransit(p) \/ EnterTransit(p)
  PROVE  Papers' /\ OneLive' /\ Sites' /\ Paid' /\ UNCHANGED job
<1> USE DEF LiveStatus
<1>1. manifest \in [Manifest -> {"none", "open", "dispatched", "received"}]
      /\ link \in [Manifest -> [Parcel -> {"no", "scan", "auto"}]]
  BY DEF Papers
<1>2. ASSUME NEW m \in Manifest, createTransitManifest(m)
      PROVE  Papers' /\ OneLive' /\ Sites' /\ Paid' /\ UNCHANGED job
  <2>1. UNCHANGED <<status, link, remark, job, truck, left, orders, allowance>>
        /\ manifest[m] = "none" /\ manifest' = [manifest EXCEPT ![m] = "open"]
    BY <1>2 DEF createTransitManifest
  <2>2. manifest' \in [Manifest -> {"none", "open", "dispatched", "received"}]
        /\ \A n \in Manifest : manifest'[n] = manifest[n] \/ (manifest[n] = "none" /\ manifest'[n] = "open")
    BY <1>1, <2>1
  <2>3. Papers' /\ OneLive'
    BY <1>1, <2>1, <2>2, Refiled DEF Papers
  <2> QED BY <2>1, <2>3 DEF Sites, Paid, Waits, Claims
<1>3. ASSUME NEW p \in Parcel, LeaveTransit(p) \/ EnterTransit(p)
      PROVE  Papers' /\ OneLive' /\ UNCHANGED <<job, orders>>
  <2>1. UNCHANGED <<manifest, remark, job, orders>>
    BY <1>3 DEF LeaveTransit, EnterTransit
  <2>2. link' \in [Manifest -> [Parcel -> {"no", "scan", "auto"}]]
        /\ \A n \in Manifest : \A q \in Parcel : link'[n][q] \in {"no", link[n][q]}
    BY <1>1, <1>3 DEF LeaveTransit, EnterTransit, Evicted
  <2> QED BY <1>1, <2>1, <2>2, Refiled DEF Papers
<1>4. ASSUME NEW p \in Parcel, LeaveTransit(p)
      PROVE  Sites' /\ Paid'
  <2>1. Sites' /\ \A q \in Parcel : status'[q] = IF q \in {p} THEN "off" ELSE status[q]
    BY <1>4, Returned DEF LeaveTransit
  <2>2. UNCHANGED <<job, orders, allowance>>
    BY <1>4 DEF LeaveTransit
  <2>3. ASSUME NEW q \in Parcel
        PROVE  orders'[q] + Cardinality(Claims(q)') + Waits(q)' <= allowance'[q]
    <3>1. Waits(q)' <= Waits(q) /\ Waits(q) \in Nat /\ Waits(q)' \in Nat
      BY <2>1 DEF Waits
    <3>2. Claims(q)' = Claims(q)
      BY <2>2 DEF Claims
    <3>3. /\ orders[q] + Cardinality(Claims(q)) + Waits(q) <= allowance[q]
          /\ orders[q] \in Nat /\ allowance[q] \in Nat
      BY DEF Paid
    <3> QED BY <2>2, <3>1, <3>2, <3>3, ClaimsCount
  <2> QED BY <2>1, <2>2, <2>3 DEF Paid
<1>5. ASSUME NEW p \in Parcel, EnterTransit(p)
      PROVE  Sites' /\ Paid'
  <2>1. Sites' /\ \A q \in Parcel : status'[q] = IF q \in {p} THEN "oov" ELSE status[q]
    BY <1>5, Returned DEF EnterTransit
  <2>2. UNCHANGED <<job, orders>> /\ status[p] = "off" /\ allowance' = [allowance EXCEPT ![p] = @ + 1]
    BY <1>5 DEF EnterTransit
  <2>3. ASSUME NEW q \in Parcel
        PROVE  allowance'[q] \in Nat /\ orders'[q] + Cardinality(Claims(q)') + Waits(q)' <= allowance'[q]
    <3>1. Claims(q)' = Claims(q)
      BY <2>2 DEF Claims
    <3>2. /\ orders[q] + Cardinality(Claims(q)) + Waits(q) <= allowance[q]
          /\ orders[q] \in Nat /\ allowance[q] \in Nat
      BY DEF Paid
    <3>3. allowance'[q] = IF q = p THEN allowance[q] + 1 ELSE allowance[q]
      BY <2>2 DEF Paid
    <3>4. Waits(q)' = IF q = p THEN 1 ELSE Waits(q)
      BY <2>1 DEF Waits
    <3>5. q = p => Waits(q) = 0
      BY <2>2 DEF Waits
    <3>6. Waits(q) \in Nat
      BY DEF Waits
    <3> QED BY <2>2, <3>1, <3>2, <3>3, <3>4, <3>5, <3>6, ClaimsCount
  <2>4. allowance' \in [Parcel -> Nat]
    BY <2>2 DEF Paid
  <2> QED BY <2>1, <2>2, <2>3, <2>4 DEF Paid
<1> QED BY <1>2, <1>3, <1>4, <1>5

-----------------------------------------------------------------------------
(* The inductive invariant. *)
Inductive == Jobs /\ Singly /\ Papers /\ OneLive /\ Sites /\ Paid

(* It holds at first, *)
LEMMA Initially == Init => Inductive
<1> SUFFICES ASSUME Init PROVE Inductive
  OBVIOUS
<1>1. Jobs /\ Singly
  BY DEF Init, Jobs, Singly, Doing, Job, Stage, Idle
<1>2. Papers /\ OneLive
  BY DEF Init, Papers, OneLive, Live
<1>3. Sites
  BY DEF Init, Sites
<1>4. Paid
  <2>1. ASSUME NEW p \in Parcel
        PROVE  Cardinality(Claims(p)) = 0
    <3>1. Claims(p) = {}
      BY DEF Init, Claims, Claim, Idle
    <3> QED BY <3>1, FS_EmptySet
  <2> QED BY <2>1 DEF Init, Paid, Waits
<1> QED BY <1>1, <1>2, <1>3, <1>4 DEF Inductive

(* and every step keeps it. *)
LEMMA Kept == Inductive /\ [Next]_vars => Inductive'
<1> SUFFICES ASSUME Inductive, [Next]_vars PROVE Inductive'
  OBVIOUS
<1> USE DEF Inductive
<1>1. ASSUME NEW c \in Clerk, Alone(c), job'[c].at = "picked" => \E p \in Parcel : job'[c].batch = {p}
      PROVE  Singly'
  BY <1>1 DEF Singly, Doing, Alone
<1>2. ASSUME NEW c \in Clerk, Reads(c)
      PROVE  Inductive'
  <2>1. Jobs' /\ Singly'
    BY <1>1, <1>2, ReadsOnly DEF Jobs
  <2>2. UNCHANGED <<status, manifest, link, remark, truck, left, orders, allowance>> /\ Alone(c)
        /\ job'[c].at \notin {"calling", "refused"}
    BY <1>2, ReadsOnly DEF rows
  <2>3. Paid'
    BY <2>2, PaidOn
  <2> QED BY <2>1, <2>2, <2>3 DEF Papers, OneLive, Live, Sites
<1>3. ASSUME NEW c \in Clerk, Files(c)
      PROVE  Inductive'
  <2>1. Jobs' /\ Singly'
    BY <1>1, <1>3, FilesOnly DEF Jobs
  <2>2. UNCHANGED <<status, truck, left, orders, allowance>> /\ Alone(c)
        /\ job'[c].at \notin {"calling", "refused"}
    BY <1>3, FilesOnly
  <2>3. Paid'
    BY <2>2, PaidOn
  <2>4. Papers' /\ OneLive'
    BY <1>3, Filed
  <2> QED BY <2>1, <2>2, <2>3, <2>4 DEF Sites
<1>4. ASSUME NEW c \in Clerk, Moves(c)
      PROVE  Inductive'
  <2>1. Jobs' /\ Singly'
    BY <1>1, <1>4, Moved DEF Jobs
  <2>2. Paid'
    BY <1>4, Moved, PaidOn
  <2> QED BY <1>4, <2>1, <2>2, Moved
<1>5. ASSUME NEW c \in Clerk, ClaimForCarrier(c) \/ NcmAnswers(c) \/ HandoffFails(c) \/ ReleaseClaim(c)
      PROVE  Inductive'
  BY <1>1, <1>5, HandedOff DEF Jobs
<1>6. ASSUME \/ \E m \in Manifest : createTransitManifest(m)
             \/ \E p \in Parcel : LeaveTransit(p) \/ EnterTransit(p)
      PROVE  Inductive'
  BY <1>6, Elsewhere DEF Jobs, Singly, Doing
<1>7. CASE UNCHANGED vars
  BY <1>7 DEF vars, rows, Jobs, Singly, Doing, Papers, OneLive, Live, Sites, Paid, Waits, Claims
<1> QED BY <1>2, <1>3, <1>4, <1>5, <1>6, <1>7, Steps

(* Rows keep their types, a link has a manifest, and a parcel that is not on the
   road is on no truck. *)
THEOREM TypesHold == Spec => []TypeOK
<1>1. Inductive => TypeOK
  BY DEF Inductive, Papers, Sites, TypeOK, Members
<1> QED BY <1>1, Initially, Kept, PTL DEF Spec

(* However scans, removals, deletions, dispatches and receives of any number of
   manifests interleave, scanning puts a parcel on one live manifest at most. *)
THEOREM OneScanManifestHolds == Spec => []OneScanManifest
<1>1. Inductive => OneScanManifest
  <2> SUFFICES ASSUME Inductive, NEW p \in Parcel
               PROVE  Cardinality({m \in Manifest : manifest[m] \in LiveStatus /\ link[m][p] = "scan"}) <= 1
    BY DEF OneScanManifest
  <2> DEFINE S == {m \in Manifest : manifest[m] \in LiveStatus /\ link[m][p] = "scan"}
  <2>1. CASE S = {}
    BY <2>1, FS_EmptySet
  <2>2. CASE S # {}
    <3>1. PICK m \in S : TRUE
      BY <2>2
    <3>2. S = {m}
      BY <3>1 DEF Inductive, OneLive, Live
    <3>3. Cardinality({m}) = 1
      BY FS_Singleton
    <3>4. Cardinality(S) = 1
      BY <3>2, <3>3
    <3> QED BY <3>4
  <2> QED BY <2>1, <2>2
<1> QED BY <1>1, Initially, Kept, PTL DEF Spec

(* Whichever manifests, branches and handoffs race for a parcel, and whoever may
   force its status, a parcel on the road is not dispatched again before it has
   come off it. *)
THEOREM DepartsOnceAWait == Spec => []DepartsOnce
<1>1. Inductive => DepartsOnce
  BY DEF Inductive, Sites, DepartsOnce
<1> QED BY <1>1, Initially, Kept, PTL DEF Spec

(* Two orders at the carrier for one stay at the hub need a lost answer, or one
   that could not be recorded. *)
THEOREM OrdersPaidFor == Spec => []OrdersAccounted
<1>1. Inductive => OrdersAccounted
  <2> SUFFICES ASSUME Inductive, NEW p \in Parcel PROVE orders[p] <= allowance[p]
    BY DEF OrdersAccounted
  <2>1. orders[p] \in Nat /\ allowance[p] \in Nat
        /\ orders[p] + Cardinality(Claims(p)) + Waits(p) <= allowance[p]
    BY DEF Inductive, Paid
  <2> QED BY <2>1, ClaimsCount DEF Waits
<1> QED BY <1>1, Initially, Kept, PTL DEF Spec
=============================================================================
