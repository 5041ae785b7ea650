-------------------------- MODULE PartnerApiProofs --------------------------
(***************************************************************************)
(* Proofs about PartnerApi, for any number of keys, requests, events and   *)
(* processes and any limits: types hold, executions are accounted for by   *)
(* lost protections, and nothing is given up too early.                    *)
(*                                                                         *)
(* Executions are counted with tokens: an execution made, a request that   *)
(* may still execute, and the possibility of one more to start each hold   *)
(* one, and a new token is paid for by a lapse.                            *)
(***************************************************************************)
EXTENDS PartnerApi, FiniteSetTheorems, TLAPS

Begun == [at : {"missed", "running", "written", "failed"}, key : Key]

(* A request that may still execute or has failed to. *)
Flies(r, k) == r.at \in {"running", "failed"} /\ r.key = k
InFlight(k) == {c \in Call : Flies(call[c], k)}

(* A request may still come and execute. *)
Free(k) ==
  \/ k \notin lock /\ (k \notin cached \/ Missed(k))
  \/ k \in lock /\ k \notin cached /\ ~Running(k)

Covered(k) ==
  runs[k] + Cardinality(InFlight(k)) + (IF Free(k) THEN 1 ELSE 0) <= 1 + lapses[k]
Tokens == \A k \in Key : Covered(k)

(* The executions of PartnerApi with whatever else happens to a request. *)
IdemStep == IdemNext \/ (\E c \in Call : Execute(c)) \/ UNCHANGED idemVars

-----------------------------------------------------------------------------
(* What a request holds depends on how far it is. *)
LEMMA CallRows ==
  ASSUME IdemTypeOK, NEW c \in Call
  PROVE  /\ call[c] \in Begun \cup {Off}
         /\ call[c].at # "idle" => call[c] \in Begun /\ call[c].key \in Key
         /\ call[c].at = "idle" => call[c] = Off
BY DEF IdemTypeOK, Begun, Off

Alone(c) == \A d \in Call \ {c} : call'[d] = call[d]

(* A request goes a step further, or leaves. *)
LEMMA StepOrLeave ==
  ASSUME IdemTypeOK, NEW c \in Call, call[c].at # "idle"
  PROVE  /\ \A at \in {"missed", "running", "written", "failed"} : Step(c, at) =>
              /\ call' \in [Call -> Begun \cup {Off}] /\ Alone(c)
              /\ call'[c].at = at /\ call'[c].key = call[c].key
         /\ Leave(c) => /\ call' \in [Call -> Begun \cup {Off}] /\ Alone(c)
                        /\ call'[c].at = "idle"
<1>1. call[c] \in Begun /\ call \in [Call -> Begun \cup {Off}]
  BY CallRows DEF IdemTypeOK, Begun
<1>2. ASSUME NEW at \in {"missed", "running", "written", "failed"}, Step(c, at)
      PROVE  /\ call' \in [Call -> Begun \cup {Off}] /\ Alone(c)
             /\ call'[c].at = at /\ call'[c].key = call[c].key
  <2>1. [call[c] EXCEPT !.at = at] \in Begun /\ [call[c] EXCEPT !.at = at].at = at
        /\ [call[c] EXCEPT !.at = at].key = call[c].key
    BY <1>1 DEF Begun
  <2> QED BY <1>1, <1>2, <2>1 DEF Step, Alone
<1>3. ASSUME Leave(c)
      PROVE  call' \in [Call -> Begun \cup {Off}] /\ Alone(c) /\ call'[c].at = "idle"
  BY <1>1, <1>3 DEF Leave, Alone, Off
<1> QED BY <1>2, <1>3

(* A request comes that finds no response. *)
LEMMA Missing ==
  ASSUME IdemTypeOK, NEW c \in Call, NEW k \in Key, call[c].at = "idle", Misses(c, k)
  PROVE  /\ call' \in [Call -> Begun \cup {Off}] /\ Alone(c)
         /\ call'[c].at = "missed" /\ call'[c].key = k
<1>1. [at |-> "missed", key |-> k] \in Begun
  BY DEF Begun
<1> QED BY <1>1 DEF IdemTypeOK, Misses, Alone, Begun

(* Every step on a request keeps the types. *)
LEMMA IdemTypes ==
  ASSUME IdemTypeOK, IdemStep
  PROVE  IdemTypeOK'
<1>0. ASSUME NEW k \in Key, Lapse(k)
      PROVE  lapses' \in [Key -> 0 .. MaxLapses]
  BY <1>0, IdempotencyAssumption DEF IdemTypeOK, Lapse
<1> USE DEF At
<1>1. ASSUME NEW c \in Call, NEW k \in Key, Look(c, k) \/ LookWithoutRedis(c, k)
      PROVE  IdemTypeOK'
  BY <1>0, <1>1, Missing DEF IdemTypeOK, Look, LookWithoutRedis, Begun
<1>2. ASSUME NEW c \in Call, Acquire(c) \/ AcquireWithoutRedis(c) \/ FnFails(c)
      PROVE  IdemTypeOK'
  BY <1>0, <1>2, CallRows, StepOrLeave DEF IdemTypeOK, Acquire, AcquireWithoutRedis, FnFails, Begun
<1>3. ASSUME NEW c \in Call, Execute(c)
      PROVE  IdemTypeOK'
  <2>1. call[c].key \in Key /\ runs' \in [Key -> Nat]
    BY <1>3, CallRows DEF IdemTypeOK, Execute
  <2> QED BY <1>0, <1>3, <2>1, StepOrLeave DEF IdemTypeOK, Execute, Begun
<1>4. ASSUME NEW c \in Call,
             Answer(c) \/ AnswerWithoutRedis(c) \/ Release(c) \/ CallCrashes(c)
      PROVE  IdemTypeOK'
  BY <1>0, <1>4, CallRows, StepOrLeave
  DEF IdemTypeOK, Answer, AnswerWithoutRedis, Release, CallCrashes, Begun
<1>5. ASSUME NEW k \in Key, LockExpires(k) \/ ResponseExpires(k)
      PROVE  IdemTypeOK'
  BY <1>0, <1>5 DEF IdemTypeOK, LockExpires, ResponseExpires
<1>6. CASE UNCHANGED idemVars
  BY <1>6 DEF IdemTypeOK, idemVars
<1> QED BY <1>1, <1>2, <1>3, <1>4, <1>5, <1>6 DEF IdemStep, IdemNext

(* The requests in flight can be counted. *)
LEMMA Flight ==
  ASSUME NEW k
  PROVE  /\ IsFiniteSet(InFlight(k)) /\ Cardinality(InFlight(k)) \in Nat
         /\ Cardinality(InFlight(k)') \in Nat
<1>1. InFlight(k) \in SUBSET Call /\ InFlight(k)' \in SUBSET Call
  BY DEF InFlight
<1> QED BY <1>1, IdempotencyAssumption, FS_Subset, FS_CardinalityType

(* A request that starts or ends a flight changes the count by one. *)
LEMMA FlightAfter ==
  ASSUME NEW c \in Call, Alone(c), NEW k
  PROVE  Cardinality(InFlight(k)') =
           IF Flies(call'[c], k) THEN IF Flies(call[c], k) THEN Cardinality(InFlight(k))
                                      ELSE Cardinality(InFlight(k)) + 1
           ELSE IF Flies(call[c], k) THEN Cardinality(InFlight(k)) - 1
                ELSE Cardinality(InFlight(k))
<1>1. c \in InFlight(k) <=> Flies(call[c], k)
  BY DEF InFlight
<1>2. CASE Flies(call'[c], k)
  <2>1. InFlight(k)' = InFlight(k) \cup {c}
    BY <1>2 DEF Alone, InFlight, Flies
  <2> QED BY <1>1, <1>2, <2>1, Flight, FS_AddElement
<1>3. CASE ~Flies(call'[c], k)
  <2>1. InFlight(k)' = InFlight(k) \ {c}
    BY <1>3 DEF Alone, InFlight, Flies
  <2> QED BY <1>1, <1>3, <2>1, Flight, FS_RemoveElement
<1> QED BY <1>2, <1>3

(* No step makes a token but a lapse. *)
LEMMA TokensHeld ==
  ASSUME IdemTypeOK, IdemTypeOK', Tokens, IdemStep
  PROVE  Tokens'
<1> SUFFICES ASSUME NEW k \in Key PROVE Covered(k)'
  BY DEF Tokens
<1> DEFINE n == Cardinality(InFlight(k))
<1>0. /\ runs[k] \in Nat /\ lapses[k] \in Nat /\ n \in Nat /\ n' \in Nat
      /\ runs[k] + n + (IF Free(k) THEN 1 ELSE 0) <= 1 + lapses[k]
  BY Flight DEF IdemTypeOK, Tokens, Covered
<1> SUFFICES runs'[k] + n' + (IF Free(k)' THEN 1 ELSE 0) <= 1 + lapses'[k]
  BY DEF Covered
<1>1. ASSUME UNCHANGED call
      PROVE  n' = n /\ Running(k)' = Running(k) /\ Missed(k)' = Missed(k)
  BY <1>1 DEF InFlight, Running, Missed, At
<1>2. ASSUME NEW j \in Key, Lapse(j)
      PROVE  lapses'[k] = IF j = k THEN lapses[k] + 1 ELSE lapses[k]
  BY <1>2 DEF Lapse, IdemTypeOK
<1>3. ASSUME NEW c \in Call, NEW j \in Key, Look(c, j) \/ LookWithoutRedis(c, j)
      PROVE  runs'[k] + n' + (IF Free(k)' THEN 1 ELSE 0) <= 1 + lapses'[k]
  <2>1. CASE UNCHANGED call
    <3>1. CASE Look(c, j)
      BY <1>0, <1>1, <2>1, <3>1 DEF Look, Free
    <3>2. CASE LookWithoutRedis(c, j)
      BY <1>0, <1>1, <1>2, <2>1, <3>2 DEF LookWithoutRedis, Free
    <3> QED BY <1>3, <3>1, <3>2
  <2>2. CASE Misses(c, j)
    <3>1. Alone(c) /\ call'[c].at = "missed" /\ call'[c].key = j /\ call[c].at = "idle"
      BY <1>3, <2>2, Missing DEF Look, LookWithoutRedis, At
    <3>2. n' = n
      BY <3>1, FlightAfter DEF Flies
    <3>3. Running(k)' = Running(k) /\ (Missed(k)' => Missed(k) \/ k = j)
      BY <3>1 DEF Alone, Running, Missed, At
    <3>4. CASE Look(c, j)
      <4>1. j \notin cached \/ UNCHANGED call
        BY <3>4 DEF Look
      <4>2. CASE UNCHANGED call
        BY <1>0, <1>1, <3>4, <4>2 DEF Look, Free
      <4>3. CASE j \notin cached
        BY <1>0, <3>2, <3>3, <3>4, <4>3 DEF Look, Free
      <4> QED BY <4>1, <4>2, <4>3
    <3>5. CASE LookWithoutRedis(c, j)
      BY <1>0, <1>2, <3>2, <3>3, <3>5 DEF LookWithoutRedis, Free
    <3> QED BY <1>3, <3>4, <3>5
  <2> QED BY <1>3, <2>1, <2>2 DEF Look, LookWithoutRedis
<1>4. ASSUME NEW c \in Call, At(c, "missed"), Step(c, "running")
      PROVE  /\ n' = IF call[c].key = k THEN n + 1 ELSE n
             /\ Running(k)' <=> Running(k) \/ call[c].key = k
             /\ Missed(k)' => Missed(k)
             /\ call[c].key = k => Missed(k)
  <2>1. Alone(c) /\ call[c].at = "missed" /\ call'[c].at = "running" /\ call'[c].key = call[c].key
    BY <1>4, StepOrLeave DEF At
  <2>2. n' = IF call[c].key = k THEN n + 1 ELSE n
    BY <2>1, FlightAfter DEF Flies
  <2> QED BY <2>1, <2>2 DEF Alone, Running, Missed, At
<1>5. ASSUME NEW c \in Call, call[c].at # "idle", Leave(c)
      PROVE  /\ n' = IF call[c].at \in {"running", "failed"} /\ call[c].key = k THEN n - 1 ELSE n
             /\ Running(k) => \/ Running(k)'
                              \/ call[c].key = k /\ call[c].at \in {"running", "written", "failed"}
             /\ Running(k)' => Running(k)
             /\ Missed(k)' => Missed(k)
  <2>1. Alone(c) /\ call'[c].at = "idle"
    BY <1>5, StepOrLeave
  <2>2. n' = IF call[c].at \in {"running", "failed"} /\ call[c].key = k THEN n - 1 ELSE n
    BY <2>1, FlightAfter DEF Flies
  <2> QED BY <2>1, <2>2 DEF Alone, Running, Missed, At
<1>6. ASSUME NEW c \in Call, Acquire(c)
      PROVE  runs'[k] + n' + (IF Free(k)' THEN 1 ELSE 0) <= 1 + lapses'[k]
  <2>1. CASE call[c].key \in lock
    BY <1>0, <1>5, <1>6, <2>1 DEF Acquire, Free, At
  <2>2. CASE call[c].key \notin lock
    BY <1>0, <1>4, <1>6, <2>2 DEF Acquire, Free, At
  <2> QED BY <2>1, <2>2
<1>7. ASSUME NEW c \in Call, AcquireWithoutRedis(c)
      PROVE  runs'[k] + n' + (IF Free(k)' THEN 1 ELSE 0) <= 1 + lapses'[k]
  <2>1. lapses'[k] = IF call[c].key = k THEN lapses[k] + 1 ELSE lapses[k]
    BY <1>2, <1>7, CallRows DEF AcquireWithoutRedis, At
  <2> QED BY <1>0, <1>4, <1>7, <2>1 DEF AcquireWithoutRedis, Free
<1>8. ASSUME NEW c \in Call, Execute(c)
      PROVE  runs'[k] + n' + (IF Free(k)' THEN 1 ELSE 0) <= 1 + lapses'[k]
  <2>1. call[c].at = "running" /\ call[c].key \in Key
    BY <1>8, CallRows DEF Execute, At
  <2>2. runs'[k] = IF call[c].key = k THEN runs[k] + 1 ELSE runs[k]
    BY <1>8, <2>1 DEF IdemTypeOK, Execute
  <2>3. PICK at \in {"written", "failed"} :
          /\ Step(c, at)
          /\ IF at = "failed" THEN Lapse(call[c].key) ELSE UNCHANGED lapses
    BY <1>8 DEF Execute
  <2>4. Alone(c) /\ call'[c].at = at /\ call'[c].key = call[c].key
    BY <2>1, <2>3, StepOrLeave
  <2>5. n' = IF at = "written" /\ call[c].key = k THEN n - 1 ELSE n
    BY <2>1, <2>4, FlightAfter DEF Flies
  <2>6. Running(k)' = Running(k) /\ Missed(k)' = Missed(k)
    BY <2>1, <2>4 DEF Alone, Running, Missed, At
  <2>7. Free(k)' = Free(k)
    BY <1>8, <2>6 DEF Execute, Free
  <2>8. lapses'[k] = IF at = "failed" /\ call[c].key = k THEN lapses[k] + 1 ELSE lapses[k]
    BY <1>2, <2>1, <2>3
  <2> QED BY <1>0, <2>2, <2>5, <2>7, <2>8
<1>9. ASSUME NEW c \in Call, FnFails(c)
      PROVE  runs'[k] + n' + (IF Free(k)' THEN 1 ELSE 0) <= 1 + lapses'[k]
  <2>1. /\ Alone(c) /\ call[c].at = "running" /\ call'[c].at = "failed"
        /\ call'[c].key = call[c].key
    BY <1>9, StepOrLeave DEF FnFails, At
  <2>2. n' = n
    BY <2>1, FlightAfter DEF Flies
  <2>3. Running(k)' = Running(k) /\ Missed(k)' = Missed(k)
    BY <2>1 DEF Alone, Running, Missed, At
  <2> QED BY <1>0, <1>9, <2>2, <2>3 DEF FnFails, Free
<1>10. ASSUME NEW c \in Call, Answer(c)
       PROVE  runs'[k] + n' + (IF Free(k)' THEN 1 ELSE 0) <= 1 + lapses'[k]
  BY <1>0, <1>5, <1>10 DEF Answer, Free, At
<1>11. ASSUME NEW c \in Call, At(c, "written"), Lapse(call[c].key), Leave(c),
              UNCHANGED <<cached, lock, runs>>
       PROVE  runs'[k] + n' + (IF Free(k)' THEN 1 ELSE 0) <= 1 + lapses'[k]
  <2>1. lapses'[k] = IF call[c].key = k THEN lapses[k] + 1 ELSE lapses[k]
    BY <1>2, <1>11, CallRows DEF At
  <2>2. n' = n
    BY <1>5, <1>11 DEF At
  <2>3. CASE call[c].key = k
    BY <1>0, <1>11, <2>1, <2>2, <2>3
  <2>4. CASE call[c].key # k
    <3>1. Free(k)' => Free(k)
      BY <1>5, <1>11, <2>4 DEF Free, At
    <3> QED BY <1>0, <1>11, <2>1, <2>2, <2>4, <3>1
  <2> QED BY <2>3, <2>4
<1>12. ASSUME NEW c \in Call, Release(c)
       PROVE  runs'[k] + n' + (IF Free(k)' THEN 1 ELSE 0) <= 1 + lapses'[k]
  BY <1>0, <1>5, <1>12 DEF Release, At, Free
<1>13. ASSUME NEW c \in Call, CallCrashes(c), ~At(c, "written")
       PROVE  runs'[k] + n' + (IF Free(k)' THEN 1 ELSE 0) <= 1 + lapses'[k]
  <2>1. Leave(c) /\ UNCHANGED <<cached, lock, runs, lapses>> /\ call[c].at # "idle"
    BY <1>13 DEF CallCrashes, At
  <2>2. CASE call[c].at \in {"running", "failed"} /\ call[c].key = k
    BY <1>0, <1>5, <2>1, <2>2
  <2>3. CASE ~(call[c].at \in {"running", "failed"} /\ call[c].key = k)
    <3>1. n' = n
      BY <1>5, <2>1, <2>3
    <3>2. Free(k)' => Free(k)
      BY <1>5, <1>13, <2>1, <2>3 DEF Free, At
    <3> QED BY <1>0, <2>1, <3>1, <3>2
  <2> QED BY <2>2, <2>3
<1>14. ASSUME NEW j \in Key, LockExpires(j) \/ ResponseExpires(j)
       PROVE  runs'[k] + n' + (IF Free(k)' THEN 1 ELSE 0) <= 1 + lapses'[k]
  <2>1. CASE LockExpires(j)
    BY <1>0, <1>1, <1>2, <2>1 DEF LockExpires, Free
  <2>2. CASE ResponseExpires(j)
    BY <1>0, <1>1, <1>2, <2>2 DEF ResponseExpires, Free
  <2> QED BY <1>14, <2>1, <2>2
<1>15. CASE UNCHANGED idemVars
  BY <1>0, <1>1, <1>15 DEF idemVars, Free
<1>16. ASSUME NEW c \in Call, AnswerWithoutRedis(c) \/ CallCrashes(c)
       PROVE  runs'[k] + n' + (IF Free(k)' THEN 1 ELSE 0) <= 1 + lapses'[k]
  BY <1>11, <1>13, <1>16 DEF AnswerWithoutRedis, CallCrashes
<1> QED
  BY <1>3, <1>6, <1>7, <1>8, <1>9, <1>10, <1>12, <1>14, <1>15, <1>16 DEF IdemStep, IdemNext

LEMMA RunsCounted ==
  ASSUME IdemTypeOK, Tokens
  PROVE  RunsAccounted
<1> SUFFICES ASSUME NEW k \in Key PROVE runs[k] <= 1 + lapses[k]
  BY DEF RunsAccounted
<1>1. runs[k] \in Nat /\ lapses[k] \in Nat /\ Cardinality(InFlight(k)) \in Nat
  BY Flight DEF IdemTypeOK
<1> QED BY <1>1 DEF Tokens, Covered

-----------------------------------------------------------------------------
(* The webhooks. *)
Task == [at : {"read", "ok", "failed", "exhausted", "tripping"}, attempts : 0 .. MAX_ATTEMPTS - 1]
Row  == [status : {"pending"}, due : BOOLEAN, attempts : 0 .. MAX_ATTEMPTS - 1]
        \cup [status : {"none", "succeeded", "failed"}]

Worked(p, e) == e \in DOMAIN sweep[p].work

SweepTypes == sweep \in [Process -> [open : BOOLEAN, work : UNION {[es -> Task] : es \in SUBSET Event}]]

HookTypes ==
  /\ endpoint \in [exists : BOOLEAN, on : BOOLEAN, failures : 0 .. CIRCUIT_BREAKER_THRESHOLD]
  /\ delivery \in [Event -> Row]
  /\ tries \in [Event -> 0 .. MAX_ATTEMPTS]
  /\ retried \in [Event -> 0 .. MaxRetries]
  /\ SweepTypes

(* A count of attempts, in a row or in a sweep, is never ahead of the attempts
   made; that of a failed request is behind by its own. *)
Attempted ==
  \A e \in Event :
    /\ delivery[e].status = "pending" => delivery[e].attempts <= tries[e]
    /\ delivery[e].status = "failed" => tries[e] = MAX_ATTEMPTS
    /\ \A p \in Process : Worked(p, e) =>
         /\ sweep[p].work[e].attempts <= tries[e]
         /\ sweep[p].work[e].at # "read" => sweep[p].work[e].attempts < tries[e]

EmitStep == \E e \in Event : tries[e] = 0 /\ Emit(e) /\ UNCHANGED <<endpoint, sweep, tries, retried>>
HookStep == HookNext \/ EmitStep \/ UNCHANGED hookVars

(* The work of a sweep after a step is what it was, or what is left of it. *)
Fewer == \A p \in Process : \A e \in Event : Worked(p, e)' =>
           Worked(p, e) /\ sweep'[p].work[e] = sweep[p].work[e]

(* What a sweep works on. *)
LEMMA WorkRows ==
  ASSUME SweepTypes, NEW p \in Process
  PROVE  /\ sweep[p] \in [open : BOOLEAN, work : UNION {[es -> Task] : es \in SUBSET Event}]
         /\ DOMAIN sweep[p].work \subseteq Event
         /\ sweep[p].work \in [DOMAIN sweep[p].work -> Task]
<1>1. PICK es \in SUBSET Event : sweep[p].work \in [es -> Task]
  BY DEF SweepTypes
<1>2. DOMAIN sweep[p].work = es
  BY <1>1
<1> QED BY <1>1, <1>2 DEF SweepTypes

(* A delivery that goes on leaves the others alone. *)
LEMMA GoesOn ==
  ASSUME SweepTypes, NEW p \in Process, NEW e, Worked(p, e),
         NEW at \in {"read", "ok", "failed", "exhausted", "tripping"}, Goes(p, e, at)
  PROVE  /\ SweepTypes'
         /\ \A q \in Process : \A f \in Event : Worked(q, f)' =>
              /\ Worked(q, f)
              /\ sweep'[q].work[f].attempts = sweep[q].work[f].attempts
              /\ sweep'[q].work[f].at = IF q = p /\ f = e THEN at ELSE sweep[q].work[f].at
<1> DEFINE w == sweep[p].work
<1> DEFINE v == [w EXCEPT ![e].at = at]
<1>1. w \in [DOMAIN w -> Task] /\ DOMAIN w \subseteq Event /\ e \in DOMAIN w
      /\ sweep[p] \in [open : BOOLEAN, work : UNION {[es -> Task] : es \in SUBSET Event}]
  BY WorkRows DEF Worked
<1>2. w[e] \in Task /\ [w[e] EXCEPT !.at = at] \in Task
  BY <1>1 DEF Task
<1>3. v \in [DOMAIN w -> Task]
  BY <1>1, <1>2
<1>4. v \in UNION {[es -> Task] : es \in SUBSET Event}
  BY <1>1, <1>3
<1>5. sweep' = [sweep EXCEPT ![p] = [sweep[p] EXCEPT !.work = v]]
  BY DEF Goes
<1>6. [sweep[p] EXCEPT !.work = v] \in [open : BOOLEAN, work : UNION {[es -> Task] : es \in SUBSET Event}]
  BY <1>1, <1>4
<1>7. SweepTypes'
  BY <1>5, <1>6 DEF SweepTypes
<1>8. sweep'[p].work = v /\ \A q \in Process \ {p} : sweep'[q] = sweep[q]
  BY <1>1, <1>5, <1>6 DEF SweepTypes
<1>9. DOMAIN v = DOMAIN w /\ \A f \in DOMAIN w : v[f].attempts = w[f].attempts
                          /\ v[f].at = IF f = e THEN at ELSE w[f].at
  BY <1>1, <1>2, <1>3 DEF Task
<1> QED BY <1>7, <1>8, <1>9 DEF Worked

(* So does one that is dropped. *)
LEMMA DropsOut ==
  ASSUME SweepTypes, NEW p \in Process, NEW e,
         \/ Drops(p, e) \/ TickEnds(p, Without(p, e)) \/ SweepDone(p) \/ ProcessCrashes(p)
  PROVE  SweepTypes' /\ Fewer
<1> DEFINE w == sweep[p].work
<1>1. w \in [DOMAIN w -> Task] /\ DOMAIN w \subseteq Event
      /\ sweep[p] \in [open : BOOLEAN, work : UNION {[es -> Task] : es \in SUBSET Event}]
  BY WorkRows
<1>2. /\ Without(p, e) \in [DOMAIN w \ {e} -> Task]
      /\ \A f \in DOMAIN w \ {e} : Without(p, e)[f] = w[f]
  BY <1>1 DEF Without
<1>3. Without(p, e) \in UNION {[es -> Task] : es \in SUBSET Event}
  BY <1>1, <1>2
<1>4. <<>> \in [{} -> Task] /\ DOMAIN <<>> = {}
  OBVIOUS
<1>5. <<>> \in UNION {[es -> Task] : es \in SUBSET Event}
  BY <1>4
<1>6. PICK open \in BOOLEAN, v \in {Without(p, e), <<>>} : sweep' = [sweep EXCEPT ![p] = [open |-> open, work |-> v]]
  <2>1. CASE Drops(p, e)
    <3>1. [sweep[p] EXCEPT !.work = Without(p, e)] = [open |-> sweep[p].open, work |-> Without(p, e)]
      BY <1>1
    <3> QED BY <1>1, <2>1, <3>1 DEF Drops
  <2>2. CASE TickEnds(p, Without(p, e))
    BY <2>2 DEF TickEnds
  <2>3. CASE SweepDone(p) \/ ProcessCrashes(p)
    BY <2>3 DEF SweepDone, TickEnds, ProcessCrashes, NoSweep
  <2> QED BY <2>1, <2>2, <2>3
<1>7. [open |-> open, work |-> v] \in [open : BOOLEAN, work : UNION {[es -> Task] : es \in SUBSET Event}]
  BY <1>3, <1>5
<1>8. SweepTypes'
  BY <1>6, <1>7 DEF SweepTypes
<1>9. sweep'[p].work = v /\ \A q \in Process \ {p} : sweep'[q] = sweep[q]
  BY <1>6 DEF SweepTypes
<1>10. DOMAIN v \subseteq DOMAIN w /\ \A f \in DOMAIN v : v[f] = w[f]
  BY <1>2, <1>4
<1> QED BY <1>8, <1>9, <1>10 DEF Worked, Fewer

(* Every step of the webhooks keeps the types and the counts of attempts. *)
LEMMA HookHeld ==
  ASSUME HookTypes, Attempted, HookStep
  PROVE  HookTypes' /\ Attempted'
<1> USE WebhooksAssumption
<1>0. ASSUME NEW p \in Process, NEW e \in Event, Worked(p, e)
      PROVE  sweep[p].work[e] \in Task /\ sweep[p].work[e].attempts <= tries[e]
             /\ (sweep[p].work[e].at # "read" => sweep[p].work[e].attempts < tries[e])
  BY <1>0, WorkRows DEF HookTypes, Attempted, Worked
<1>1. ASSUME NEW p \in Process, runDeliverySweep(p)
      PROVE  HookTypes' /\ Attempted'
  <2> DEFINE w == [e \in Due |-> [at |-> "read", attempts |-> delivery[e].attempts]]
  <2>1. \A e \in Due : e \in Event /\ delivery[e].status = "pending"
                       /\ delivery[e].attempts \in 0 .. MAX_ATTEMPTS - 1
    BY DEF Due, Pending, HookTypes, Row
  <2>2. w \in [Due -> Task]
    BY <2>1 DEF Task
  <2>3. w \in UNION {[es -> Task] : es \in SUBSET Event}
    BY <2>1, <2>2
  <2>4. SweepTypes'
    BY <1>1, <2>3 DEF runDeliverySweep, HookTypes, SweepTypes
  <2>5. sweep'[p].work = w /\ \A q \in Process \ {p} : sweep'[q] = sweep[q]
    BY <1>1 DEF runDeliverySweep, HookTypes, SweepTypes
  <2>6. ASSUME NEW q \in Process, NEW e \in Event, Worked(q, e)'
        PROVE  /\ sweep'[q].work[e].attempts <= tries[e]
               /\ sweep'[q].work[e].at # "read" => sweep'[q].work[e].attempts < tries[e]
    <3>1. CASE q = p
      BY <2>1, <2>5, <2>6, <3>1 DEF Worked, Attempted
    <3>2. CASE q # p
      BY <1>0, <2>5, <2>6, <3>2 DEF Worked
    <3> QED BY <3>1, <3>2
  <2> QED BY <1>1, <2>4, <2>6 DEF runDeliverySweep, HookTypes, Attempted
<1>2. ASSUME SweepTypes', Fewer, UNCHANGED <<delivery, tries>>
      PROVE  Attempted'
  BY <1>2 DEF Fewer, Attempted
<1>3. ASSUME NEW p \in Process, NEW e \in Event, deliverOne(p, e)
      PROVE  HookTypes' /\ Attempted'
  <2>1. PICK at \in {"ok", "failed"} : Goes(p, e, at)
    BY <1>3 DEF deliverOne
  <2>2. Worked(p, e) /\ sweep[p].work[e].at = "read"
    BY <1>3 DEF deliverOne, Works, Worked
  <2>3. /\ SweepTypes'
        /\ \A q \in Process : \A f \in Event : Worked(q, f)' =>
             /\ Worked(q, f)
             /\ sweep'[q].work[f].attempts = sweep[q].work[f].attempts
             /\ sweep'[q].work[f].at = IF q = p /\ f = e THEN at ELSE sweep[q].work[f].at
    BY <2>1, <2>2, GoesOn DEF HookTypes
  <2>4. /\ tries' \in [Event -> 0 .. MAX_ATTEMPTS]
        /\ \A f \in Event : tries[f] \in Nat /\ tries'[f] \in Nat /\ tries[f] <= tries'[f]
                            /\ (tries[f] = MAX_ATTEMPTS => tries'[f] = MAX_ATTEMPTS)
    BY <1>3 DEF deliverOne, HookTypes
  <2>5. tries'[e] \in {tries[e] + 1, MAX_ATTEMPTS}
    BY <1>3 DEF deliverOne, HookTypes
  <2>6. ASSUME NEW q \in Process, NEW f \in Event, Worked(q, f)'
        PROVE  /\ sweep'[q].work[f].attempts <= tries'[f]
               /\ sweep'[q].work[f].at # "read" => sweep'[q].work[f].attempts < tries'[f]
    <3>1. /\ sweep'[q].work[f].attempts \in 0 .. MAX_ATTEMPTS - 1
          /\ sweep'[q].work[f].attempts <= tries[f]
      BY <1>0, <2>3, <2>6 DEF Task
    <3>2. CASE f = e
      BY <2>4, <2>5, <3>1, <3>2
    <3>3. CASE f # e
      <4>1. sweep'[q].work[f].at # "read" => sweep'[q].work[f].attempts < tries[f]
        BY <1>0, <2>3, <2>6, <3>3
      <4> QED BY <2>4, <3>1, <4>1
    <3> QED BY <3>2, <3>3
  <2>7. ASSUME NEW f \in Event
        PROVE  /\ delivery[f].status = "pending" => delivery[f].attempts <= tries'[f]
               /\ delivery[f].status = "failed" => tries'[f] = MAX_ATTEMPTS
    <3>1. delivery[f].status = "pending" => delivery[f].attempts \in Nat
      BY DEF HookTypes, Row
    <3> QED BY <2>4, <3>1 DEF Attempted
  <2>8. HookTypes'
    BY <1>3, <2>3, <2>4 DEF deliverOne, HookTypes
  <2>9. UNCHANGED delivery
    BY <1>3 DEF deliverOne
  <2> QED BY <2>6, <2>7, <2>8, <2>9 DEF Attempted
<1>4. ASSUME NEW p \in Process, NEW e \in Event, succeedDelivery(p, e)
      PROVE  HookTypes' /\ Attempted'
  <2>1. SweepTypes' /\ Fewer
    BY <1>4, DropsOut DEF HookTypes, succeedDelivery
  <2>2. HookTypes'
    BY <1>4, <2>1 DEF HookTypes, succeedDelivery, Row
  <2>3. \A f \in Event : delivery'[f] = delivery[f] \/ delivery'[f].status = "succeeded"
    BY <1>4 DEF HookTypes, succeedDelivery
  <2>4. UNCHANGED tries
    BY <1>4 DEF succeedDelivery
  <2> QED BY <2>1, <2>2, <2>3, <2>4 DEF Attempted, Fewer
<1>5. ASSUME NEW p \in Process, NEW e \in Event, failDelivery(p, e)
      PROVE  HookTypes' /\ Attempted'
  <2> DEFINE attempts == sweep[p].work[e].attempts
  <2>1. Worked(p, e) /\ sweep[p].work[e].at = "failed"
    BY <1>5 DEF failDelivery, Works, Worked
  <2>2. attempts \in 0 .. MAX_ATTEMPTS - 1 /\ attempts < tries[e] /\ tries[e] \in 0 .. MAX_ATTEMPTS
    BY <1>0, <2>1 DEF Task, HookTypes
  <2>3. CASE Exhausted(AttemptCount(attempts))
    <3>1. tries[e] = MAX_ATTEMPTS
      BY <2>2, <2>3 DEF Exhausted, AttemptCount
    <3>2. /\ SweepTypes'
          /\ \A q \in Process : \A f \in Event : Worked(q, f)' =>
               /\ Worked(q, f)
               /\ sweep'[q].work[f].attempts = sweep[q].work[f].attempts
               /\ sweep'[q].work[f].at = IF q = p /\ f = e THEN "exhausted" ELSE sweep[q].work[f].at
      BY <1>5, <2>1, <2>3, GoesOn DEF HookTypes, failDelivery
    <3>3. delivery' = [delivery EXCEPT ![e] = [status |-> "failed"]] /\ UNCHANGED <<endpoint, tries, retried>>
      BY <1>5, <2>3 DEF failDelivery
    <3>4. HookTypes'
      BY <3>2, <3>3 DEF HookTypes, Row
    <3>5. ASSUME NEW q \in Process, NEW f \in Event, Worked(q, f)'
          PROVE  /\ sweep'[q].work[f].attempts <= tries[f]
                 /\ sweep'[q].work[f].at # "read" => sweep'[q].work[f].attempts < tries[f]
      <4>1. CASE q = p /\ f = e
        BY <2>2, <3>2, <3>5, <4>1
      <4>2. CASE ~(q = p /\ f = e)
        BY <1>0, <3>2, <3>5, <4>2
      <4> QED BY <4>1, <4>2
    <3>6. ASSUME NEW f \in Event
          PROVE  delivery'[f] = delivery[f] \/ (f = e /\ delivery'[f] = [status |-> "failed"])
      BY <3>3 DEF HookTypes
    <3> QED BY <3>1, <3>3, <3>4, <3>5, <3>6 DEF Attempted
  <2>4. CASE ~Exhausted(AttemptCount(attempts))
    <3>1. AttemptCount(attempts) \in 0 .. MAX_ATTEMPTS - 1 /\ AttemptCount(attempts) <= tries[e]
      BY <2>2, <2>4 DEF Exhausted, AttemptCount
    <3>2. SweepTypes' /\ Fewer
      BY <1>5, <2>4, DropsOut DEF HookTypes, failDelivery
    <3>3. delivery' = [delivery EXCEPT ![e] = [status |-> "pending", attempts |-> AttemptCount(attempts), due |-> FALSE]]
          /\ UNCHANGED <<endpoint, tries, retried>>
      BY <1>5, <2>4 DEF failDelivery
    <3>4. HookTypes'
      BY <3>1, <3>2, <3>3 DEF HookTypes, Row
    <3>5. \A f \in Event : \/ delivery'[f] = delivery[f]
                           \/ f = e /\ delivery'[f].status = "pending" /\ delivery'[f].attempts <= tries[f]
      BY <3>1, <3>3 DEF HookTypes
    <3> QED BY <3>2, <3>3, <3>4, <3>5 DEF Attempted, Fewer
  <2> QED BY <2>3, <2>4
<1>6. ASSUME NEW p \in Process, NEW e \in Event, CountFailure(p, e) \/ TripBreaker(p, e), Drops(p, e)
      PROVE  HookTypes' /\ Attempted'
  <2>1. SweepTypes' /\ Fewer
    BY <1>6, DropsOut DEF HookTypes
  <2>2. Counted \in [exists : BOOLEAN, on : BOOLEAN, failures : 0 .. CIRCUIT_BREAKER_THRESHOLD]
    BY DEF HookTypes, Counted
  <2>3. endpoint' \in [exists : BOOLEAN, on : BOOLEAN, failures : 0 .. CIRCUIT_BREAKER_THRESHOLD]
    BY <1>6, <2>2 DEF CountFailure, TripBreaker, HookTypes
  <2>4. UNCHANGED <<delivery, tries, retried>>
    BY <1>6 DEF CountFailure, TripBreaker
  <2> QED BY <1>2, <2>1, <2>3, <2>4 DEF HookTypes
<1>7. ASSUME NEW p \in Process, NEW e \in Event, NEW at \in {"failed", "tripping"}, Goes(p, e, at),
             Worked(p, e), sweep[p].work[e].at # "read",
             UNCHANGED <<delivery, tries, retried>>,
             endpoint' \in [exists : BOOLEAN, on : BOOLEAN, failures : 0 .. CIRCUIT_BREAKER_THRESHOLD]
      PROVE  HookTypes' /\ Attempted'
  <2>1. /\ SweepTypes'
        /\ \A q \in Process : \A f \in Event : Worked(q, f)' =>
             /\ Worked(q, f)
             /\ sweep'[q].work[f].attempts = sweep[q].work[f].attempts
             /\ sweep'[q].work[f].at = IF q = p /\ f = e THEN at ELSE sweep[q].work[f].at
    BY <1>7, GoesOn DEF HookTypes
  <2>2. ASSUME NEW q \in Process, NEW f \in Event, Worked(q, f)'
        PROVE  /\ sweep'[q].work[f].attempts <= tries[f]
               /\ sweep'[q].work[f].at # "read" => sweep'[q].work[f].attempts < tries[f]
    BY <1>0, <1>7, <2>1, <2>2
  <2>3. HookTypes'
    BY <1>7, <2>1 DEF HookTypes
  <2> QED BY <1>7, <2>2, <2>3 DEF Attempted
<1>14. ASSUME NEW p \in Process, NEW e \in Event, CountFailure(p, e) \/ TripBreaker(p, e)
       PROVE  HookTypes' /\ Attempted'
  <2>1. CASE Drops(p, e)
    BY <1>6, <1>14, <2>1
  <2>2. CASE CountFailure(p, e) /\ Goes(p, e, "tripping")
    <3>1. Worked(p, e) /\ sweep[p].work[e].at # "read"
      BY <2>2 DEF CountFailure, Works, Worked
    <3>2. endpoint' \in [exists : BOOLEAN, on : BOOLEAN, failures : 0 .. CIRCUIT_BREAKER_THRESHOLD]
      BY <2>2 DEF CountFailure, HookTypes, Counted
    <3>3. UNCHANGED <<delivery, tries, retried>>
      BY <2>2 DEF CountFailure
    <3> QED BY <1>7, <2>2, <3>1, <3>2, <3>3
  <2> QED BY <1>14, <2>1, <2>2 DEF CountFailure, TripBreaker
<1>15. ASSUME NEW p \in Process, NEW e \in Event, RecordFails(p, e)
       PROVE  HookTypes' /\ Attempted'
  <2>1. Worked(p, e) /\ sweep[p].work[e].at # "read"
    BY <1>15 DEF RecordFails, Works, Worked
  <2>2. Goes(p, e, "failed") /\ UNCHANGED <<endpoint, delivery, tries, retried>>
    BY <1>15 DEF RecordFails
  <2> QED BY <1>7, <2>1, <2>2 DEF HookTypes
<1>8. ASSUME NEW p \in Process, NEW e \in Event, WriteFails(p, e)
      PROVE  HookTypes' /\ Attempted'
  <2>1. SweepTypes' /\ Fewer
    BY <1>8, DropsOut DEF HookTypes, WriteFails
  <2> QED BY <1>2, <1>8, <2>1 DEF HookTypes, WriteFails
<1>9. ASSUME NEW p \in Process, SweepDone(p) \/ ProcessCrashes(p)
      PROVE  HookTypes' /\ Attempted'
  <2>1. SweepTypes' /\ Fewer
    BY <1>9, DropsOut DEF HookTypes
  <2> QED BY <1>2, <1>9, <2>1 DEF HookTypes, SweepDone, ProcessCrashes
<1>10. ASSUME NEW e \in Event,
              BackoffOver(e) \/ sendTestWebhookEvent(e) \/ retryWebhookDelivery(e) \/ EmitStep
       PROVE  HookTypes' /\ Attempted'
  <2>2. UNCHANGED <<endpoint, sweep, tries>>
    BY <1>10 DEF BackoffOver, sendTestWebhookEvent, retryWebhookDelivery, EmitStep
  <2>3. ASSUME NEW f \in Event
        PROVE  \/ delivery'[f] = delivery[f]
               \/ delivery'[f] = Fresh
               \/ /\ delivery[f].status = "pending" /\ delivery'[f].status = "pending"
                  /\ delivery'[f].attempts = delivery[f].attempts
    BY <1>10 DEF HookTypes, Row, BackoffOver, sendTestWebhookEvent, retryWebhookDelivery,
                 EmitStep, Emit, Pending
  <2>4. ASSUME NEW f \in Event
        PROVE  /\ delivery'[f].status = "pending" => delivery'[f].attempts <= tries[f]
               /\ delivery'[f].status = "failed" => tries[f] = MAX_ATTEMPTS
    <3>1. tries[f] \in Nat
      BY DEF HookTypes
    <3> QED BY <2>3, <3>1 DEF Attempted, Fresh
  <2>5. Fresh \in Row
    BY WebhooksAssumption DEF Fresh, Row
  <2>6. delivery' \in [Event -> Row]
    <3>1. CASE BackoffOver(e)
      <4>1. [delivery[e] EXCEPT !.due = TRUE] \in Row
        BY <3>1 DEF HookTypes, Row, BackoffOver, Pending
      <4> QED BY <3>1, <4>1 DEF HookTypes, BackoffOver
    <3>2. CASE ~BackoffOver(e)
      BY <1>10, <2>5, <3>2 DEF HookTypes, sendTestWebhookEvent, retryWebhookDelivery, EmitStep, Emit
    <3> QED BY <3>1, <3>2
  <2>7. retried' \in [Event -> 0 .. MaxRetries]
    BY <1>10 DEF HookTypes, BackoffOver, sendTestWebhookEvent, retryWebhookDelivery, EmitStep
  <2>1. HookTypes'
    BY <2>2, <2>6, <2>7 DEF HookTypes, SweepTypes
  <2> QED BY <2>1, <2>2, <2>4 DEF Attempted, Worked
<1>11. ASSUME NEW enabled \in BOOLEAN, updateWebhookEndpoint(enabled)
       PROVE  HookTypes' /\ Attempted'
  <2>1. endpoint' \in [exists : BOOLEAN, on : BOOLEAN, failures : 0 .. CIRCUIT_BREAKER_THRESHOLD]
    <3>1. CASE enabled
      <4>1. [endpoint EXCEPT !.on = TRUE, !.failures = 0] \in
              [exists : BOOLEAN, on : BOOLEAN, failures : 0 .. CIRCUIT_BREAKER_THRESHOLD]
        <5>1. [endpoint EXCEPT !.on = TRUE] \in
                [exists : BOOLEAN, on : BOOLEAN, failures : 0 .. CIRCUIT_BREAKER_THRESHOLD]
          BY DEF HookTypes
        <5>2. 0 \in 0 .. CIRCUIT_BREAKER_THRESHOLD
          OBVIOUS
        <5> QED BY <5>1, <5>2
      <4> QED BY <1>11, <3>1, <4>1 DEF updateWebhookEndpoint
    <3>2. CASE ~enabled
      BY <1>11, <3>2 DEF HookTypes, updateWebhookEndpoint
    <3> QED BY <3>1, <3>2
  <2>2. UNCHANGED <<delivery, sweep, tries, retried>>
    BY <1>11 DEF updateWebhookEndpoint
  <2> QED BY <2>1, <2>2 DEF HookTypes, SweepTypes, Attempted, Worked
<1>12. CASE deleteWebhookEndpoint
  BY <1>12 DEF HookTypes, SweepTypes, Attempted, Worked, deleteWebhookEndpoint, NoRow, Row
<1>13. CASE UNCHANGED hookVars
  BY <1>13 DEF HookTypes, SweepTypes, Attempted, Worked, hookVars
<1> QED
  BY <1>1, <1>3, <1>4, <1>5, <1>8, <1>9, <1>10, <1>11, <1>12, <1>13, <1>14, <1>15
  DEF HookStep, HookNext, Record, EmitStep

-----------------------------------------------------------------------------
(* The inductive invariant. *)
Accounted == IdemTypeOK /\ Tokens
Delivered == HookTypes /\ Attempted
Inductive == Accounted /\ Delivered /\ told \subseteq Event

(* It holds at first, *)
LEMMA Initially == Init => Inductive
<1> SUFFICES ASSUME Init PROVE Inductive
  OBVIOUS
<1>1. IdemTypeOK
  BY IdempotencyAssumption DEF Init, IdemInit, IdemTypeOK, Off
<1>2. Tokens
  <2> SUFFICES ASSUME NEW k \in Key PROVE Covered(k)
    BY DEF Tokens
  <2>1. InFlight(k) = {}
    BY DEF Init, IdemInit, InFlight, Flies, Off
  <2>2. Cardinality(InFlight(k)) = 0
    BY <2>1, FS_EmptySet
  <2>3. runs[k] = 0 /\ lapses[k] = 0
    BY DEF Init, IdemInit
  <2> QED BY <2>2, <2>3 DEF Covered
<1>3. HookTypes /\ Attempted
  <2>1. <<>> \in [{} -> Task] /\ DOMAIN <<>> = {}
    OBVIOUS
  <2>2. <<>> \in UNION {[es -> Task] : es \in SUBSET Event}
    BY <2>1
  <2>3. HookTypes
    <3>1. SweepTypes
      BY <2>2 DEF Init, HookInit, SweepTypes, NoSweep
    <3>2. delivery \in [Event -> Row] /\ retried \in [Event -> 0 .. MaxRetries]
      BY WebhooksAssumption DEF Init, HookInit, NoRow, Row
    <3>3. /\ endpoint \in [exists : BOOLEAN, on : BOOLEAN, failures : 0 .. CIRCUIT_BREAKER_THRESHOLD]
          /\ tries \in [Event -> 0 .. MAX_ATTEMPTS]
      BY WebhooksAssumption DEF Init, HookInit
    <3> QED BY <3>1, <3>2, <3>3 DEF HookTypes
  <2> QED BY <2>1, <2>3 DEF Init, HookInit, Attempted, Worked, NoSweep, NoRow
<1> QED BY <1>1, <1>2, <1>3 DEF Init, Inductive, Accounted, Delivered

(* and every step keeps it. *)
LEMMA Kept == Inductive /\ [Next]_vars => Inductive'
<1> SUFFICES ASSUME Inductive, [Next]_vars PROVE Inductive'
  OBVIOUS
<1>1. IdemStep /\ HookStep /\ told' \subseteq Event
  <2>1. ASSUME NEW c \in Call, Write(c)
        PROVE  IdemStep /\ HookStep /\ told' \subseteq Event
    BY <2>1 DEF Inductive, Write, IdemStep, HookStep, EmitStep
  <2>2. CASE HookNext /\ UNCHANGED <<idemVars, told>>
    BY <2>2 DEF Inductive, IdemStep, HookStep
  <2>3. CASE IdemNext /\ UNCHANGED <<hookVars, told>>
    BY <2>3 DEF Inductive, IdemStep, HookStep
  <2>4. CASE UNCHANGED vars
    BY <2>4 DEF Inductive, IdemStep, HookStep, vars
  <2> QED BY <2>1, <2>2, <2>3, <2>4 DEF Next
<1>2. IdemTypeOK'
  BY <1>1, IdemTypes DEF Inductive, Accounted
<1>3. Tokens'
  BY <1>1, <1>2, TokensHeld DEF Inductive, Accounted
<1>4. HookTypes' /\ Attempted'
  BY <1>1, HookHeld DEF Inductive, Delivered
<1> QED BY <1>1, <1>2, <1>3, <1>4 DEF Inductive, Accounted, Delivered

(* The requests and webhooks keep their types. *)
THEOREM TypesHold == Spec => []TypeOK
<1>1. Inductive => TypeOK
  <2> SUFFICES ASSUME Inductive PROVE TypeOK
    OBVIOUS
  <2>1. ASSUME NEW p \in Process, NEW e \in DOMAIN sweep[p].work
        PROVE  e \in Event /\ sweep[p].work[e] \in Task
    BY WorkRows DEF Inductive, Delivered, HookTypes
  <2> QED BY <2>1 DEF Inductive, Accounted, Delivered, HookTypes, Row, Task, TypeOK
<1> QED BY <1>1, Initially, Kept, PTL DEF Spec

(* However often and at once a client sends a write, in whatever order the
   requests look, lock, execute, answer, fail and die, its executions exceed one
   only by the times the protection was lost. *)
THEOREM RunsAccountedFor == Spec => []RunsAccounted
<1>1. Inductive => RunsAccounted
  BY RunsCounted DEF Inductive, Accounted
<1> QED BY <1>1, Initially, Kept, PTL DEF Spec

(* A delivery is given up on only when all its attempts were really made, however
   many sweeps overlap, crash, record late or are retried by hand. *)
THEOREM GivenUpLast == Spec => []GivenUpAfterAllAttempts
<1>1. Inductive => GivenUpAfterAllAttempts
  BY DEF Inductive, Delivered, Attempted, GivenUpAfterAllAttempts
<1> QED BY <1>1, Initially, Kept, PTL DEF Spec
=============================================================================
