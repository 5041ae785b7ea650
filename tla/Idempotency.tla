---------------------------- MODULE Idempotency ----------------------------
(***************************************************************************)
(* withIdempotency (idempotency.service.ts): a write sent with an          *)
(* Idempotency-Key runs under a Redis lock and its response is cached, so  *)
(* that a client's retry replays it.                                       *)
(*                                                                         *)
(* Redis may fail at every call and the write goes on without it; the lock *)
(* expires whether or not its holder is done; it is deleted by its key,    *)
(* whoever holds it.  lapses counts the events that take the protection    *)
(* away, each of which a client may pay for with one more execution.       *)
(***************************************************************************)
EXTENDS Naturals, FiniteSets

CONSTANTS
  Key,       \* idempotency keys, with actor and operation
  Call,      \* request slots of the server processes
  MaxLapses  \* bound: what goes wrong for one key

ASSUME IdempotencyAssumption == IsFiniteSet(Call) /\ MaxLapses \in Nat

VARIABLES
  cached,  \* the keys with a cached response
  lock,    \* the keys locked in Redis
  call,    \* what each call is at
  runs,    \* how often the write of each key was executed
  lapses   \* lost protections, by key

idemVars == <<cached, lock, call, runs, lapses>>

Off == [at |-> "idle"]

IdemInit ==
  /\ cached = {}
  /\ lock = {}
  /\ call = [c \in Call |-> Off]
  /\ runs = [k \in Key |-> 0]
  /\ lapses = [k \in Key |-> 0]

At(c, at)  == call[c].at = at
Running(k) == \E c \in Call : call[c].at \in {"running", "written", "failed"} /\ call[c].key = k
Missed(k)  == \E c \in Call : At(c, "missed") /\ call[c].key = k
Step(c, at) == call' = [call EXCEPT ![c].at = at]
Leave(c)   == call' = [call EXCEPT ![c] = Off]
Lapse(k)   == lapses[k] < MaxLapses /\ lapses' = [lapses EXCEPT ![k] = @ + 1]
Misses(c, k) == call' = [call EXCEPT ![c] = [at |-> "missed", key |-> k]]

(* A cached response is replayed, or refused to a request with another payload,
   which changes nothing. *)
Look(c, k) ==
  /\ At(c, "idle")
  /\ IF k \in cached THEN UNCHANGED call ELSE Misses(c, k)
  /\ UNCHANGED <<cached, lock, runs, lapses>>

LookWithoutRedis(c, k) ==
  /\ At(c, "idle") /\ Lapse(k) /\ Misses(c, k)
  /\ UNCHANGED <<cached, lock, runs>>

(* Mutant: a lock that is there is no reason to refuse. *)
AcquireAnyway(c) ==
  /\ At(c, "missed")
  /\ lock' = lock \cup {call[c].key} /\ Step(c, "running")
  /\ UNCHANGED <<cached, runs, lapses>>

(* SET NX EX; 409 when the key is locked. *)
Acquire(c) ==
  /\ At(c, "missed")
  /\ IF call[c].key \in lock THEN Leave(c) ELSE Step(c, "running")
  /\ lock' = lock \cup {call[c].key}
  /\ UNCHANGED <<cached, runs, lapses>>

AcquireWithoutRedis(c) ==
  /\ At(c, "missed") /\ Lapse(call[c].key) /\ Step(c, "running")
  /\ UNCHANGED <<cached, lock, runs>>

(* fn commits its transaction, and returns; or it raises all the same, when
   what it does after the commit fails or the answer to COMMIT is lost, *)
Execute(c) ==
  /\ At(c, "running")
  /\ runs' = [runs EXCEPT ![call[c].key] = @ + 1]
  /\ \/ Step(c, "written") /\ UNCHANGED lapses
     \/ Step(c, "failed") /\ Lapse(call[c].key)
  /\ UNCHANGED <<cached, lock>>

(* or rolls it back and raises. *)
FnFails(c) ==
  /\ At(c, "running") /\ Step(c, "failed")
  /\ UNCHANGED <<cached, lock, runs, lapses>>

(* The response is cached and returned; the lock is left to expire. *)
Answer(c) ==
  /\ At(c, "written") /\ Leave(c)
  /\ cached' = cached \cup {call[c].key}
  /\ UNCHANGED <<lock, runs, lapses>>

AnswerWithoutRedis(c) ==
  /\ At(c, "written") /\ Lapse(call[c].key) /\ Leave(c)
  /\ UNCHANGED <<cached, lock, runs>>

(* finally: the lock is deleted by its key, if Redis answers. *)
Release(c) ==
  /\ At(c, "failed") /\ Leave(c)
  /\ lock' \in {lock, lock \ {call[c].key}}
  /\ UNCHANGED <<cached, runs, lapses>>

(* The process dies; its locks stay. *)
CallCrashes(c) ==
  /\ ~At(c, "idle") /\ Leave(c)
  /\ IF At(c, "written") THEN Lapse(call[c].key) ELSE UNCHANGED lapses
  /\ UNCHANGED <<cached, lock, runs>>

(* The lock's TTL; too early when its work is not done, or its response came
   too late for someone who has looked already. *)
LockExpires(k) ==
  /\ k \in lock /\ lock' = lock \ {k}
  /\ IF Running(k) \/ (Missed(k) /\ k \in cached) THEN Lapse(k) ELSE UNCHANGED lapses
  /\ UNCHANGED <<cached, call, runs>>

(* 24 hours later, when the lock is long gone. *)
ResponseExpires(k) ==
  /\ k \in cached /\ k \notin lock /\ Lapse(k)
  /\ cached' = cached \ {k}
  /\ UNCHANGED <<lock, call, runs>>

(* All of it but Execute. *)
IdemNext ==
  \/ \E c \in Call, k \in Key : Look(c, k) \/ LookWithoutRedis(c, k)
  \/ \E c \in Call :
       \/ Acquire(c) \/ AcquireWithoutRedis(c) \/ FnFails(c) \/ Answer(c) \/ AnswerWithoutRedis(c)
       \/ Release(c) \/ CallCrashes(c)
  \/ \E k \in Key : LockExpires(k) \/ ResponseExpires(k)
-----------------------------------------------------------------------------
IdemTypeOK ==
  /\ cached \subseteq Key /\ lock \subseteq Key
  /\ call \in [Call -> [at : {"missed", "running", "written", "failed"}, key : Key] \cup {Off}]
  /\ runs \in [Key -> Nat]
  /\ lapses \in [Key -> 0 .. MaxLapses]

(* However often and at once a client sends a write, it is executed at most once
   more than its "duplicate-submission protection" was lost. *)
RunsAccounted == \A k \in Key : runs[k] <= 1 + lapses[k]
=============================================================================
