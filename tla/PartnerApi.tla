----------------------------- MODULE PartnerApi -----------------------------
(***************************************************************************)
(* A vendor's writes from request to webhook: a write under an             *)
(* Idempotency-Key (order-status and order-details in order.controller.ts, *)
(* publicApi/orders.controller.ts) commits with the event that describes   *)
(* it, which the sweeps deliver.                                           *)
(***************************************************************************)
EXTENDS Idempotency, Webhooks

VARIABLE told  \* the events the vendor is owed

vars == <<idemVars, hookVars, told>>

Init == IdemInit /\ HookInit /\ told = {}

(* Mutant: the event is emitted after the transaction, and lost. *)
WriteThenEmit(c) ==
  /\ Execute(c)
  /\ \E e \in Event \ told : told' = told \cup {e}
  /\ UNCHANGED hookVars

(* The write and its event, in one transaction; an edit of an order's details
   emits none. *)
Write(c) ==
  /\ Execute(c)
  /\ \/ /\ Listening
        /\ \E e \in Event : tries[e] = 0 /\ Emit(e) /\ told' = told \cup {e}
        /\ UNCHANGED <<endpoint, sweep, tries, retried>>
     \/ UNCHANGED <<hookVars, told>>

Next ==
  \/ \E c \in Call : Write(c)
  \/ IdemNext /\ UNCHANGED <<hookVars, told>>
  \/ HookNext /\ UNCHANGED <<idemVars, told>>

Spec == Init /\ [][Next]_vars

FairSpec == Spec /\ HookFairness
-----------------------------------------------------------------------------
TypeOK ==
  /\ IdemTypeOK
  /\ endpoint \in [exists : BOOLEAN, on : BOOLEAN, failures : 0 .. CIRCUIT_BREAKER_THRESHOLD]
  /\ delivery \in [Event -> [status : {"pending"}, due : BOOLEAN, attempts : 0 .. MAX_ATTEMPTS - 1]
                           \cup [status : {"none", "succeeded", "failed"}]]
  /\ told \subseteq Event
  /\ tries \in [Event -> 0 .. MAX_ATTEMPTS] /\ retried \in [Event -> 0 .. MaxRetries]
  /\ \A p \in Process : \A e \in DOMAIN sweep[p].work :
       /\ e \in Event /\ sweep[p].work[e].attempts \in 0 .. MAX_ATTEMPTS - 1
       /\ sweep[p].work[e].at \in {"read", "ok", "failed", "exhausted", "tripping"}

(* "Never gets silently dropped once the transaction commits": an event of a
   write made while its endpoint listens is in the end delivered or given up,
   if the endpoint goes on listening, whatever crashes and overlaps. *)
EventsSettle ==
  \A e \in Event :
    e \in told ~> delivery[e].status \in {"succeeded", "failed"} \/ ~Listening
=============================================================================
