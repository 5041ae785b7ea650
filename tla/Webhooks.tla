------------------------------ MODULE Webhooks ------------------------------
(***************************************************************************)
(* The outgoing webhooks of a vendor's endpoint: the outbox, the delivery  *)
(* sweeps (webhookDispatch.service.ts, started in index.ts) and what a     *)
(* vendor does to the endpoint (webhookEndpoint.service.ts).               *)
(*                                                                         *)
(* Every process of the cluster starts a sweep on a timer.  A flag of its  *)
(* own keeps its sweeps apart; the Redis lock over all of them is skipped  *)
(* when Redis fails and expires in mid-sweep, so that it excludes nothing  *)
(* here.  A sweep works on the deliveries as it read them.                 *)
(***************************************************************************)
EXTENDS Naturals

CONSTANTS
  Event,       \* rows of the outbox
  Process,     \* server processes
  MAX_ATTEMPTS,
  CIRCUIT_BREAKER_THRESHOLD,
  MaxRetries   \* bound: manual retries of a delivery

ASSUME WebhooksAssumption ==
  MAX_ATTEMPTS \in Nat \ {0} /\ CIRCUIT_BREAKER_THRESHOLD \in Nat \ {0} /\ MaxRetries \in Nat

VARIABLES
  endpoint,   \* the webhook_endpoints row; on when enabled and not disabled_at
  delivery,   \* the webhook_deliveries rows
  sweep,      \* the sweep of each process: sweepInFlight (open) and the
              \* deliveries its workers are at
  tries,      \* attempts really made at each delivery, up to MAX_ATTEMPTS
  retried     \* manual retries of each delivery

hookVars == <<endpoint, delivery, sweep, tries, retried>>

NoSweep == [open |-> FALSE, work |-> <<>>]
NoRow   == [status |-> "none"]
Fresh   == [status |-> "pending", attempts |-> 0, due |-> TRUE]

HookInit ==
  /\ endpoint = [exists |-> TRUE, on |-> TRUE, failures |-> 0]
  /\ delivery = [e \in Event |-> NoRow]
  /\ sweep = [p \in Process |-> NoSweep]
  /\ tries = [e \in Event |-> 0]
  /\ retried = [e \in Event |-> 0]

Listening  == endpoint.exists /\ endpoint.on
Pending(e) == delivery[e].status = "pending"
Due        == {e \in Event : Pending(e) /\ delivery[e].due}

-----------------------------------------------------------------------------
(* emitWebhookEvent, in the transaction of the change it describes. *)
Emit(e) ==
  /\ delivery[e] = NoRow
  /\ delivery' = [delivery EXCEPT ![e] = Fresh]

(* A tick that finds something due: each delivery is worked on with the attempt
   count read here.  Workers left behind by a failed sweep finish before. *)
runDeliverySweep(p) ==
  /\ sweep[p] = NoSweep /\ Listening /\ Due # {}
  /\ sweep' = [sweep EXCEPT ![p] = [open |-> TRUE, work |-> [e \in Due |-> [at |-> "read", attempts |-> delivery[e].attempts]]]]
  /\ UNCHANGED <<endpoint, delivery, tries, retried>>

Works(p, e, at) == e \in DOMAIN sweep[p].work /\ sweep[p].work[e].at = at
Without(p, e)   == [f \in DOMAIN sweep[p].work \ {e} |-> sweep[p].work[f]]
Drops(p, e)     == sweep' = [sweep EXCEPT ![p].work = Without(p, e)]
Goes(p, e, at)  == sweep' = [sweep EXCEPT ![p].work[e].at = at]

(* deliverOne: the vendor's answer, or none within ten seconds; a secret that
   cannot be decrypted counts as an attempt. *)
deliverOne(p, e) ==
  /\ Works(p, e, "read")
  /\ Goes(p, e, "ok") \/ Goes(p, e, "failed")
  /\ tries' = [tries EXCEPT ![e] = IF @ < MAX_ATTEMPTS THEN @ + 1 ELSE @]
  /\ UNCHANGED <<endpoint, delivery, retried>>

(* The count of attempts of a delivered event is not kept. *)
succeedDelivery(p, e) ==
  /\ Works(p, e, "ok") /\ endpoint.exists
  /\ delivery' = [delivery EXCEPT ![e] = [status |-> "succeeded"]]
  /\ endpoint' = [endpoint EXCEPT !.failures = 0]
  /\ Drops(p, e)
  /\ UNCHANGED <<tries, retried>>

(* Mutant: the attempt is counted when it is read and when it has failed. *)
CountedTwice(read) == read + 2

AttemptCount(read) == read + 1

(* Mutant: one attempt too many. *)
ExhaustedLate(attempts) == attempts > MAX_ATTEMPTS

Exhausted(attempts) == attempts >= MAX_ATTEMPTS

(* failDelivery: the row, from the count read by the sweep, *)
failDelivery(p, e) ==
  LET attempts == AttemptCount(sweep[p].work[e].attempts) IN
  /\ Works(p, e, "failed") /\ endpoint.exists
  /\ delivery' = [delivery EXCEPT ![e] =
       IF Exhausted(attempts) THEN [status |-> "failed"]
       ELSE [status |-> "pending", attempts |-> attempts, due |-> FALSE]]
  /\ IF Exhausted(attempts) THEN Goes(p, e, "exhausted") ELSE Drops(p, e)
  /\ UNCHANGED <<endpoint, tries, retried>>

(* consecutive_failures, which past the threshold makes no difference; *)
Counted ==
  [endpoint EXCEPT !.failures = IF @ < CIRCUIT_BREAKER_THRESHOLD THEN @ + 1 ELSE @]

(* and then, when it was the last, the endpoint's count; at the threshold the
   worker goes on to disable the endpoint, unless it is disabled, *)
CountFailure(p, e) ==
  /\ Works(p, e, "exhausted") /\ endpoint.exists
  /\ endpoint' = Counted
  /\ IF Counted.failures = CIRCUIT_BREAKER_THRESHOLD
     THEN Goes(p, e, "tripping") \/ (~endpoint.on /\ Drops(p, e))
     ELSE Drops(p, e)
  /\ UNCHANGED <<delivery, tries, retried>>

(* and disables it, whatever its vendor has done to it since. *)
TripBreaker(p, e) ==
  /\ Works(p, e, "tripping") /\ endpoint.exists
  /\ endpoint' = [endpoint EXCEPT !.on = FALSE]
  /\ Drops(p, e)
  /\ UNCHANGED <<delivery, tries, retried>>

(* finally: the flag is cleared. *)
TickEnds(p, work) == sweep' = [sweep EXCEPT ![p] = [open |-> FALSE, work |-> work]]

SweepDone(p) ==
  /\ sweep[p].open /\ sweep[p].work = <<>> /\ TickEnds(p, <<>>)
  /\ UNCHANGED <<endpoint, delivery, tries, retried>>

(* The row is gone or the database fails.  The catch around the request takes
   that for a failed attempt, and writes it, also when it was a failed attempt
   that could not be written, or counted against its endpoint. *)
RecordFails(p, e) ==
  /\ \E at \in {"ok", "exhausted", "tripping"} : Works(p, e, at)
  /\ Goes(p, e, "failed")
  /\ UNCHANGED <<endpoint, delivery, tries, retried>>

(* When that fails too, the error ends the tick, while the other workers go on
   with the rest. *)
WriteFails(p, e) ==
  /\ \E at \in {"failed", "exhausted", "tripping"} : Works(p, e, at)
  /\ TickEnds(p, Without(p, e))
  /\ UNCHANGED <<endpoint, delivery, tries, retried>>

ProcessCrashes(p) ==
  /\ sweep[p] # NoSweep /\ sweep' = [sweep EXCEPT ![p] = NoSweep]
  /\ UNCHANGED <<endpoint, delivery, tries, retried>>

(* The backoff is over. *)
BackoffOver(e) ==
  /\ Pending(e) /\ ~delivery[e].due
  /\ delivery' = [delivery EXCEPT ![e].due = TRUE]
  /\ UNCHANGED <<endpoint, sweep, tries, retried>>

-----------------------------------------------------------------------------
(* The vendor's dashboard. *)

updateWebhookEndpoint(enabled) ==
  /\ endpoint.exists
  /\ endpoint' = IF enabled THEN [endpoint EXCEPT !.on = TRUE, !.failures = 0]
                 ELSE [endpoint EXCEPT !.on = FALSE]
  /\ UNCHANGED <<delivery, sweep, tries, retried>>

(* The deliveries go with it. *)
deleteWebhookEndpoint ==
  /\ endpoint.exists
  /\ endpoint' = [endpoint EXCEPT !.exists = FALSE]
  /\ delivery' = [e \in Event |-> NoRow]
  /\ UNCHANGED <<sweep, tries, retried>>

sendTestWebhookEvent(e) ==
  /\ endpoint.exists /\ tries[e] = 0 /\ Emit(e)
  /\ UNCHANGED <<endpoint, sweep, tries, retried>>

retryWebhookDelivery(e) ==
  /\ delivery[e] # NoRow /\ retried[e] < MaxRetries
  /\ delivery' = [delivery EXCEPT ![e] = Fresh]
  /\ retried' = [retried EXCEPT ![e] = @ + 1]
  /\ UNCHANGED <<endpoint, sweep, tries>>

(* What was sent is written down, or there is nothing left to write to. *)
Record(p, e) ==
  \/ succeedDelivery(p, e) \/ failDelivery(p, e) \/ CountFailure(p, e) \/ TripBreaker(p, e)
  \/ ~endpoint.exists /\ (RecordFails(p, e) \/ WriteFails(p, e))

HookNext ==
  \/ \E p \in Process :
       \/ runDeliverySweep(p)
       \/ \E e \in Event : deliverOne(p, e) \/ Record(p, e) \/ RecordFails(p, e) \/ WriteFails(p, e)
       \/ SweepDone(p) \/ ProcessCrashes(p)
  \/ \E e \in Event : BackoffOver(e) \/ sendTestWebhookEvent(e) \/ retryWebhookDelivery(e)
  \/ \E enabled \in BOOLEAN : updateWebhookEndpoint(enabled)
  \/ deleteWebhookEndpoint

(* Ticks come, timeouts end every request, timers fire; processes that sometimes
   die sometimes live, a database that sometimes fails sometimes answers. *)
HookFairness ==
  /\ SF_hookVars(\E p \in Process : runDeliverySweep(p))
  /\ WF_hookVars(\E p \in Process : SweepDone(p))
  /\ \A e \in Event :
       /\ SF_hookVars(\E p \in Process : deliverOne(p, e))
       /\ SF_hookVars(\E p \in Process : Record(p, e))
       /\ WF_hookVars(BackoffOver(e))
-----------------------------------------------------------------------------
(* An event is given up on only after MAX_ATTEMPTS real attempts, whichever
   sweeps make them and however they overlap, and whatever is retried. *)
GivenUpAfterAllAttempts == \A e \in Event : delivery[e].status = "failed" => tries[e] = MAX_ATTEMPTS
=============================================================================
