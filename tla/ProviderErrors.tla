--------------------------- MODULE ProviderErrors ---------------------------
(***************************************************************************)
(* The errors of the provider package and the circuit breaker that every   *)
(* provider client keeps.  The clients of Vast.ai, TensorDock and Blue     *)
(* Lobster hold three copies of the same breaker; one is modelled.         *)
(*                                                                         *)
(* An error is [base, status]: the sentinel it wraps and the HTTP status   *)
(* class it was made from.  Durations are not modelled: "aged" says that   *)
(* ResetTimeout has passed since lastStateChange.                          *)
(***************************************************************************)
EXTENDS Naturals

CONSTANT Threshold      \* CircuitBreakerConfig.FailureThreshold

ASSUME ThresholdAssumption == Threshold \in Nat \ {0}

(***************************************************************************)
(* What an HTTP exchange can come to, as far as the clients tell apart:    *)
(*   ok        success, with the expected body                             *)
(*   empty     success, with a body that holds no object                   *)
(*   garbled   success, with a body that cannot be decoded                 *)
(*   stale     the offer is gone                                           *)
(*   staleDown the same, in a body that carries a status of 500 or more    *)
(*   invalid   another 4xx                                                 *)
(*   denied 401 and 403, missing 404, limited 429, broken 5xx              *)
(*   refused   no connection                                               *)
(*   expired   deadline, cancellation or a lost connection                 *)
(*   open      no request: the circuit breaker refused it                  *)
(***************************************************************************)
Refusals == {"empty", "stale", "staleDown", "invalid"}
Faulty == {"garbled", "denied", "limited", "broken", "refused", "expired"}
Replies == {"ok", "missing", "open"} \cup Refusals \cup Faulty

Err(base, status) == [base |-> base, status |-> status]
NoError == Err("none", "ok")
Bases == {"none", "plain", "provider", "stale", "unavailable", "auth", "rate",
          "notfound"}
Errors == [base : Bases, status : Replies]

\* An exchange without a status code: the error is wrapped as it is.
Unanswered == {"refused", "expired", "garbled", "open"}

\* An operation that does not decode the body takes any 2xx for a success.
Unread(r) == IF r = "garbled" THEN "ok" ELSE r

\* The part all operations share: nothing came back, or the status is an
\* error that h describes.
Interpret(r, h) ==
  IF r = "ok" THEN NoError
  ELSE IF r \in Unanswered THEN Err("plain", r) ELSE h

\* IsNotFoundError: the sentinel or the status.
IsNotFoundError(e) == e.base = "notfound" \/ e.status = "missing"

\* ShouldRetryWithDifferentOffer: the offer was stale or unavailable.
ShouldRetryWithDifferentOffer(e) == e.base \in {"stale", "unavailable"}

-----------------------------------------------------------------------------
(* The circuit breaker.  Failures are counted up to the threshold: beyond  *)
(* it nothing tells counts apart.                                          *)

Breakers == [state : {"closed", "open", "half"}, failures : 0..Threshold,
             aged : BOOLEAN]

newCircuitBreaker == [state |-> "closed", failures |-> 0, aged |-> FALSE]

\* allow: false only while the circuit is open and young.
allow(b) == b.state = "open" => b.aged

\* What allow leaves: an open circuit that has aged is half open.  A half
\* open one stays so, whoever asks.
allowed(b) ==
  IF b.state = "open" THEN [b EXCEPT !.state = "half", !.aged = FALSE] ELSE b

\* Mutant: a success does not close a half open circuit.
recordSuccessOnly(b) == [b EXCEPT !.failures = 0]

recordSuccess(b) ==
  [b EXCEPT !.failures = 0,
            !.state = IF b.state = "half" THEN "closed" ELSE b.state]

\* A failure opens a half open circuit, or any circuit at the threshold; an
\* open one starts its timeout again.
recordFailure(b) ==
  LET n == IF b.failures < Threshold THEN b.failures + 1 ELSE Threshold
  IN  IF b.state = "half" \/ n >= Threshold
      THEN [state |-> "open", failures |-> n, aged |-> FALSE]
      ELSE [b EXCEPT !.failures = n]

\* recordAPIResult: server errors, rate limits and dead connections count as
\* failures, deadlines and every other error count as nothing.
recordAPIResult(b, e) ==
  IF e = NoError THEN recordSuccess(b)
  ELSE IF e.status \in {"broken", "staleDown", "limited", "refused"}
       THEN recordFailure(b)
       ELSE b

=============================================================================
