----------------------------- MODULE QueueRules -----------------------------
(***************************************************************************)
(* The pure part of the outgoing queue (internal/queue/queue.go): the      *)
(* states of a row, the state changes the package calls legal, and the     *)
(* delay before a retry.  Delays are in seconds.                           *)
(***************************************************************************)
EXTENDS Integers

QueueStates == {"queued", "sending", "sent", "failed", "paused"}

Terminal(s) == s \in {"sent", "failed"}

LegalChanges ==
  ({"queued"}  \X {"sending", "paused", "failed"}) \cup
  ({"sending"} \X {"sent", "failed", "queued", "paused"}) \cup
  ({"failed"}  \X {"queued", "paused"}) \cup
  ({"paused"}  \X {"queued", "failed"})

CanTransition(from, to) == from = to \/ <<from, to>> \in LegalChanges

BackoffBase == 5
BackoffCap  == 30 * 60

\* The doubling loop of Backoff, which stops at the cap.
Delay[n \in Nat] ==
  IF n <= 1 THEN BackoffBase
  ELSE LET d == 2 * Delay[n - 1] IN IF d >= BackoffCap THEN BackoffCap ELSE d

Backoff(attempts) == Delay[IF attempts < 1 THEN 1 ELSE attempts]

\* Mutant: one attempt too many.
ExhaustedLate(attempts, max) == max > 0 /\ attempts > max

\* max = 0 means that retries never run out.
Exhausted(attempts, max) == max > 0 /\ attempts >= max

NextAttempt(attempts, max) ==
  IF Exhausted(attempts, max) THEN [delay |-> 0, retry |-> FALSE]
  ELSE [delay |-> Backoff(attempts), retry |-> TRUE]
=============================================================================
