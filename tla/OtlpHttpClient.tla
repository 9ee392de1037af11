--------------------------- MODULE OtlpHttpClient ---------------------------
(***************************************************************************)
(* The OTLP/HTTP sender: send() posts one batch again and again until the  *)
(* collector's answer is final, the attempts or the retry budget are used  *)
(* up, or the caller's deadline aborts it, and reports what it knows of    *)
(* the delivery.  The collector is the environment: any answer, late or    *)
(* none; whether it took in a batch nobody got an answer for is not        *)
(* something any property speaks of.                                       *)
(*                                                                         *)
(* A caller is one asynchronous chain of an exporter: its exportSnapshot   *)
(* call, its background flushes, or its explicit flush() or shutdown().    *)
(***************************************************************************)
EXTENDS Naturals, FiniteSets

CONSTANTS
  Exporters,    \* one process each, all on one queue directory
  MaxBatches,   \* bound: batches ever queued
  MaxAttempts   \* retryMaxAttempts

ASSUME HttpClientAssumption ==
  MaxBatches \in Nat \ {0} /\ MaxAttempts \in Nat \ {0}

VARIABLE sending   \* per caller: the send() it awaits

Callers == Exporters \X {"export", "background", "flush"}
Batches == 1..MaxBatches

(* Fault: a batch whose retries are exhausted is given up for good.        *)
FinalStatesWithExhausted == {"accepted", "rejected", "exhausted"}

(* The reports after which the queue removes a batch.                      *)
FinalStates == {"accepted", "rejected"}
Reported == {"accepted", "rejected", "exhausted", "unknown_delivery"}

Send == [state : {"none", "waiting", "pausing"} \cup Reported,
         batch : Batches \cup {0}, attempts : 0..MaxAttempts]
NotSending == [state |-> "none", batch |-> 0, attempts |-> 0]

HttpTypeOK == sending \in [Callers -> Send]

HttpInit == sending = [c \in Callers |-> NotSending]

-----------------------------------------------------------------------------
(* Only flush() and shutdown() pass a deadline on as an abort signal.      *)
MayAbort(c) == c[2] = "flush"

Becomes(c, state) == sending' = [sending EXCEPT ![c] = [@ EXCEPT !.state = state]]

(* The head of the retry loop: resolve the target, which depends on the    *)
(* environment of the moment, and post the request.                        *)
Attempt(c, send) ==
  \/ sending' = [sending EXCEPT ![c] = [send EXCEPT !.state = "rejected"]]
  \/ sending' = [sending EXCEPT ![c] = [send EXCEPT !.state = "waiting", !.attempts = @ + 1]]

BeginSend(c, b) == Attempt(c, [NotSending EXCEPT !.batch = b])

(* Fault: one attempt too many.                                            *)
AfterFailureOffByOne(c, giveUp) ==
  \/ Becomes(c, giveUp)
  \/ sending[c].attempts <= MaxAttempts /\ Becomes(c, "pausing")

(* The tail of the loop, after a failed attempt: give up when the attempts *)
(* or the retry budget are used up, else sleep.                            *)
AfterFailure(c, giveUp) ==
  \/ Becomes(c, giveUp)
  \/ sending[c].attempts < MaxAttempts /\ Becomes(c, "pausing")

(* A 200 answer to the whole batch.                                        *)
Accepted(c) ==
  /\ sending[c].state = "waiting"
  /\ Becomes(c, "accepted")

(* Partial success, an answer that cannot be parsed, or a status that is   *)
(* neither 200 nor retryable.                                              *)
Rejected(c) ==
  /\ sending[c].state = "waiting"
  /\ Becomes(c, "rejected")

(* Status 429, 502, 503 or 504.                                            *)
Retryable(c) ==
  /\ sending[c].state = "waiting"
  /\ AfterFailure(c, "exhausted")

(* The request timed out, the connection broke or the answer was too long. *)
NoAnswer(c) ==
  /\ sending[c].state = "waiting"
  /\ AfterFailure(c, "unknown_delivery")

AfterPause(c) ==
  /\ sending[c].state = "pausing"
  /\ Attempt(c, sending[c])

Aborted(c) ==
  /\ MayAbort(c)
  /\ sending[c].state \in {"waiting", "pausing"}
  /\ Becomes(c, "unknown_delivery")

HttpStep(c) ==
  Accepted(c) \/ Rejected(c) \/ Retryable(c) \/ NoAnswer(c) \/ AfterPause(c) \/ Aborted(c)
=============================================================================
