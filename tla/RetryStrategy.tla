--------------------------- MODULE RetryStrategy ---------------------------
(***************************************************************************)
(* services/retry_service.py: is a failed attempt tried again?             *)
(***************************************************************************)
EXTENDS Integers

(* The POST ended without a response: timeout, refused connection, ... *)
NoResponse == 0

RetryableStatusCodes == {429, 500, 502, 503, 504}

PermanentFailureCodes == {400, 401, 403, 404, 410}

(* Sending again a delivery that can no longer succeed, or giving up one   *)
(* that could: both are decided here.                                      *)
RetryableReply(code) ==
    \/ code = NoResponse
    \/ /\ code \notin PermanentFailureCodes
       /\ code \in RetryableStatusCodes \/ code \notin 400..499

ShouldRetry(code, attempt_count, max_retries) ==
    /\ attempt_count < max_retries
    /\ RetryableReply(code)

(* MUTANT of Succeeded: a redirect counts as delivered. *)
SucceededBelow400(code) == code \in 200..399

Succeeded(code) == code \in 200..299

=============================================================================
