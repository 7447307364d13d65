----------------------------- MODULE Signature -----------------------------
(***************************************************************************)
(* services/hmac_service.py: the header X-Webhook-Signature and its check. *)
(* The HMAC is symbolic: it is equal for equal inputs only.  A header is   *)
(* what verify_signature makes of the text: a "t" that is an integer and a *)
(* "v1", or malformed.                                                     *)
(***************************************************************************)
EXTENDS Integers

CONSTANT Tolerance    \* HMAC_TIMESTAMP_TOLERANCE_SECONDS

ASSUME SignatureAssumption == Tolerance \in Nat

Hmac(secret, timestamp, body) == [key |-> secret, t |-> timestamp, msg |-> body]

SignPayload(body, secret, timestamp) ==
    [parsed |-> TRUE, t |-> timestamp, v1 |-> Hmac(secret, timestamp, body)]

Distance(a, b) == IF a < b THEN b - a ELSE a - b

(* MUTANT of VerifySignature: only the past is looked at, and not enough. *)
VerifySignatureLate(body, header, secret, clock) ==
    /\ header.parsed
    /\ clock - header.t <= Tolerance + 1
    /\ header.v1 = Hmac(secret, header.t, body)

VerifySignature(body, header, secret, clock) ==
    /\ header.parsed
    /\ Distance(clock, header.t) <= Tolerance
    /\ header.v1 = Hmac(secret, header.t, body)

(* The answer of POST /inbound/verify, with its second reading of the clock; *)
(* the age is -1 when there is none.                                         *)
InboundAnswer(body, header, secret, clock, later) ==
    [valid |-> VerifySignature(body, header, secret, clock),
     age |-> IF header.parsed /\ header.t # 0 THEN Distance(later, header.t) ELSE -1]

=============================================================================
