------------------------- MODULE MCAttemptSchedule -------------------------
EXTENDS AttemptSchedule
Plain(code) == [code |-> code, retry_after |-> NoHeader]
Asking(code, n) == [code |-> code, retry_after |-> [kind |-> "number", seconds |-> n]]
Unusable == [code |-> 429, retry_after |-> [kind |-> "unusable", seconds |-> 0]]
Dated == [code |-> 429, retry_after |-> [kind |-> "text", seconds |-> 0]]
(* Success, no response, 429 with every kind of Retry-After, 503 with one. *)
MCReplies ==
    {Plain(200), Plain(NoResponse), Dated, Unusable, Asking(503, 2)}
        \cup {Asking(429, n) : n \in {-3, 0, 15}}
=============================================================================
