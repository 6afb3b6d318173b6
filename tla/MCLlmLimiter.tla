--------------------------- MODULE MCLlmLimiter ---------------------------
(* Small instances of the LLM limiter: every kind of call at least once,   *)
(* more calls than permits, and more failures than the breaker allows.     *)
EXTENDS LlmLimiter

CONSTANTS j1, j2, p1, s1, r1

JsonTwo == {j1, j2}
PlainOne == {p1}
StreamOne == {s1}
ReportOne == {r1}
Nobody == {}
============================================================================
