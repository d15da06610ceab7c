--------------------------- MODULE MCTokenBucket ----------------------------
(* A bucket of two tokens.  A second is three ticks and a token four, so    *)
(* that a Retry-After has something to round.                               *)
EXTENDS TokenBucket
=============================================================================
