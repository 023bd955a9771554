---------------------------- MODULE MCRateLimiter ----------------------------
EXTENDS RateLimiter

(* A clock of five readings, enough for a bucket to be drained and refilled *)
(* while it moves forth and back.                                           *)
MCClock == 0 .. 4
=============================================================================
