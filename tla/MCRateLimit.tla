---------------------------- MODULE MCRateLimit ----------------------------
(***************************************************************************)
(* The rate limiter with two clients of different limits, a window that is *)
(* not a whole number of seconds, and a clock that runs over two windows.  *)
(***************************************************************************)
EXTENDS RateLimit

MCKeys == {"auth:a", "signup:a"}
MCLimit == [k \in MCKeys |-> IF k = "auth:a" THEN 2 ELSE 1]
=============================================================================
