--------------------------- MODULE MCRateLimiter ---------------------------
(* TLC instance of RateLimiterAccounting: periods of two seconds, three of  *)
(* which fit below MaxTime.                                                 *)
EXTENDS RateLimiterAccounting

MCLimits == {0, 2, 3}
MCAmounts == {0, 1, 2}
=============================================================================
