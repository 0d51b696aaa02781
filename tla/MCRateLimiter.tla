-------------------------- MODULE MCRateLimiter --------------------------
(***************************************************************************)
(* Instances of RateLimiter for TLC.                                       *)
(***************************************************************************)
EXTENDS RateLimiter

Plain == [limited |-> FALSE, retryAfter |-> 0,
          daily |-> "none", dailyReset |-> 0, left |-> 1,
          window |-> "none", windowReset |-> 0, interval |-> 0,
          legacy |-> "none", legacyReset |-> 0]

\* A healthy response, a 429 without and with guidance, and a short pause.
MCAnswers ==
  {[Plain EXCEPT !.window = "fine"],
   [Plain EXCEPT !.limited = TRUE],
   [Plain EXCEPT !.limited = TRUE, !.daily = "exhausted", !.dailyReset = 4],
   [Plain EXCEPT !.limited = TRUE, !.retryAfter = 1]}
=============================================================================
