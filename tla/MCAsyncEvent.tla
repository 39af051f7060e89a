---------------------------- MODULE MCAsyncEvent ----------------------------
(* Instances of AsyncEvent for TLC. *)
EXTENDS AsyncEvent, TLC

CONSTANTS c1, c2, r1, r2, w1

=============================================================================
