----------------------------- MODULE MCThrottle -----------------------------
(* Throttle on a small instance: two requests in three units of time. *)
EXTENDS Throttle
=============================================================================
