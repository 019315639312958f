-------------------------- MODULE MC_TimedReceiver --------------------------
(* Four ticks a second and a one-second timeout: the deadline falls on    *)
(* every sub-second offset, and the clock runs two seconds past it.       *)
EXTENDS TimedReceiver
=============================================================================
