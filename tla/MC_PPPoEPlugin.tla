--------------------------- MODULE MC_PPPoEPlugin ---------------------------
(* Small instances of PPPoEPlugin for TLC, over the frames of             *)
(* MC_PPPoEDiscovery.  The Max-Payload values are one the parsers ignore  *)
(* (below 1492, standing also for a tag of the wrong length), 1500 and    *)
(* 1600, so that a tag can lower, keep or exceed pppd's MRU of 1500.      *)
EXTENDS PPPoEPlugin, MC_PPPoEDiscovery

MCMaxPayloadValues == {1400, 1500, 1600}
=============================================================================
