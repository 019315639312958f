------------------------- MODULE MC_PPPoEDiscovery -------------------------
(* Small instances of PPPoEDiscovery for TLC.  Two ACs a1 and a2, one     *)
(* other host on the segment; the tag domains hold one value the client   *)
(* is configured with and, where a filter is tested, one it is not.       *)
EXTENDS PPPoEDiscoveryRefinement

CONSTANTS a1, a2, otherHost, h1, n1, n2, s1, c1, r1

MCFrameSrcs == {a1, a2, Broadcast}
(* The same, with a sender whose Ethernet source is 00:00:00:00:00:00:     *)
(* the value conn->peerEth holds before any PADO is selected.             *)
MCZeroFrameSrcs == MCFrameSrcs \cup {ZeroMac}
MCFrameDsts == {MyMac, otherHost}
MCHostUniqValues == {h1}
MCACNameValues == {n1, n2}
MCServiceNameValues == {EmptyServiceName}
MCSentinelServiceNames == {EmptyServiceName, s1}
MCCookieValues == {c1}
MCRelayIdValues == {r1}
MCSessionIds == {1}
=============================================================================
