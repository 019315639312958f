----------------------------- MODULE PPPoEPlugin -----------------------------
(***************************************************************************)
(* The PLUGIN build of discovery(): the engine of PPPoEDiscovery composed  *)
(* with the RFC 4638 MRU negotiation against pppd's LCP options and with   *)
(* the req_peer filter.  Every step of this module is a step of the core  *)
(* engine conjoined with what the #ifdef PLUGIN code of the same handler  *)
(* does; a received frame is a core frame together with the value of its *)
(* PPP-Max-Payload tag.                                                    *)
(***************************************************************************)
EXTENDS PPPoEDiscovery

CONSTANTS
    MaxPayloadValues,  \* PPP-Max-Payload values on the wire (ntohs of 2 bytes);
                       \* a tag of another length is ignored like one below 1492
    InitAllowMru,      \* lcp_allowoptions[0].mru when discovery() starts
    InitWantMru,       \* lcp_wantoptions[0].mru when discovery() starts
    ReqPeer            \* conn->req_peer_mac, or NoTag when conn->req_peer is 0

ASSUME MaxPayloadAssumption ==
    MaxPayloadValues \subseteq Nat /\ \A v \in MaxPayloadValues : v < 65536
ASSUME MruAssumption ==
    /\ InitAllowMru \in Nat /\ InitAllowMru < 65536
    /\ InitWantMru \in Nat /\ InitWantMru < 65536
ASSUME ReqPeerAssumption == ReqPeer \in FrameSrcs \cup {NoTag}

ETH_PPPOE_MTU == 1492

MIN(x, y) == IF x < y THEN x ELSE y

VARIABLES
    allowMru,          \* lcp_allowoptions[0].mru
    wantMru,           \* lcp_wantoptions[0].mru
    seenMaxPayload,    \* conn->seenMaxPayload
    sentMaxPayload,    \* ghost: the Max-Payload tag of the last PADI/PADR sent
    offerMaxPayload,   \* ghost: the Max-Payload tag of the selected PADO
    padsMaxPayload,    \* ghost: the Max-Payload tag of the accepting PADS
    advertisers        \* ghost: sources of the tags acted on since the last PADI

pluginVars == <<allowMru, wantMru, seenMaxPayload, sentMaxPayload,
                offerMaxPayload, padsMaxPayload, advertisers>>
allVars == <<vars, pluginVars>>

(* A Max-Payload tag the parsers act on: present and at least 1492.       *)
Advertises(mp) == mp # NoTag /\ mp >= ETH_PPPOE_MTU

(* parsePADOTags / parsePADSTags, case TAG_PPP_MAX_PAYLOAD: each LCP MRU  *)
(* is lowered to the tag's value and seenMaxPayload is set.               *)
Lowered(mru, mp) == IF Advertises(mp) THEN MIN(mru, mp) ELSE mru

(* Mutant: the comparison is reversed, so the MRU is raised to the tag.  *)
ParseMaxPayloadRaise(mp) ==
    /\ allowMru' = IF Advertises(mp) /\ allowMru < mp THEN mp ELSE allowMru
    /\ wantMru' = IF Advertises(mp) /\ wantMru < mp THEN mp ELSE wantMru
    /\ seenMaxPayload' = (seenMaxPayload \/ Advertises(mp))

ParseMaxPayload(mp) ==
    /\ allowMru' = Lowered(allowMru, mp)
    /\ wantMru' = Lowered(wantMru, mp)
    /\ seenMaxPayload' = (seenMaxPayload \/ Advertises(mp))

(* sendPADI / sendPADR: the tag offered when both MRUs exceed 1492.       *)
MaxPayloadTag ==
    IF MIN(allowMru, wantMru) > ETH_PPPOE_MTU THEN MIN(allowMru, wantMru) ELSE NoTag

(* Mutant: the req_peer test is left out.                                *)
ReqPeerOKAny(f) == TRUE

(* waitForPADO under req_peer: a PADO from another MAC is skipped before  *)
(* its tags are parsed.                                                    *)
ReqPeerOK(f) == ReqPeer = NoTag \/ f.src = ReqPeer

PInit ==
    /\ Init
    /\ allowMru = InitAllowMru
    /\ wantMru = InitWantMru
    /\ seenMaxPayload = FALSE
    /\ sentMaxPayload = NoTag
    /\ offerMaxPayload = NoTag
    /\ padsMaxPayload = NoTag
    /\ advertisers = {}

(* Ghost bookkeeping of who sent a tag that was acted on.                 *)
NoteAdvertiser(f, mp) ==
    advertisers' = IF Advertises(mp) THEN advertisers \cup {f.src} ELSE advertisers

(* waitForPADO's entry clears seenMaxPayload.                             *)
WaitForPADOEntry == seenMaxPayload' = FALSE

(* sendPADI with the Max-Payload tag, then waitForPADO's entry.           *)
PSendPADI ==
    /\ SendPADI
    /\ WaitForPADOEntry
    /\ sentMaxPayload' = MaxPayloadTag
    /\ offerMaxPayload' = NoTag
    /\ advertisers' = {}
    /\ UNCHANGED <<allowMru, wantMru, padsMaxPayload>>

(* sendPADR with the Max-Payload tag.                                      *)
PSendPADR ==
    /\ SendPADR
    /\ sentMaxPayload' = MaxPayloadTag
    /\ UNCHANGED <<allowMru, wantMru, seenMaxPayload, offerMaxPayload,
                   padsMaxPayload, advertisers>>

(* A PADO with an error tag exits inside parsePADOTags: the Max-Payload  *)
(* tag has been acted on if it came before the error tag.                 *)
PPADOErrorExit(f, mp) ==
    /\ ReqPeerOK(f)
    /\ PADOErrorExit(f)
    /\ ParseMaxPayload(mp) \/ UNCHANGED <<allowMru, wantMru, seenMaxPayload>>
    /\ UNCHANGED <<sentMaxPayload, offerMaxPayload, padsMaxPayload, advertisers>>

PPADODropped(f, mp) ==
    /\ ReqPeerOK(f)
    /\ PADODropped(f)
    /\ ParseMaxPayload(mp)
    /\ NoteAdvertiser(f, mp)
    /\ UNCHANGED <<sentMaxPayload, offerMaxPayload, padsMaxPayload>>

PPADOCounted(f, mp) ==
    /\ ReqPeerOK(f)
    /\ PADOCounted(f)
    /\ ParseMaxPayload(mp)
    /\ offerMaxPayload' = IF PADOMatches(f) /\ ~PrintACNames
                            THEN mp ELSE offerMaxPayload
    /\ NoteAdvertiser(f, mp)
    /\ UNCHANGED <<sentMaxPayload, padsMaxPayload>>

PPADSRejected(f, mp) ==
    /\ PADSRejected(f)
    /\ ParseMaxPayload(mp)
    /\ NoteAdvertiser(f, mp)
    /\ UNCHANGED <<sentMaxPayload, offerMaxPayload, padsMaxPayload>>

(* A clean PADS ends the PADR loop; before returning, discovery() clamps  *)
(* both MRUs to 1492 unless a Max-Payload tag was seen (RFC 4638).        *)
PPADSAccepted(f, mp) ==
    LET seen == seenMaxPayload \/ Advertises(mp)
        Final(mru) == IF seen THEN Lowered(mru, mp) ELSE MIN(mru, ETH_PPPOE_MTU)
    IN
    /\ PADSAccepted(f)
    /\ allowMru' = Final(allowMru)
    /\ wantMru' = Final(wantMru)
    /\ seenMaxPayload' = seen
    /\ padsMaxPayload' = mp
    /\ NoteAdvertiser(f, mp)
    /\ UNCHANGED <<sentMaxPayload, offerMaxPayload>>

(* The engine steps that touch no PLUGIN state.                            *)
CoreEngineStep ==
    \/ DiscoverySkipped \/ DiscoveryStart
    \/ PADIGiveUp \/ PADOTimeout \/ EndPADIIteration
    \/ PADRRestart \/ PADRGiveUp \/ PADSTimeout

PEngineStep ==
    \/ CoreEngineStep /\ UNCHANGED pluginVars
    \/ PSendPADI
    \/ PSendPADR

PReceive(f, mp) ==
    \/ PPADOErrorExit(f, mp) \/ PPADODropped(f, mp) \/ PPADOCounted(f, mp)
    \/ PPADSRejected(f, mp) \/ PPADSAccepted(f, mp)

PNext ==
    \/ PEngineStep
    \/ \E f \in Frames, mp \in TagValue(MaxPayloadValues) : PReceive(f, mp)
    \/ SelectError /\ UNCHANGED pluginVars

PSpec == PInit /\ [][PNext]_allVars /\ WF_allVars(PEngineStep)

-----------------------------------------------------------------------------
(* The MRUs discovery() leaves to pppd never exceed a PPP-Max-Payload     *)
(* value of the exchange that set up the session: the one in the         *)
(* selected PADO, the one in the accepting PADS, and (for the smaller of  *)
(* the two MRUs) the one our last PADR offered.  Every parse may only     *)
(* lower the LCP options, across PADI retries and persistent restarts.   *)
MruWithinAdvertised ==
    (discoveryState = "Session" /\ ~skipDiscovery) =>
        /\ \A mp \in {offerMaxPayload, padsMaxPayload} :
               Advertises(mp) => allowMru <= mp /\ wantMru <= mp
        /\ Advertises(sentMaxPayload) => MIN(allowMru, wantMru) <= sentMaxPayload

(* RFC 4638, as the spec puts it (glossary, MRU): an MRU above 1492 only  *)
(* when both ends advertise PPP-Max-Payload.  After a session, an MRU    *)
(* left above 1492 by the clamp after the PADR loop implies that the AC  *)
(* holding the session sent a Max-Payload tag in this PADI round.        *)
MruCapUnlessPeerAdvertised ==
    (/\ discoveryState = "Session" /\ ~skipDiscovery
     /\ (allowMru > ETH_PPPOE_MTU \/ wantMru > ETH_PPPOE_MTU))
        => peerEth \in advertisers

(* With req_peer set, a session is only ever with that MAC: waitForPADO   *)
(* skips PADOs from other MACs before they can set conn->peerEth, and     *)
(* waitForPADS only takes a PADS from conn->peerEth.                      *)
ReqPeerHonoured ==
    (ReqPeer # NoTag /\ discoveryState = "Session" /\ ~skipDiscovery) =>
        /\ peerEth = ReqPeer
        /\ pads \in PADSFrames /\ pads.src = ReqPeer
=============================================================================
