--------------------------- MODULE PPPoEPluginProofs ---------------------------
(***************************************************************************)
(* Proofs about the PLUGIN build's MRU negotiation, for every value of the *)
(* constants and in every mode.                                            *)
(***************************************************************************)
EXTENDS PPPoEPlugin, PPPoEDiscoverySessionProofs

(* The types of the PLUGIN state.                                          *)
PTypeOK ==
    /\ allowMru \in Nat
    /\ wantMru \in Nat
    /\ seenMaxPayload \in BOOLEAN
    /\ sentMaxPayload \in Nat \cup {NoTag}
    /\ offerMaxPayload \in TagValue(MaxPayloadValues)
    /\ padsMaxPayload \in TagValue(MaxPayloadValues)

(* MruWithinAdvertised without its Session guard: the bound holds in every *)
(* state, because a ghost tag is only recorded on the step that parses it *)
(* (which lowers both MRUs to it) and the MRUs never rise afterwards.     *)
MruInv ==
    /\ \A mp \in {offerMaxPayload, padsMaxPayload} :
           Advertises(mp) => allowMru <= mp /\ wantMru <= mp
    /\ Advertises(sentMaxPayload) => MIN(allowMru, wantMru) <= sentMaxPayload

PInv == PTypeOK /\ MruInv

(* The facts about the PLUGIN constants that the steps use.               *)
LEMMA PluginConstFacts ==
    /\ MaxPayloadValues \subseteq Nat
    /\ InitAllowMru \in Nat
    /\ InitWantMru \in Nat
<1>1. MaxPayloadValues \subseteq Nat
  BY MaxPayloadAssumption
<1>2. InitAllowMru \in Nat /\ InitWantMru \in Nat
  BY MruAssumption
<1>3. QED
  BY <1>1, <1>2

USE PluginConstFacts

(* Parsing a Max-Payload tag keeps PInv for the ghost tags it leaves      *)
(* alone, and bounds both MRUs by the tag it parses.                       *)
LEMMA ParseKeeps ==
    ASSUME PInv, NEW mp \in TagValue(MaxPayloadValues),
           allowMru' = Lowered(allowMru, mp), wantMru' = Lowered(wantMru, mp)
    PROVE  /\ allowMru' \in Nat /\ wantMru' \in Nat
           /\ allowMru' <= allowMru /\ wantMru' <= wantMru
           /\ Advertises(mp) => allowMru' <= mp /\ wantMru' <= mp
BY DEF PInv, PTypeOK, Lowered, Advertises, MIN, TagValue, ETH_PPPOE_MTU

(* Lowering both MRUs keeps every bound MruInv states for ghost tags that *)
(* do not change.                                                          *)
LEMMA LowerKeepsBounds ==
    ASSUME PInv, allowMru' \in Nat, wantMru' \in Nat,
           allowMru' <= allowMru, wantMru' <= wantMru,
           NEW x \in Nat \cup {NoTag}, Advertises(x) => allowMru <= x /\ wantMru <= x
    PROVE  Advertises(x) => allowMru' <= x /\ wantMru' <= x
BY DEF PInv, PTypeOK, Advertises, ETH_PPPOE_MTU

(* Lowering both MRUs keeps the bound on the smaller one that the last    *)
(* offered tag states.                                                     *)
LEMMA LowerKeepsSent ==
    ASSUME PInv, allowMru' \in Nat, wantMru' \in Nat,
           allowMru' <= allowMru, wantMru' <= wantMru,
           Advertises(sentMaxPayload) => MIN(allowMru, wantMru) <= sentMaxPayload
    PROVE  Advertises(sentMaxPayload) => MIN(allowMru', wantMru') <= sentMaxPayload
BY DEF PInv, PTypeOK, Advertises, MIN, ETH_PPPOE_MTU

(* The initial LCP options satisfy PInv: no tag has been seen or sent.    *)
LEMMA InitPInv == PInit => PInv
BY DEF PInit, PInv, PTypeOK, MruInv, Advertises, TagValue

(* The tag sendPADI and sendPADR offer bounds the smaller MRU.            *)
LEMMA SentTagBound ==
    ASSUME PInv
    PROVE  /\ MaxPayloadTag \in Nat \cup {NoTag}
           /\ Advertises(MaxPayloadTag) => MIN(allowMru, wantMru) <= MaxPayloadTag
<1>1. MIN(allowMru, wantMru) \in Nat
  BY DEF PInv, PTypeOK, MIN
<1>2. CASE MIN(allowMru, wantMru) > ETH_PPPOE_MTU
  BY <1>1, <1>2 DEF MaxPayloadTag
<1>3. CASE ~(MIN(allowMru, wantMru) > ETH_PPPOE_MTU)
  BY <1>3 DEF MaxPayloadTag, Advertises
<1>4. QED
  BY <1>2, <1>3

(* A parse of a Max-Payload tag that leaves the ghost tags alone keeps     *)
(* MruInv: it only lowers the MRUs.                                        *)
LEMMA ParseKeepsInv ==
    ASSUME PInv, NEW mp \in TagValue(MaxPayloadValues), ParseMaxPayload(mp),
           UNCHANGED <<sentMaxPayload, offerMaxPayload, padsMaxPayload>>
    PROVE  PInv'
<1>1. /\ allowMru' \in Nat /\ wantMru' \in Nat
      /\ allowMru' <= allowMru /\ wantMru' <= wantMru
  BY ParseKeeps DEF ParseMaxPayload
<1>2. PTypeOK'
  BY <1>1 DEF ParseMaxPayload, PInv, PTypeOK
<1>3. \A x \in {offerMaxPayload, padsMaxPayload} :
          Advertises(x) => allowMru' <= x /\ wantMru' <= x
  BY <1>1, LowerKeepsBounds DEF PInv, PTypeOK, MruInv, TagValue
<1>4. Advertises(sentMaxPayload) => MIN(allowMru', wantMru') <= sentMaxPayload
  BY <1>1, LowerKeepsSent DEF PInv, MruInv
<1>5. QED
  BY <1>2, <1>3, <1>4 DEF PInv, MruInv

(* The PADI and PADR steps record the tag they offer and keep PInv.       *)
LEMMA SendKeepsInv ==
    ASSUME PInv, UNCHANGED <<allowMru, wantMru, padsMaxPayload>>,
           sentMaxPayload' = MaxPayloadTag,
           offerMaxPayload' \in {offerMaxPayload, NoTag},
           seenMaxPayload' \in BOOLEAN
    PROVE  PInv'
<1>1. MaxPayloadTag \in Nat \cup {NoTag}
      /\ (Advertises(MaxPayloadTag) => MIN(allowMru, wantMru) <= MaxPayloadTag)
  BY SentTagBound
<1>2. PTypeOK'
  BY <1>1 DEF PInv, PTypeOK, TagValue
<1>3. \A x \in {offerMaxPayload', padsMaxPayload'} :
          Advertises(x) => allowMru' <= x /\ wantMru' <= x
  BY DEF PInv, MruInv, Advertises
<1>4. QED
  BY <1>1, <1>2, <1>3 DEF PInv, MruInv

(* The clamp after the PADR loop keeps PInv and bounds both MRUs by the   *)
(* accepting PADS's tag: a PADS tag that is acted on sets seen, and then *)
(* Final lowers to it.                                                     *)
LEMMA AcceptKeepsInv ==
    ASSUME PInv, NEW f \in Frames, NEW mp \in TagValue(MaxPayloadValues),
           PPADSAccepted(f, mp)
    PROVE  PInv'
<1>1. /\ allowMru' \in Nat /\ wantMru' \in Nat
      /\ allowMru' <= allowMru /\ wantMru' <= wantMru
      /\ Advertises(mp) => allowMru' <= mp /\ wantMru' <= mp
  BY DEF PPADSAccepted, PInv, PTypeOK, Lowered, Advertises, MIN, TagValue,
         ETH_PPPOE_MTU
<1>2. PTypeOK'
  BY <1>1 DEF PPADSAccepted, PInv, PTypeOK
<1>3. Advertises(offerMaxPayload') => allowMru' <= offerMaxPayload' /\ wantMru' <= offerMaxPayload'
  BY <1>1, LowerKeepsBounds DEF PPADSAccepted, PInv, PTypeOK, MruInv, TagValue
<1>4. Advertises(sentMaxPayload') => MIN(allowMru', wantMru') <= sentMaxPayload'
  BY <1>1, LowerKeepsSent DEF PPADSAccepted, PInv, MruInv
<1>5. QED
  BY <1>1, <1>2, <1>3, <1>4 DEF PPADSAccepted, PInv, MruInv

(* Every step of the PLUGIN build keeps PInv: the core steps leave the     *)
(* PLUGIN state alone, the PADI and PADR steps record what they offer,     *)
(* and every received frame only lowers the MRUs (to its tag, when the    *)
(* ghost records that tag).                                                *)
LEMMA NextPInv == PInv /\ [PNext]_allVars => PInv'
<1> SUFFICES ASSUME PInv, [PNext]_allVars PROVE PInv'
  OBVIOUS
<1>1. CASE CoreEngineStep /\ UNCHANGED pluginVars
  BY <1>1 DEF pluginVars, PInv, PTypeOK, MruInv
<1>2. CASE PSendPADI
  BY <1>2, SendKeepsInv DEF PSendPADI, WaitForPADOEntry
<1>3. CASE PSendPADR
  BY <1>3, SendKeepsInv DEF PSendPADR, PInv, PTypeOK
<1>4. ASSUME NEW f \in Frames, NEW mp \in TagValue(MaxPayloadValues),
             PPADOErrorExit(f, mp)
      PROVE  PInv'
  <2>1. CASE ParseMaxPayload(mp)
    BY <1>4, <2>1, ParseKeepsInv DEF PPADOErrorExit
  <2>2. CASE UNCHANGED <<allowMru, wantMru, seenMaxPayload>>
    BY <1>4, <2>2 DEF PPADOErrorExit, PInv, PTypeOK, MruInv
  <2>3. QED
    BY <1>4, <2>1, <2>2 DEF PPADOErrorExit
<1>5. ASSUME NEW f \in Frames, NEW mp \in TagValue(MaxPayloadValues),
             PPADODropped(f, mp)
      PROVE  PInv'
  BY <1>5, ParseKeepsInv DEF PPADODropped
<1>6. ASSUME NEW f \in Frames, NEW mp \in TagValue(MaxPayloadValues),
             PPADOCounted(f, mp)
      PROVE  PInv'
  <2>1. CASE PADOMatches(f) /\ ~PrintACNames
    <3>1. /\ allowMru' \in Nat /\ wantMru' \in Nat
          /\ allowMru' <= allowMru /\ wantMru' <= wantMru
          /\ Advertises(mp) => allowMru' <= mp /\ wantMru' <= mp
      BY <1>6, ParseKeeps DEF PPADOCounted, ParseMaxPayload
    <3>2. PTypeOK'
      BY <1>6, <2>1, <3>1 DEF PPADOCounted, ParseMaxPayload, PInv, PTypeOK
    <3>3. Advertises(padsMaxPayload') => allowMru' <= padsMaxPayload' /\ wantMru' <= padsMaxPayload'
      BY <1>6, <3>1, LowerKeepsBounds DEF PPADOCounted, PInv, PTypeOK, MruInv, TagValue
    <3>4. Advertises(sentMaxPayload') => MIN(allowMru', wantMru') <= sentMaxPayload'
      BY <1>6, <3>1, LowerKeepsSent DEF PPADOCounted, PInv, MruInv
    <3>5. offerMaxPayload' = mp
      BY <1>6, <2>1 DEF PPADOCounted
    <3>6. QED
      BY <3>1, <3>2, <3>3, <3>4, <3>5 DEF PInv, MruInv
  <2>2. CASE ~(PADOMatches(f) /\ ~PrintACNames)
    BY <1>6, <2>2, ParseKeepsInv DEF PPADOCounted
  <2>3. QED
    BY <2>1, <2>2
<1>7. ASSUME NEW f \in Frames, NEW mp \in TagValue(MaxPayloadValues),
             PPADSRejected(f, mp)
      PROVE  PInv'
  BY <1>7, ParseKeepsInv DEF PPADSRejected
<1>8. ASSUME NEW f \in Frames, NEW mp \in TagValue(MaxPayloadValues),
             PPADSAccepted(f, mp)
      PROVE  PInv'
  BY <1>8, AcceptKeepsInv
<1>9. CASE SelectError /\ UNCHANGED pluginVars
  BY <1>9 DEF pluginVars, PInv, PTypeOK, MruInv
<1>10. CASE UNCHANGED allVars
  BY <1>10 DEF allVars, pluginVars, PInv, PTypeOK, MruInv
<1>11. QED
  BY <1>1, <1>2, <1>3, <1>4, <1>5, <1>6, <1>7, <1>8, <1>9, <1>10
  DEF PNext, PEngineStep, PReceive

(* For every configuration, in every mode, the MRUs the PLUGIN build of  *)
(* discovery() hands to pppd never exceed a PPP-Max-Payload value of the *)
(* selected PADO or the accepting PADS, and the smaller never exceeds    *)
(* the one our last PADR offered (run plugin checks the same property).  *)
THEOREM MruBounded == PSpec => []MruWithinAdvertised
<1>1. PInit => PInv
  BY InitPInv
<1>2. PInv /\ [PNext]_allVars => PInv'
  BY NextPInv
<1>3. PInv => MruWithinAdvertised
  BY DEF PInv, MruInv, MruWithinAdvertised
<1>4. QED
  BY <1>1, <1>2, <1>3, PTL DEF PSpec

-----------------------------------------------------------------------------
(* req_peer.                                                               *)

(* With req_peer set, the PADO the PADR loop runs on, and the one a       *)
(* session was set up from, came from the required MAC.                   *)
ReqInv ==
    ReqPeer # NoTag =>
        /\ (\/ pc \in {"PADR", "WaitPADS"}
            \/ pc = "PADODone" /\ discoveryState # "SentPADI")
               => offer.src = ReqPeer
        /\ (discoveryState = "Session" /\ ~skipDiscovery) => offer.src = ReqPeer

(* Every step of the PLUGIN build is a step of the core engine, or leaves  *)
(* the core state alone: the #ifdef PLUGIN code only adds to what each   *)
(* handler does.  The core invariants therefore hold in the PLUGIN build. *)
LEMMA PluginStepIsCoreStep == [PNext]_allVars => [Next]_vars
<1> SUFFICES ASSUME [PNext]_allVars PROVE [Next]_vars
  OBVIOUS
<1>1. CASE CoreEngineStep /\ UNCHANGED pluginVars
  BY <1>1 DEF CoreEngineStep, Next, EngineStep
<1>2. CASE PSendPADI
  BY <1>2 DEF PSendPADI, Next, EngineStep
<1>3. CASE PSendPADR
  BY <1>3 DEF PSendPADR, Next, EngineStep
<1>4. ASSUME NEW f \in Frames, NEW mp \in TagValue(MaxPayloadValues),
             PReceive(f, mp)
      PROVE  [Next]_vars
  BY <1>4 DEF PReceive, PPADOErrorExit, PPADODropped, PPADOCounted,
              PPADSRejected, PPADSAccepted, Next, Receive
<1>5. CASE SelectError /\ UNCHANGED pluginVars
  BY <1>5 DEF Next
<1>6. CASE UNCHANGED allVars
  BY <1>6 DEF allVars, vars
<1>7. QED
  BY <1>1, <1>2, <1>3, <1>4, <1>5, <1>6 DEF PNext, PEngineStep

(* Persistent mode: every PLUGIN step keeps ReqInv.  waitForPADO skips a  *)
(* PADO from another MAC before it can be selected; later steps of the    *)
(* PADR loop leave offer alone.                                           *)
LEMMA NextReqInv ==
    ASSUME Persist
    PROVE  SessInv /\ ReqInv /\ [PNext]_allVars => ReqInv'
<1> SUFFICES ASSUME SessInv, ReqInv, [PNext]_allVars, ReqPeer # NoTag
             PROVE  ReqInv'
  BY DEF ReqInv
<1>. USE DEF SessInv, RefInv, CtrlInv, PADRInv, ReqInv
<1>1. CASE CoreEngineStep /\ UNCHANGED pluginVars
  BY <1>1 DEF CoreEngineStep, DiscoverySkipped, DiscoveryStart, PADIGiveUp,
              PADOTimeout, EndPADIIteration, LeavePADILoop, PADRRestart,
              PADRGiveUp, PADSTimeout
<1>2. CASE PSendPADI
  BY <1>2 DEF PSendPADI, SendPADI
<1>3. CASE PSendPADR
  BY <1>3 DEF PSendPADR, SendPADR
<1>4. ASSUME NEW f \in Frames, NEW mp \in TagValue(MaxPayloadValues),
             PPADOErrorExit(f, mp)
      PROVE  ReqInv'
  BY <1>4 DEF PPADOErrorExit, PADOErrorExit
<1>5. ASSUME NEW f \in Frames, NEW mp \in TagValue(MaxPayloadValues),
             PPADODropped(f, mp)
      PROVE  ReqInv'
  BY <1>5 DEF PPADODropped, PADODropped
<1>6. ASSUME NEW f \in Frames, NEW mp \in TagValue(MaxPayloadValues),
             PPADOCounted(f, mp)
      PROVE  ReqInv'
  <2>1. CASE PADOMatches(f) /\ ~PrintACNames
    BY <1>6, <2>1 DEF PPADOCounted, PADOCounted, ReqPeerOK
  <2>2. CASE ~(PADOMatches(f) /\ ~PrintACNames)
    BY <1>6, <2>2 DEF PPADOCounted, PADOCounted
  <2>3. QED
    BY <2>1, <2>2
<1>7. ASSUME NEW f \in Frames, NEW mp \in TagValue(MaxPayloadValues),
             PPADSRejected(f, mp)
      PROVE  ReqInv'
  BY <1>7 DEF PPADSRejected, PADSRejected
<1>8. ASSUME NEW f \in Frames, NEW mp \in TagValue(MaxPayloadValues),
             PPADSAccepted(f, mp)
      PROVE  ReqInv'
  BY <1>8 DEF PPADSAccepted, PADSAccepted
<1>9. CASE SelectError /\ UNCHANGED pluginVars
  BY <1>9 DEF SelectError
<1>10. CASE UNCHANGED allVars
  BY <1>10 DEF allVars, vars
<1>11. QED
  BY <1>1, <1>2, <1>3, <1>4, <1>5, <1>6, <1>7, <1>8, <1>9, <1>10
  DEF PNext, PEngineStep, PReceive

(* In persistent mode, for every configuration, with req_peer set the     *)
(* PLUGIN build only ever holds a session with the required MAC, set up  *)
(* by a PADS from that MAC (run plugin checks the same property, without *)
(* persist).  The core invariant SessInv carries over to the PLUGIN build *)
(* because each of its steps is a core step.                              *)
THEOREM ReqPeerSession ==
    ASSUME Persist
    PROVE  PSpec => []ReqPeerHonoured
<1>1. PInit => SessInv /\ ReqInv
  BY DEF PInit, Init, SessInv, RefInv, PADRInv, CtrlInv, SelInv, ReqInv,
         NoPADRWithoutOffer, SessionWithChosenPeer, NoFrame
<1>2. SessInv /\ [PNext]_allVars => SessInv'
  BY PluginStepIsCoreStep, NextPADRInv, NextCtrlInv, NextSelInv,
     NextSessionPeer DEF SessInv, RefInv
<1>3. SessInv /\ ReqInv /\ [PNext]_allVars => ReqInv'
  BY NextReqInv
<1>4. SessInv /\ ReqInv => ReqPeerHonoured
  BY DEF SessInv, ReqInv, SessionWithChosenPeer, ReqPeerHonoured
<1>5. QED
  BY <1>1, <1>2, <1>3, <1>4, PTL DEF PSpec
-----------------------------------------------------------------------------
(* The PLUGIN build implements DiscoveryAbstract too.                      *)

(* In persistent mode, for every configuration, the PLUGIN build of       *)
(* discovery() that pppd loads implements the abstract promise: the       *)
(* #ifdef PLUGIN code (MRU negotiation, req_peer) adds to the handlers   *)
(* without breaking the solicit / select / request / establish order that *)
(* run refine checks for the core build.                                   *)
THEOREM PluginRefinesAbstract ==
    ASSUME Persist
    PROVE  PSpec => AbsSpec
<1>1. PInit => RefInv
  BY DEF PInit, Init, RefInv, PADRInv, CtrlInv, NoPADRWithoutOffer, NoFrame
<1>2. RefInv /\ [PNext]_allVars => RefInv'
  BY PluginStepIsCoreStep, NextPADRInv, NextCtrlInv DEF RefInv
<1>3. PInit => Abs!Init
  BY InitRefines DEF PInit
<1>4. RefInv /\ [PNext]_allVars => [Abs!Next]_AbsVarsMapped
  BY PluginStepIsCoreStep, NextRefines
<1>5. QED
  BY <1>1, <1>2, <1>3, <1>4, PTL
  DEF PSpec, AbsSpec, Abs!Spec, Abs!absVars, AbsVarsMapped
=============================================================================
