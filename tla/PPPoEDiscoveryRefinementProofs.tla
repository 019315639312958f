-------------------- MODULE PPPoEDiscoveryRefinementProofs --------------------
(***************************************************************************)
(* Proof that, in persistent mode, discovery() implements                  *)
(* DiscoveryAbstract under the mapping of PPPoEDiscoveryRefinement.       *)
(***************************************************************************)
EXTENDS PPPoEDiscoveryProofs, PPPoEDiscoveryRefinement

(* Where discovery() can be, given conn->discoveryState.  With             *)
(* skipDiscovery nothing runs between entry and return; the Session       *)
(* state is only entered on the way out; the PADI loop leaves a pass in   *)
(* SentPADI or with a PADO selected; the PADR loop is only entered with   *)
(* a PADO selected (persistent mode) and waits for a PADS right after its *)
(* PADR.  The mapping needs these to read the abstract phase off          *)
(* conn->discoveryState.                                                  *)
CtrlInv ==
    /\ skipDiscovery => pc \in {"Start", "Done"}
    /\ pc = "Start" => discoveryState = "Initial" /\ lastSent = NoFrame
    /\ discoveryState = "Session" => pc = "Done"
    /\ pc = "PADODone" => discoveryState \in {"SentPADI", "ReceivedPADO"}
    /\ pc = "PADR" => discoveryState \in {"ReceivedPADO", "SentPADR"}
    /\ pc = "WaitPADS" => discoveryState = "SentPADR" /\ lastSent.code = "PADR"

RefInv == PADRInv /\ CtrlInv

(* Persistent mode: every step keeps CtrlInv, given PADRInv (a PADO wait   *)
(* runs in SentPADI).  Without persist, PADIGiveUp enters the PADR loop   *)
(* in SentPADI.                                                            *)
LEMMA NextCtrlInv ==
    ASSUME Persist
    PROVE  RefInv /\ [Next]_vars => CtrlInv'
<1> SUFFICES ASSUME RefInv, [Next]_vars PROVE CtrlInv'
  OBVIOUS
<1>. USE DEF RefInv, CtrlInv
<1>1. CASE DiscoverySkipped
  BY <1>1 DEF DiscoverySkipped
<1>2. CASE DiscoveryStart
  BY <1>2 DEF DiscoveryStart
<1>3. CASE SendPADI
  BY <1>3 DEF SendPADI
<1>4. CASE PADIGiveUp
  BY <1>4 DEF PADIGiveUp
<1>5. CASE PADOTimeout
  BY <1>5 DEF PADOTimeout, PADRInv
<1>6. CASE EndPADIIteration
  BY <1>6 DEF EndPADIIteration, LeavePADILoop
<1>7. CASE SendPADR
  BY <1>7 DEF SendPADR, PADRFrame
<1>8. CASE PADRRestart
  BY <1>8 DEF PADRRestart
<1>9. CASE PADRGiveUp
  BY <1>9 DEF PADRGiveUp
<1>10. CASE PADSTimeout
  BY <1>10 DEF PADSTimeout
<1>11. ASSUME NEW f \in Frames, PADOErrorExit(f) PROVE CtrlInv'
  BY <1>11 DEF PADOErrorExit
<1>12. ASSUME NEW f \in Frames, PADODropped(f) PROVE CtrlInv'
  BY <1>12 DEF PADODropped
<1>13. ASSUME NEW f \in Frames, PADOCounted(f) PROVE CtrlInv'
  BY <1>13 DEF PADOCounted, PADRInv
<1>14. ASSUME NEW f \in Frames, PADSRejected(f) PROVE CtrlInv'
  BY <1>14 DEF PADSRejected
<1>15. ASSUME NEW f \in Frames, PADSAccepted(f) PROVE CtrlInv'
  BY <1>15 DEF PADSAccepted
<1>16. CASE SelectError
  BY <1>16 DEF SelectError
<1>17. CASE UNCHANGED vars
  BY <1>17 DEF vars
<1>18. QED
  BY <1>1, <1>2, <1>3, <1>4, <1>5, <1>6, <1>7, <1>8, <1>9, <1>10, <1>11,
     <1>12, <1>13, <1>14, <1>15, <1>16, <1>17
  DEF Next, EngineStep, Receive

(* The initial state of discovery() maps to the abstract initial state.   *)
LEMMA InitRefines == Init => Abs!Init
BY DEF Init, Abs!Init, AbsPhase, AbsPeer, AbsTarget, NoFrame

(* The mapped variables of DiscoveryAbstract.                              *)
AbsVarsMapped == <<AbsPhase, AbsPeer, AbsTarget, session>>

(* Persistent mode: every step of discovery() is a step of                 *)
(* DiscoveryAbstract or leaves the mapped state unchanged.  The PADI step  *)
(* is a solicitation, the selecting PADO a Select, the PADR a Request and  *)
(* the clean PADS an Establish; a wait ended by a select() error, and a   *)
(* probe run ending, are End; the rest stutter.                           *)
LEMMA NextRefines ==
    ASSUME Persist
    PROVE  RefInv /\ [Next]_vars => [Abs!Next]_AbsVarsMapped
<1> SUFFICES ASSUME RefInv, [Next]_vars PROVE [Abs!Next]_AbsVarsMapped
  OBVIOUS
<1>. USE DEF RefInv, CtrlInv, PADRInv, NoPADRWithoutOffer
<1>1. CASE DiscoverySkipped
  <2>1. Abs!Skip
    BY <1>1 DEF DiscoverySkipped, Abs!Skip, AbsPhase, AbsPeer, AbsTarget,
                PADTFrame, NoFrame
  <2>2. QED
    BY <2>1 DEF Abs!Next
<1>2. CASE DiscoveryStart
  BY <1>2 DEF DiscoveryStart, AbsVarsMapped, AbsPhase, AbsPeer, AbsTarget
<1>3. CASE SendPADI
  <2>1. Abs!Solicit
    BY <1>3 DEF SendPADI, Abs!Solicit, AbsPhase, AbsPeer, AbsTarget, PADIFrame
  <2>2. QED
    BY <2>1 DEF Abs!Next
<1>4. CASE PADIGiveUp
  BY <1>4 DEF PADIGiveUp
<1>5. CASE PADOTimeout
  BY <1>5 DEF PADOTimeout, AbsVarsMapped, AbsPhase, AbsPeer, AbsTarget
<1>6. CASE EndPADIIteration
  <2>1. CASE PrintACNames /\ pc' = "Done"
    <3>1. Abs!End
      BY <1>6, <2>1 DEF EndPADIIteration, Abs!End, AbsPhase, AbsPeer, AbsTarget
    <3>2. QED
      BY <3>1 DEF Abs!Next
  <2>2. CASE ~(PrintACNames /\ pc' = "Done")
    BY <1>6, <2>2 DEF EndPADIIteration, LeavePADILoop, AbsVarsMapped, AbsPhase,
                      AbsPeer, AbsTarget
  <2>3. QED
    BY <2>1, <2>2
<1>7. CASE SendPADR
  <2>1. Abs!Request
    BY <1>7 DEF SendPADR, Abs!Request, AbsPhase, AbsPeer, AbsTarget, PADRFrame
  <2>2. QED
    BY <2>1 DEF Abs!Next
<1>8. CASE PADRRestart
  BY <1>8 DEF PADRRestart, AbsVarsMapped, AbsPhase, AbsPeer, AbsTarget
<1>9. CASE PADRGiveUp
  BY <1>9 DEF PADRGiveUp
<1>10. CASE PADSTimeout
  BY <1>10 DEF PADSTimeout, AbsVarsMapped, AbsPhase, AbsPeer, AbsTarget
<1>11. ASSUME NEW f \in Frames, PADOErrorExit(f) PROVE [Abs!Next]_AbsVarsMapped
  BY <1>11 DEF PADOErrorExit
<1>12. ASSUME NEW f \in Frames, PADODropped(f) PROVE [Abs!Next]_AbsVarsMapped
  BY <1>12 DEF PADODropped, AbsVarsMapped, AbsPhase, AbsPeer, AbsTarget
<1>13. ASSUME NEW f \in Frames, PADOCounted(f) PROVE [Abs!Next]_AbsVarsMapped
  <2>1. CASE PADOMatches(f) /\ ~PrintACNames
    <3>1. f.src \in FrameSrcs \ {Broadcast}
      BY <1>13 DEF PADOCounted, PADOParsed, Frames, PADOFrames, PADSFrames
    <3>2. Abs!Select(f.src)
      BY <1>13, <2>1 DEF PADOCounted, Abs!Select, AbsPhase, AbsPeer, AbsTarget
    <3>3. QED
      BY <3>1, <3>2 DEF Abs!Next
  <2>2. CASE ~(PADOMatches(f) /\ ~PrintACNames)
    BY <1>13, <2>2 DEF PADOCounted, AbsVarsMapped, AbsPhase, AbsPeer, AbsTarget
  <2>3. QED
    BY <2>1, <2>2
<1>14. ASSUME NEW f \in Frames, PADSRejected(f) PROVE [Abs!Next]_AbsVarsMapped
  BY <1>14 DEF PADSRejected, AbsVarsMapped, AbsPhase, AbsPeer, AbsTarget
<1>15. ASSUME NEW f \in Frames, PADSAccepted(f) PROVE [Abs!Next]_AbsVarsMapped
  <2>1. f.session \in SessionIds
    BY <1>15, FrameFieldsTyped DEF PADSAccepted, PADSParsed
  <2>2. Abs!Establish(f.session)
    BY <1>15 DEF PADSAccepted, Abs!Establish, AbsPhase, AbsPeer, AbsTarget
  <2>3. QED
    BY <2>1, <2>2 DEF Abs!Next
<1>16. CASE SelectError
  <2>1. Abs!End
    BY <1>16 DEF SelectError, Abs!End, AbsPhase, AbsPeer, AbsTarget
  <2>2. QED
    BY <2>1 DEF Abs!Next
<1>17. CASE UNCHANGED vars
  BY <1>17 DEF vars, AbsVarsMapped, AbsPhase, AbsPeer, AbsTarget
<1>18. QED
  BY <1>1, <1>2, <1>3, <1>4, <1>5, <1>6, <1>7, <1>8, <1>9, <1>10, <1>11,
     <1>12, <1>13, <1>14, <1>15, <1>16, <1>17
  DEF Next, EngineStep, Receive

(* In persistent mode, for every configuration, discovery() implements     *)
(* DiscoveryAbstract: it solicits, selects one AC per PADI round,          *)
(* requests a session from that AC only and holds a session only with the  *)
(* AC it requested, whatever frames the network delivers (run refine      *)
(* checks the same property on a small instance).                          *)
THEOREM DiscoveryRefinesAbstract ==
    ASSUME Persist
    PROVE  Spec => AbsSpec
<1>1. Init => RefInv
  BY DEF Init, RefInv, PADRInv, CtrlInv, NoPADRWithoutOffer, NoFrame
<1>2. RefInv /\ [Next]_vars => RefInv'
  BY NextPADRInv, NextCtrlInv DEF RefInv
<1>3. Init => Abs!Init
  BY InitRefines
<1>4. RefInv /\ [Next]_vars => [Abs!Next]_AbsVarsMapped
  BY NextRefines
<1>5. QED
  BY <1>1, <1>2, <1>3, <1>4, PTL DEF Spec, AbsSpec, Abs!Spec, Abs!absVars, AbsVarsMapped
=============================================================================
