---------------------- MODULE PPPoEDiscoverySessionProofs ----------------------
(***************************************************************************)
(* Proofs of the session and probe-mode properties of PPPoEDiscovery:     *)
(* SessionWithChosenPeer in persistent mode, ProbeOutcome in every mode.  *)
(***************************************************************************)
EXTENDS PPPoEDiscoveryRefinementProofs

(* The PADO waitForPADO selected passed every check of the PADO path:     *)
(* addressed to us, echoing our Host-Uniq, and matching the AC-Name and   *)
(* Service-Name filters.  It holds wherever PADRInv says the selected     *)
(* PADO's source is in peerEth.                                           *)
SelInv ==
    (\/ pc \in {"PADR", "WaitPADS"}
     \/ pc = "PADODone" /\ discoveryState # "SentPADI")
        => PacketIsForMe(offer) /\ PADOMatches(offer)

(* The inductive invariant behind SessionWithChosenPeer: where discovery() *)
(* can be (CtrlInv), that the PADR loop runs on the selected PADO         *)
(* (PADRInv) and that this PADO passed the filters (SelInv).              *)
SessInv == RefInv /\ SelInv /\ SessionWithChosenPeer

(* Persistent mode: every step keeps SelInv.  A PADO is only selected    *)
(* once PADOParsed and the filters have passed; every later step of the   *)
(* PADR loop leaves offer alone.                                          *)
LEMMA NextSelInv ==
    ASSUME Persist
    PROVE  RefInv /\ SelInv /\ [Next]_vars => SelInv'
<1> SUFFICES ASSUME RefInv, SelInv, [Next]_vars PROVE SelInv'
  OBVIOUS
<1>. USE DEF RefInv, CtrlInv, PADRInv, SelInv
<1>1. CASE DiscoverySkipped
  BY <1>1 DEF DiscoverySkipped
<1>2. CASE DiscoveryStart
  BY <1>2 DEF DiscoveryStart
<1>3. CASE SendPADI
  BY <1>3 DEF SendPADI
<1>4. CASE PADIGiveUp
  BY <1>4 DEF PADIGiveUp
<1>5. CASE PADOTimeout
  BY <1>5 DEF PADOTimeout
<1>6. CASE EndPADIIteration
  BY <1>6 DEF EndPADIIteration, LeavePADILoop
<1>7. CASE SendPADR
  BY <1>7 DEF SendPADR
<1>8. CASE PADRRestart
  BY <1>8 DEF PADRRestart
<1>9. CASE PADRGiveUp
  BY <1>9 DEF PADRGiveUp
<1>10. CASE PADSTimeout
  BY <1>10 DEF PADSTimeout
<1>11. ASSUME NEW f \in Frames, PADOErrorExit(f) PROVE SelInv'
  BY <1>11 DEF PADOErrorExit
<1>12. ASSUME NEW f \in Frames, PADODropped(f) PROVE SelInv'
  BY <1>12 DEF PADODropped
<1>13. ASSUME NEW f \in Frames, PADOCounted(f) PROVE SelInv'
  <2>1. CASE PADOMatches(f) /\ ~PrintACNames
    BY <1>13, <2>1 DEF PADOCounted, PADOParsed
  <2>2. CASE ~(PADOMatches(f) /\ ~PrintACNames)
    BY <1>13, <2>2 DEF PADOCounted
  <2>3. QED
    BY <2>1, <2>2
<1>14. ASSUME NEW f \in Frames, PADSRejected(f) PROVE SelInv'
  BY <1>14 DEF PADSRejected
<1>15. ASSUME NEW f \in Frames, PADSAccepted(f) PROVE SelInv'
  BY <1>15 DEF PADSAccepted
<1>16. CASE SelectError
  BY <1>16 DEF SelectError
<1>17. CASE UNCHANGED vars
  BY <1>17 DEF vars
<1>18. QED
  BY <1>1, <1>2, <1>3, <1>4, <1>5, <1>6, <1>7, <1>8, <1>9, <1>10, <1>11,
     <1>12, <1>13, <1>14, <1>15, <1>16, <1>17
  DEF Next, EngineStep, Receive

(* Persistent mode: every step keeps SessionWithChosenPeer.  Only a clean  *)
(* PADS from peerEth enters the Session state through discovery; then    *)
(* peerEth is the selected PADO's source (PADRInv) and that PADO passed  *)
(* the filters (SelInv).  Once in the Session state discovery() has      *)
(* stopped (CtrlInv), so nothing changes afterwards.                      *)
LEMMA NextSessionPeer ==
    ASSUME Persist
    PROVE  SessInv /\ [Next]_vars => SessionWithChosenPeer'
<1> SUFFICES ASSUME SessInv, [Next]_vars PROVE SessionWithChosenPeer'
  OBVIOUS
<1>. USE DEF SessInv, RefInv, CtrlInv, PADRInv, SelInv, SessionWithChosenPeer
<1>1. CASE DiscoverySkipped
  BY <1>1 DEF DiscoverySkipped
<1>2. CASE DiscoveryStart
  BY <1>2 DEF DiscoveryStart
<1>3. CASE SendPADI
  BY <1>3 DEF SendPADI
<1>4. CASE PADIGiveUp
  BY <1>4 DEF PADIGiveUp
<1>5. CASE PADOTimeout
  BY <1>5 DEF PADOTimeout
<1>6. CASE EndPADIIteration
  BY <1>6 DEF EndPADIIteration, LeavePADILoop
<1>7. CASE SendPADR
  BY <1>7 DEF SendPADR
<1>8. CASE PADRRestart
  BY <1>8 DEF PADRRestart
<1>9. CASE PADRGiveUp
  BY <1>9 DEF PADRGiveUp
<1>10. CASE PADSTimeout
  BY <1>10 DEF PADSTimeout
<1>11. ASSUME NEW f \in Frames, PADOErrorExit(f) PROVE SessionWithChosenPeer'
  BY <1>11 DEF PADOErrorExit
<1>12. ASSUME NEW f \in Frames, PADODropped(f) PROVE SessionWithChosenPeer'
  BY <1>12 DEF PADODropped
<1>13. ASSUME NEW f \in Frames, PADOCounted(f) PROVE SessionWithChosenPeer'
  BY <1>13 DEF PADOCounted
<1>14. ASSUME NEW f \in Frames, PADSRejected(f) PROVE SessionWithChosenPeer'
  BY <1>14 DEF PADSRejected
<1>15. ASSUME NEW f \in Frames, PADSAccepted(f) PROVE SessionWithChosenPeer'
  <2>1. f \in PADSFrames
    BY <1>15, FrameFieldsTyped DEF PADSAccepted, PADSParsed
  <2>2. QED
    BY <1>15, <2>1 DEF PADSAccepted, PADSParsed
<1>16. CASE SelectError
  BY <1>16 DEF SelectError
<1>17. CASE UNCHANGED vars
  BY <1>17 DEF vars
<1>18. QED
  BY <1>1, <1>2, <1>3, <1>4, <1>5, <1>6, <1>7, <1>8, <1>9, <1>10, <1>11,
     <1>12, <1>13, <1>14, <1>15, <1>16, <1>17
  DEF Next, EngineStep, Receive

(* In persistent mode, for every configuration, a session reached through *)
(* discovery is with the AC whose PADO waitForPADO selected after the     *)
(* last PADI, that PADO passed every filter, and the PADS that gave the   *)
(* session id came from that AC and was for us, whatever frames the       *)
(* network delivers (run persist checks the same property).  Without      *)
(* persist, PADIGiveUp enters the PADR loop with peerEth still the zero   *)
(* MAC and no PADO selected, so the invariant SelInv is lost there.       *)
THEOREM SessionWithSelectedAC ==
    ASSUME Persist
    PROVE  Spec => []SessionWithChosenPeer
<1>1. Init => SessInv
  BY DEF Init, SessInv, RefInv, PADRInv, CtrlInv, SelInv, NoPADRWithoutOffer,
         SessionWithChosenPeer, NoFrame
<1>2. SessInv /\ [Next]_vars => SessInv'
  BY NextPADRInv, NextCtrlInv, NextSelInv, NextSessionPeer DEF SessInv, RefInv
<1>3. SessInv => SessionWithChosenPeer
  BY DEF SessInv
<1>4. QED
  BY <1>1, <1>2, <1>3, PTL DEF Spec

-----------------------------------------------------------------------------
(* Probe mode.                                                             *)

(* conn->numPADOs counts the well-formed PADOs for us, so it is non-zero  *)
(* exactly when one was seen; and discovery() has an outcome only once it *)
(* has stopped.  With -A, the PADR loop is never entered.                 *)
ProbeInv ==
    /\ offered <=> numPADOs > 0
    /\ outcome # "Running" => pc = "Done"
    /\ (PrintACNames /\ ~skipDiscovery) => pc \notin {"PADR", "WaitPADS"}
    /\ ProbeOutcome

(* Every step keeps ProbeInv, in every mode.  numPADOs and offered change  *)
(* together, in PADOCounted only; every step that sets an outcome stops   *)
(* discovery(); with -A, a PADO is counted but never selected, so the     *)
(* PADI loop is only left through the probe exit, whose verdict is read  *)
(* off numPADOs.                                                           *)
LEMMA NextProbeInv == TypeOK /\ ProbeInv /\ [Next]_vars => ProbeInv'
<1> SUFFICES ASSUME TypeOK, ProbeInv, [Next]_vars PROVE ProbeInv'
  OBVIOUS
<1>. USE DEF ProbeInv, ProbeOutcome
<1>1. CASE DiscoverySkipped
  BY <1>1 DEF DiscoverySkipped
<1>2. CASE DiscoveryStart
  BY <1>2 DEF DiscoveryStart
<1>3. CASE SendPADI
  BY <1>3 DEF SendPADI, PADIFrame
<1>4. CASE PADIGiveUp
  BY <1>4 DEF PADIGiveUp, LeavePADILoop
<1>5. CASE PADOTimeout
  BY <1>5 DEF PADOTimeout
<1>6. CASE EndPADIIteration
  BY <1>6 DEF EndPADIIteration, LeavePADILoop
<1>7. CASE SendPADR
  BY <1>7 DEF SendPADR
<1>8. CASE PADRRestart
  BY <1>8 DEF PADRRestart
<1>9. CASE PADRGiveUp
  BY <1>9 DEF PADRGiveUp
<1>10. CASE PADSTimeout
  BY <1>10 DEF PADSTimeout
<1>11. ASSUME NEW f \in Frames, PADOErrorExit(f) PROVE ProbeInv'
  BY <1>11 DEF PADOErrorExit, PADOGotError
<1>12. ASSUME NEW f \in Frames, PADODropped(f) PROVE ProbeInv'
  BY <1>12 DEF PADODropped
<1>13. ASSUME NEW f \in Frames, PADOCounted(f) PROVE ProbeInv'
  <2>1. numPADOs \in Nat
    BY DEF TypeOK
  <2>2. CASE PADOMatches(f) /\ ~PrintACNames
    BY <1>13, <2>1, <2>2 DEF PADOCounted
  <2>3. CASE ~(PADOMatches(f) /\ ~PrintACNames)
    BY <1>13, <2>1, <2>3 DEF PADOCounted
  <2>4. QED
    BY <2>2, <2>3
<1>14. ASSUME NEW f \in Frames, PADSRejected(f) PROVE ProbeInv'
  BY <1>14 DEF PADSRejected
<1>15. ASSUME NEW f \in Frames, PADSAccepted(f) PROVE ProbeInv'
  BY <1>15 DEF PADSAccepted
<1>16. CASE SelectError
  BY <1>16 DEF SelectError
<1>17. CASE UNCHANGED vars
  BY <1>17 DEF vars
<1>18. QED
  BY <1>1, <1>2, <1>3, <1>4, <1>5, <1>6, <1>7, <1>8, <1>9, <1>10, <1>11,
     <1>12, <1>13, <1>14, <1>15, <1>16, <1>17
  DEF Next, EngineStep, Receive

(* For every configuration, persistent or not, probe mode (-A) never sends *)
(* a PADR nor leaves the PADI states, and the process exits with success  *)
(* exactly when a well-formed PADO for this host was seen (run probe      *)
(* checks the same property).                                              *)
THEOREM ProbeVerdict == Spec => []ProbeOutcome
<1>1. Init => TypeInv /\ ProbeInv
  BY InitTypeInv DEF Init, ProbeInv, ProbeOutcome, NoFrame
<1>2. TypeInv /\ ProbeInv /\ [Next]_vars => TypeInv' /\ ProbeInv'
  BY NextTypeInv, NextProbeInv DEF TypeInv
<1>3. ProbeInv => ProbeOutcome
  BY DEF ProbeInv
<1>4. QED
  BY <1>1, <1>2, <1>3, PTL DEF Spec
=============================================================================
