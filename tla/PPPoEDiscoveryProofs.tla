------------------------- MODULE PPPoEDiscoveryProofs -------------------------
(***************************************************************************)
(* Proofs about PPPoEDiscovery, for every value of its constants.          *)
(***************************************************************************)
EXTENDS PPPoEDiscovery, TLAPS

(* The attempt counters exceed MAX_PADI_ATTEMPTS only once their loop has *)
(* been left: while discovery() is in the PADI loop, padiAttempts is at   *)
(* most the bound, and likewise padrAttempts in the PADR loop.  TypeOK    *)
(* alone is not inductive without this: a give-up step adds one to the    *)
(* counter it tests.                                                       *)
AttemptsBounded ==
    /\ pc \in {"PADI", "WaitPADO", "PADODone"} => padiAttempts <= MAX_PADI_ATTEMPTS
    /\ pc \in {"PADR", "WaitPADS"} => padrAttempts <= MAX_PADI_ATTEMPTS

TypeInv == TypeOK /\ AttemptsBounded

(* The facts about the configuration constants that the steps use, one   *)
(* conjunct of ConfigAssumption at a time.                                 *)
LEMMA ConstFacts ==
    /\ Persist \in BOOLEAN
    /\ PrintACNames \in BOOLEAN
    /\ MAX_PADI_ATTEMPTS \in Nat /\ MAX_PADI_ATTEMPTS # 0
    /\ DiscoveryTimeout \in Nat /\ DiscoveryTimeout # 0
    /\ MaxPADOs \in Nat
<1>1. Persist \in BOOLEAN
  BY ConfigAssumption
<1>2. PrintACNames \in BOOLEAN
  BY ConfigAssumption
<1>3. MAX_PADI_ATTEMPTS \in Nat /\ MAX_PADI_ATTEMPTS # 0
  BY ConfigAssumption
<1>4. DiscoveryTimeout \in Nat /\ DiscoveryTimeout # 0
  BY ConfigAssumption
<1>5. MaxPADOs \in Nat
  BY ConfigAssumption
<1>6. QED
  BY <1>1, <1>2, <1>3, <1>4, <1>5

USE ConstFacts

LEMMA SentFramesTyped ==
    /\ PADIFrame \in SentFrames
    /\ PADTFrame \in SentFrames \/ ~(peerEth \in MACs)
    /\ (peerEth \in MACs /\ cookie \in TagValue(CookieValues)
        /\ relayId \in TagValue(RelayIdValues)) => PADRFrame \in SentFrames
<1>1. PADIFrame \in SentFrames
  BY TagAssumption DEF PADIFrame, SentFrames, TagValue, MACs
<1>2. PADTFrame \in SentFrames \/ ~(peerEth \in MACs)
  BY DEF PADTFrame, SentFrames, TagValue
<1>3. (peerEth \in MACs /\ cookie \in TagValue(CookieValues)
        /\ relayId \in TagValue(RelayIdValues)) => PADRFrame \in SentFrames
  BY TagAssumption DEF PADRFrame, SentFrames, TagValue
<1>4. QED
  BY <1>1, <1>2, <1>3

(* A received frame's fields have the types of conn's fields.             *)
LEMMA FrameFieldsTyped ==
    ASSUME NEW f \in Frames
    PROVE  /\ f.src \in MACs
           /\ f.cookie \in TagValue(CookieValues)
           /\ f.relayId \in TagValue(RelayIdValues)
           /\ f.code = "PADO" => f \in PADOFrames
           /\ f.code = "PADS" => f \in PADSFrames /\ f.session \in SessionIds
BY DEF Frames, PADOFrames, PADSFrames, TagValue, MACs

(* The initial state of discovery() satisfies TypeInv.                  *)
LEMMA InitTypeInv == Init => TypeInv
<1> SUFFICES ASSUME Init PROVE TypeInv
  OBVIOUS
<1>1. TypeOK
  <2>1. pc \in PCs /\ outcome \in Outcomes /\ discoveryState \in States
    BY DEF Init, PCs, States, Outcomes
  <2>2. skipDiscovery \in BOOLEAN /\ killSession \in BOOLEAN /\ offered \in BOOLEAN
    BY DEF Init
  <2>3. /\ padiAttempts \in 0..(MAX_PADI_ATTEMPTS + 1)
        /\ padrAttempts \in 0..(MAX_PADI_ATTEMPTS + 1)
        /\ timeout \in Nat \ {0}
        /\ numPADOs \in 0..MaxPADOs
        /\ session \in SessionIds \cup {0}
    BY DEF Init
  <2>4. /\ peerEth \in MACs
        /\ cookie \in TagValue(CookieValues)
        /\ relayId \in TagValue(RelayIdValues)
        /\ lastSent \in SentFrames \cup {NoFrame}
        /\ offer \in PADOFrames \cup {NoFrame}
        /\ pads \in PADSFrames \cup {NoFrame}
    BY DEF Init, MACs, TagValue
  <2>5. QED
    BY <2>1, <2>2, <2>3, <2>4 DEF TypeOK
<1>2. AttemptsBounded
  BY DEF Init, AttemptsBounded
<1>3. QED
  BY <1>1, <1>2 DEF TypeInv

(* Every step of discovery(), and every frame delivered to it, keeps      *)
(* TypeInv.                                                                *)
LEMMA NextTypeInv == TypeInv /\ [Next]_vars => TypeInv'
<1>1. TypeInv /\ [Next]_vars => TypeOK'
  <2> SUFFICES ASSUME TypeInv, [Next]_vars PROVE TypeOK'
    OBVIOUS
  <2>. USE DEF TypeInv, TypeOK, AttemptsBounded, PCs, States, Outcomes
  <2>1. CASE DiscoverySkipped
    BY <2>1, SentFramesTyped DEF DiscoverySkipped
  <2>2. CASE DiscoveryStart
    BY <2>2 DEF DiscoveryStart
  <2>3. CASE SendPADI
    BY <2>3, SentFramesTyped DEF SendPADI
  <2>4. CASE PADIGiveUp
    BY <2>4 DEF PADIGiveUp, LeavePADILoop
  <2>5. CASE PADOTimeout
    BY <2>5 DEF PADOTimeout
  <2>6. CASE EndPADIIteration
    BY <2>6 DEF EndPADIIteration, LeavePADILoop
  <2>7. CASE SendPADR
    BY <2>7, SentFramesTyped DEF SendPADR
  <2>8. CASE PADRRestart
    BY <2>8 DEF PADRRestart
  <2>9. CASE PADRGiveUp
    BY <2>9 DEF PADRGiveUp
  <2>10. CASE PADSTimeout
    BY <2>10 DEF PADSTimeout
  <2>11. ASSUME NEW f \in Frames, PADOErrorExit(f) PROVE TypeOK'
    BY <2>11 DEF PADOErrorExit
  <2>12. ASSUME NEW f \in Frames, PADODropped(f) PROVE TypeOK'
    BY <2>12, FrameFieldsTyped DEF PADODropped, Captured
  <2>13. ASSUME NEW f \in Frames, PADOCounted(f) PROVE TypeOK'
    BY <2>13, FrameFieldsTyped DEF PADOCounted, PADOParsed, Captured
  <2>14. ASSUME NEW f \in Frames, PADSRejected(f) PROVE TypeOK'
    BY <2>14, FrameFieldsTyped DEF PADSRejected, Captured
  <2>15. ASSUME NEW f \in Frames, PADSAccepted(f) PROVE TypeOK'
    BY <2>15, FrameFieldsTyped DEF PADSAccepted, PADSParsed, Captured
  <2>16. CASE SelectError
    BY <2>16 DEF SelectError
  <2>17. CASE UNCHANGED vars
    BY <2>17 DEF vars
  <2>18. QED
    BY <2>1, <2>2, <2>3, <2>4, <2>5, <2>6, <2>7, <2>8, <2>9, <2>10, <2>11, <2>12, <2>13, <2>14, <2>15, <2>16, <2>17
    DEF Next, EngineStep, Receive
<1>2. TypeInv /\ [Next]_vars => AttemptsBounded'
  <2> SUFFICES ASSUME TypeInv, [Next]_vars PROVE AttemptsBounded'
    OBVIOUS
  <2>. USE DEF TypeInv, TypeOK, AttemptsBounded
  <2>1. CASE DiscoverySkipped
    BY <2>1 DEF DiscoverySkipped
  <2>2. CASE DiscoveryStart
    BY <2>2 DEF DiscoveryStart
  <2>3. CASE SendPADI
    BY <2>3 DEF SendPADI
  <2>4. CASE PADIGiveUp
    BY <2>4 DEF PADIGiveUp, LeavePADILoop
  <2>5. CASE PADOTimeout
    BY <2>5 DEF PADOTimeout
  <2>6. CASE EndPADIIteration
    BY <2>6 DEF EndPADIIteration, LeavePADILoop
  <2>7. CASE SendPADR
    BY <2>7 DEF SendPADR
  <2>8. CASE PADRRestart
    BY <2>8 DEF PADRRestart
  <2>9. CASE PADRGiveUp
    BY <2>9 DEF PADRGiveUp
  <2>10. CASE PADSTimeout
    BY <2>10 DEF PADSTimeout
  <2>11. ASSUME NEW f \in Frames, PADOErrorExit(f) PROVE AttemptsBounded'
    BY <2>11 DEF PADOErrorExit
  <2>12. ASSUME NEW f \in Frames, PADODropped(f) PROVE AttemptsBounded'
    BY <2>12 DEF PADODropped
  <2>13. ASSUME NEW f \in Frames, PADOCounted(f) PROVE AttemptsBounded'
    BY <2>13 DEF PADOCounted, PADOParsed
  <2>14. ASSUME NEW f \in Frames, PADSRejected(f) PROVE AttemptsBounded'
    BY <2>14 DEF PADSRejected
  <2>15. ASSUME NEW f \in Frames, PADSAccepted(f) PROVE AttemptsBounded'
    BY <2>15 DEF PADSAccepted, PADSParsed
  <2>16. CASE SelectError
    BY <2>16 DEF SelectError
  <2>17. CASE UNCHANGED vars
    BY <2>17 DEF vars
  <2>18. QED
    BY <2>1, <2>2, <2>3, <2>4, <2>5, <2>6, <2>7, <2>8, <2>9, <2>10, <2>11, <2>12, <2>13, <2>14, <2>15, <2>16, <2>17
    DEF Next, EngineStep, Receive
<1>3. QED
  BY <1>1, <1>2 DEF TypeInv

(* Spec keeps TypeInv, hence TypeOK, in every state: the engine's         *)
(* variables keep their C types and both attempt counters stay within     *)
(* 0..MAX_PADI_ATTEMPTS + 1, whatever frames the network delivers.        *)
THEOREM TypeCorrect == Spec => []TypeOK
BY InitTypeInv, NextTypeInv, PTL DEF Spec, TypeInv

-----------------------------------------------------------------------------
(* The PADR destination in persistent mode.                                *)

(* PADRInv strengthens NoPADRWithoutOffer.  While the PADI loop waits, the *)
(* last frame sent is the PADI of this pass (so a PADO selected now is     *)
(* selected "after the last PADI"); a pass that ends with the state moved  *)
(* off SentPADI has selected a PADO and copied its source into peerEth;    *)
(* and throughout the PADR loop peerEth is still that PADO's source, which *)
(* is where sendPADR addresses every PADR.                                 *)
PADRInv ==
    /\ pc \in {"WaitPADO", "PADODone"} => lastSent.code = "PADI"
    /\ pc = "WaitPADO" => discoveryState = "SentPADI"
    /\ (pc = "PADODone" /\ discoveryState # "SentPADI") =>
           offer \in PADOFrames /\ peerEth = offer.src
    /\ pc \in {"PADR", "WaitPADS"} => offer \in PADOFrames /\ peerEth = offer.src
    /\ NoPADRWithoutOffer

(* Persistent mode: every step keeps PADRInv.  The give-up steps need     *)
(* ~Persist and cannot occur.                                              *)
LEMMA NextPADRInv ==
    ASSUME Persist
    PROVE  PADRInv /\ [Next]_vars => PADRInv'
<1> SUFFICES ASSUME PADRInv, [Next]_vars PROVE PADRInv'
  OBVIOUS
<1>. USE DEF PADRInv, NoPADRWithoutOffer
<1>1. CASE DiscoverySkipped
  BY <1>1 DEF DiscoverySkipped, PADTFrame
<1>2. CASE DiscoveryStart
  BY <1>2 DEF DiscoveryStart
<1>3. CASE SendPADI
  BY <1>3 DEF SendPADI, PADIFrame
<1>4. CASE PADIGiveUp
  BY <1>4 DEF PADIGiveUp
<1>5. CASE PADOTimeout
  BY <1>5 DEF PADOTimeout
<1>6. CASE EndPADIIteration
  BY <1>6 DEF EndPADIIteration, LeavePADILoop
<1>7. CASE SendPADR
  BY <1>7 DEF SendPADR, PADRFrame
<1>8. CASE PADRRestart
  BY <1>8 DEF PADRRestart
<1>9. CASE PADRGiveUp
  BY <1>9 DEF PADRGiveUp
<1>10. CASE PADSTimeout
  BY <1>10 DEF PADSTimeout
<1>11. ASSUME NEW f \in Frames, PADOErrorExit(f) PROVE PADRInv'
  BY <1>11 DEF PADOErrorExit
<1>12. ASSUME NEW f \in Frames, PADODropped(f) PROVE PADRInv'
  BY <1>12 DEF PADODropped
<1>13. ASSUME NEW f \in Frames, PADOCounted(f) PROVE PADRInv'
  <2>1. f \in PADOFrames
    BY <1>13, FrameFieldsTyped DEF PADOCounted, PADOParsed
  <2>2. CASE PADOMatches(f) /\ ~PrintACNames
    BY <1>13, <2>1, <2>2 DEF PADOCounted
  <2>3. CASE ~(PADOMatches(f) /\ ~PrintACNames)
    BY <1>13, <2>3 DEF PADOCounted
  <2>4. QED
    BY <2>2, <2>3
<1>14. ASSUME NEW f \in Frames, PADSRejected(f) PROVE PADRInv'
  BY <1>14 DEF PADSRejected
<1>15. ASSUME NEW f \in Frames, PADSAccepted(f) PROVE PADRInv'
  BY <1>15 DEF PADSAccepted
<1>16. CASE SelectError
  BY <1>16 DEF SelectError
<1>17. CASE UNCHANGED vars
  BY <1>17 DEF vars
<1>18. QED
  BY <1>1, <1>2, <1>3, <1>4, <1>5, <1>6, <1>7, <1>8, <1>9, <1>10, <1>11,
     <1>12, <1>13, <1>14, <1>15, <1>16, <1>17
  DEF Next, EngineStep, Receive

(* In persistent mode every PADR discovery() sends goes to the AC whose    *)
(* PADO was selected after the last PADI, across PADR retries and the      *)
(* goto SEND_PADI restart (spec, testable property 5; without persist the  *)
(* property fails, see run oneshot_padr).                                  *)
THEOREM PADRToSelectedAC ==
    ASSUME Persist
    PROVE  Spec => []NoPADRWithoutOffer
<1>1. Init => PADRInv
  BY DEF Init, PADRInv, NoPADRWithoutOffer, NoFrame
<1>2. PADRInv /\ [Next]_vars => PADRInv'
  BY NextPADRInv
<1>3. PADRInv => NoPADRWithoutOffer
  BY DEF PADRInv
<1>4. QED
  BY <1>1, <1>2, <1>3, PTL DEF Spec
=============================================================================
