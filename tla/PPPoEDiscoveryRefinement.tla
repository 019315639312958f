----------------------- MODULE PPPoEDiscoveryRefinement -----------------------
(***************************************************************************)
(* discovery() as an implementation of DiscoveryAbstract.  The mapping     *)
(* reads conn->discoveryState, conn->peerEth, conn->session, where         *)
(* discovery() is, and the last frame put on the wire; not the selected    *)
(* PADO or PADS the model records beside them.                             *)
(***************************************************************************)
EXTENDS PPPoEDiscovery

(* The abstract phase is conn->discoveryState, with every exit or return  *)
(* short of a session folded into "Ended".                                 *)
AbsPhase ==
    IF discoveryState = "Session" THEN "Session"
    ELSE IF pc = "Done" THEN "Ended"
    ELSE IF discoveryState \in {"ReceivedPADO", "SentPADR"} THEN "Requesting"
    ELSE "Soliciting"

(* conn->peerEth, once a PADO has been selected through discovery.        *)
AbsPeer ==
    IF discoveryState \in {"ReceivedPADO", "SentPADR", "Session"} /\ ~skipDiscovery
      THEN peerEth
      ELSE NoFrame

(* Where the last PADR went, while it is the last frame sent.             *)
AbsTarget == IF lastSent.code = "PADR" THEN lastSent.dst ELSE NoFrame

Abs == INSTANCE DiscoveryAbstract
         WITH Peers <- FrameSrcs \ {Broadcast},
              NoPeer <- NoFrame,
              SessionIds <- SessionIds,
              phase <- AbsPhase,
              peer <- AbsPeer,
              target <- AbsTarget,
              session <- session

(* discovery() implements the abstract promise: it selects one AC per     *)
(* PADI round (waitForPADO's filters), sends every PADR to that AC only,  *)
(* and enters the Session state only on a PADS answering such a PADR; a  *)
(* PADI forgets the AC selected before it (sendPADI / goto SEND_PADI).   *)
AbsSpec == Abs!Spec
=============================================================================
