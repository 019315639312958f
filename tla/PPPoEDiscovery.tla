--------------------------- MODULE PPPoEDiscovery ---------------------------
(***************************************************************************)
(* The client side of the PPPoE Discovery stage, as implemented by         *)
(* discovery() and its helpers in src/src/discovery.c.                     *)
(*                                                                         *)
(* The engine is single-threaded.  Its only suspension points are the      *)
(* select() calls inside waitForPADO and waitForPADS; what interleaves     *)
(* with it is the Ethernet segment, which may deliver any frame at any     *)
(* time (lost, duplicated, delayed, reordered or forged frames are all     *)
(* covered by letting a wait receive any member of Frames, or time out).   *)
(*                                                                         *)
(* A frame is abstracted to the fields the code looks at: its MAC          *)
(* addresses, its code, and the value of each tag it carries (NoTag when   *)
(* the tag is absent; each tag at most once).  Wire encoding is left to    *)
(* the codec; the build modelled is the standalone one (no PLUGIN).        *)
(***************************************************************************)
EXTENDS Naturals

CONSTANTS
    MyMac,              \* conn->myEth
    Broadcast,          \* FF:FF:FF:FF:FF:FF
    ZeroMac,            \* 00:00:00:00:00:00, conn->peerEth before any PADO
    FrameSrcs,          \* source MACs a received frame may carry
    FrameDsts,          \* destination MACs a received frame may carry
    NoTag,              \* a tag that is absent, or a configuration string that is NULL
    HostUniqValues,     \* Host-Uniq values that may appear on the wire
    ACNameValues,       \* AC-Name values
    ServiceNameValues,  \* Service-Name values
    EmptyServiceName,   \* the Service-Name of length 0
    NoServiceNameSentinel, \* "NO-SERVICE-NAME-NON-RFC-COMPLIANT"
    CookieValues,       \* AC-Cookie values
    RelayIdValues,      \* Relay-Session-Id values
    SessionIds,         \* session ids a PADS may carry
    HostUniq,           \* conn->hostUniq   (NoTag: not used)
    ACName,             \* conn->acName     (NoTag: any AC)
    ServiceName,        \* conn->serviceName (NoTag: any service)
    Persist,            \* the global persist
    PrintACNames,       \* conn->printACNames (probe mode, -A)
    MAX_PADI_ATTEMPTS,  \* pppoe.h; bounds both the PADI and the PADR loops
    DiscoveryTimeout,   \* conn->discoveryTimeout, in seconds
    MaxPADOs            \* model bound on conn->numPADOs (PADOs counted)

MACs == FrameSrcs \cup FrameDsts \cup {MyMac, Broadcast, ZeroMac}

ASSUME MACAssumption ==
    /\ Broadcast \in FrameSrcs
    /\ MyMac \in FrameDsts
    /\ MyMac # Broadcast /\ MyMac # ZeroMac /\ Broadcast # ZeroMac

ASSUME TagAssumption ==
    /\ NoTag \notin HostUniqValues \cup ACNameValues \cup ServiceNameValues
                    \cup CookieValues \cup RelayIdValues
    /\ EmptyServiceName \in ServiceNameValues
    /\ HostUniq \in HostUniqValues \cup {NoTag}
    /\ ACName \in ACNameValues \cup {NoTag}
    /\ ServiceName \in ServiceNameValues \cup {NoTag, NoServiceNameSentinel}
    /\ NoServiceNameSentinel # NoTag

ASSUME ConfigAssumption ==
    /\ Persist \in BOOLEAN
    /\ PrintACNames \in BOOLEAN
    /\ MAX_PADI_ATTEMPTS \in Nat \ {0}
    /\ DiscoveryTimeout \in Nat \ {0}
    /\ MaxPADOs \in Nat
    /\ SessionIds \subseteq 0..65535

TagValue(S) == S \cup {NoTag}

(* A received PADO or PADS: only the tags the parsers look at are kept.   *)
PADOFrames ==
    [code : {"PADO"}, dst : FrameDsts, src : FrameSrcs,
     hostUniq : TagValue(HostUniqValues), acName : TagValue(ACNameValues),
     serviceName : TagValue(ServiceNameValues), cookie : TagValue(CookieValues),
     relayId : TagValue(RelayIdValues), error : BOOLEAN, session : {0}]

PADSFrames ==
    [code : {"PADS"}, dst : FrameDsts, src : FrameSrcs,
     hostUniq : TagValue(HostUniqValues), acName : {NoTag},
     serviceName : {NoTag}, cookie : {NoTag},
     relayId : TagValue(RelayIdValues), error : BOOLEAN, session : SessionIds]

Frames == PADOFrames \cup PADSFrames

(* A frame the engine sends: PADI, PADR, or the PADT of -k.               *)
SentFrames ==
    [code : {"PADI", "PADR", "PADT"}, dst : MACs,
     serviceName : TagValue(ServiceNameValues) \cup {NoServiceNameSentinel},
     hostUniq : TagValue(HostUniqValues),
     cookie : TagValue(CookieValues), relayId : TagValue(RelayIdValues)]

NoFrame == [code |-> "none"]

PCs == {"Start", "PADI", "WaitPADO", "PADODone", "PADR", "WaitPADS", "Done"}
States == {"Initial", "SentPADI", "ReceivedPADO", "SentPADR", "Session"}
Outcomes == {"Running", "Returned", "ExitSuccess", "ExitFailure", "Fatal"}

VARIABLES
    pc,              \* where discovery() is
    outcome,         \* how discovery() ended: returned, or exit()ed the process
    skipDiscovery,   \* conn->skipDiscovery
    killSession,     \* conn->killSession
    discoveryState,  \* conn->discoveryState
    padiAttempts,    \* local padiAttempts
    padrAttempts,    \* local padrAttempts
    timeout,         \* local timeout of discovery(), in seconds
    peerEth,         \* conn->peerEth
    cookie,          \* conn->cookie (NoTag while its type is 0)
    relayId,         \* conn->relayId (NoTag while its type is 0)
    numPADOs,        \* conn->numPADOs
    session,         \* conn->session
    lastSent,        \* ghost: the last frame put on the wire
    offer,           \* ghost: the PADO selected since the last PADI
    pads,            \* ghost: the PADS that established the session
    offered          \* ghost: a well-formed PADO for us was received

vars == <<pc, outcome, skipDiscovery, killSession, discoveryState,
          padiAttempts, padrAttempts, timeout, peerEth, cookie, relayId,
          numPADOs, session, lastSent, offer, pads, offered>>

-----------------------------------------------------------------------------
(* Frame filters.                                                          *)

(* packetIsForMe + parseForHostUniq: addressed to our MAC and, when       *)
(* Host-Uniq is in use, echoing it exactly.                                *)
PacketIsForMe(f) ==
    /\ f.dst = MyMac
    /\ HostUniq = NoTag \/ f.hostUniq = HostUniq

(* waitForPADO: the checks a frame passes before its tags are parsed.     *)
PADOParsed(f) ==
    /\ PacketIsForMe(f)
    /\ f.code = "PADO"
    /\ f.src # Broadcast

(* parsePADOTags on an error tag outside probe mode sets pc.gotError.     *)
PADOGotError(f) == f.error /\ ~PrintACNames

(* Both the AC-Name and the Service-Name tag are present.                 *)
PADOComplete(f) == f.acName # NoTag /\ f.serviceName # NoTag

(* pc.acNameOK and pc.serviceNameOK: no filter, or an exact match.        *)
NameOK(filter, tag) == filter = NoTag \/ tag = filter
PADOMatches(f) == NameOK(ACName, f.acName) /\ NameOK(ServiceName, f.serviceName)

(* conn->cookie / conn->relayId after parsing a frame: a tag overwrites.  *)
Captured(old, tag) == IF tag = NoTag THEN old ELSE tag

(* Mutant: the source check against peerEth is left out.                 *)
PADSParsedAnySource(f) ==
    /\ PacketIsForMe(f)
    /\ f.code = "PADS"

(* waitForPADS: from the selected AC, for us, and a PADS.                 *)
PADSParsed(f) ==
    /\ f.src = peerEth
    /\ PacketIsForMe(f)
    /\ f.code = "PADS"

(* The frames sendPADI, sendPADR and sendPADT build.                       *)
PADIFrame ==
    [code |-> "PADI", dst |-> Broadcast,
     serviceName |-> CASE ServiceName = NoServiceNameSentinel -> NoTag
                       [] ServiceName = NoTag -> EmptyServiceName
                       [] OTHER -> ServiceName,
     hostUniq |-> HostUniq, cookie |-> NoTag, relayId |-> NoTag]

PADRFrame ==
    [code |-> "PADR", dst |-> peerEth,
     serviceName |-> IF ServiceName = NoTag THEN EmptyServiceName ELSE ServiceName,
     hostUniq |-> HostUniq, cookie |-> cookie, relayId |-> relayId]

PADTFrame ==
    [code |-> "PADT", dst |-> peerEth, serviceName |-> NoTag,
     hostUniq |-> NoTag, cookie |-> NoTag, relayId |-> NoTag]

-----------------------------------------------------------------------------
Init ==
    /\ pc = "Start"
    /\ outcome = "Running"
    /\ skipDiscovery \in BOOLEAN
    /\ killSession \in BOOLEAN
    /\ discoveryState = "Initial"
    /\ padiAttempts = 0
    /\ padrAttempts = 0
    /\ timeout = DiscoveryTimeout
    /\ peerEth = ZeroMac
    /\ cookie = NoTag
    /\ relayId = NoTag
    /\ numPADOs = 0
    /\ session = 0
    /\ lastSent = NoFrame
    /\ offer = NoFrame
    /\ pads = NoFrame
    /\ offered = FALSE

(* discovery() with skipDiscovery: straight to the session; with -k it    *)
(* sends a PADT and exits.                                                 *)
DiscoverySkipped ==
    /\ pc = "Start"
    /\ skipDiscovery
    /\ discoveryState' = "Session"
    /\ pc' = "Done"
    /\ IF killSession
         THEN outcome' = "ExitSuccess" /\ lastSent' = PADTFrame
         ELSE outcome' = "Returned" /\ UNCHANGED lastSent
    /\ UNCHANGED <<skipDiscovery, killSession, padiAttempts, padrAttempts,
                   timeout, peerEth, cookie, relayId, numPADOs, session,
                   offer, pads, offered>>

(* discovery() entry, through the SEND_PADI label (timeout was set at     *)
(* entry, see Init).                                                       *)
DiscoveryStart ==
    /\ pc = "Start"
    /\ ~skipDiscovery
    /\ padiAttempts' = 0
    /\ pc' = "PADI"
    /\ UNCHANGED <<outcome, skipDiscovery, killSession, discoveryState,
                   timeout, padrAttempts, peerEth, cookie, relayId, numPADOs, session,
                   lastSent, offer, pads, offered>>

(* The code after the PADI loop: probe mode exits with the verdict of     *)
(* numPADOs; otherwise the PADR loop starts with a fresh timeout.  t is   *)
(* the loop's timeout on leaving it.                                       *)
LeavePADILoop(t) ==
    \/ /\ PrintACNames
       /\ pc' = "Done"
       /\ outcome' = IF numPADOs > 0 THEN "ExitSuccess" ELSE "ExitFailure"
       /\ timeout' = t
       /\ UNCHANGED padrAttempts
    \/ /\ ~PrintACNames
       /\ pc' = "PADR"
       /\ timeout' = DiscoveryTimeout
       /\ padrAttempts' = 0
       /\ UNCHANGED outcome

(* Mutant: the persistent branch forgets to reset padiAttempts.          *)
SendPADINoReset ==
    LET attempts == padiAttempts + 1 IN
    /\ pc = "PADI"
    /\ attempts <= MAX_PADI_ATTEMPTS \/ Persist
    /\ padiAttempts' = attempts
    /\ timeout' = IF attempts > MAX_PADI_ATTEMPTS THEN DiscoveryTimeout ELSE timeout
    /\ lastSent' = PADIFrame
    /\ discoveryState' = "SentPADI"
    /\ offer' = NoFrame
    /\ pc' = "WaitPADO"
    /\ UNCHANGED <<outcome, skipDiscovery, killSession, padrAttempts, peerEth,
                   cookie, relayId, numPADOs, session, pads, offered>>

(* Mutant: the assignment of STATE_SENT_PADI after sendPADI is missing.  *)
SendPADINoState ==
    LET attempts == padiAttempts + 1 IN
    /\ pc = "PADI"
    /\ attempts <= MAX_PADI_ATTEMPTS \/ Persist
    /\ padiAttempts' = IF attempts > MAX_PADI_ATTEMPTS THEN 0 ELSE attempts
    /\ timeout' = IF attempts > MAX_PADI_ATTEMPTS THEN DiscoveryTimeout ELSE timeout
    /\ lastSent' = PADIFrame
    /\ offer' = NoFrame
    /\ pc' = "WaitPADO"
    /\ UNCHANGED <<outcome, skipDiscovery, killSession, padrAttempts, peerEth,
                   cookie, relayId, numPADOs, session, pads, offered,
                   discoveryState>>

(* One pass of the PADI loop up to the wait: count the attempt (in        *)
(* persistent mode an exhausted count and the timeout are reset and the   *)
(* PADI is sent anyway), send a PADI and arm the deadline of waitForPADO. *)
SendPADI ==
    LET attempts == padiAttempts + 1 IN
    /\ pc = "PADI"
    /\ attempts <= MAX_PADI_ATTEMPTS \/ Persist
    /\ padiAttempts' = IF attempts > MAX_PADI_ATTEMPTS THEN 0 ELSE attempts
    /\ timeout' = IF attempts > MAX_PADI_ATTEMPTS THEN DiscoveryTimeout ELSE timeout
    /\ lastSent' = PADIFrame
    /\ discoveryState' = "SentPADI"
    /\ offer' = NoFrame
    /\ pc' = "WaitPADO"
    /\ UNCHANGED <<outcome, skipDiscovery, killSession, padrAttempts, peerEth,
                   cookie, relayId, numPADOs, session, pads, offered>>

(* Mutant: the persist test is dropped and the PADI loop starts over.   *)
PADIGiveUpRetry ==
    /\ pc = "PADI"
    /\ padiAttempts + 1 > MAX_PADI_ATTEMPTS
    /\ ~Persist
    /\ padiAttempts' = 0
    /\ timeout' = DiscoveryTimeout
    /\ pc' = "PADI"
    /\ UNCHANGED <<outcome, padrAttempts, skipDiscovery, killSession,
                   discoveryState, peerEth, cookie, relayId, numPADOs, session,
                   lastSent, offer, pads, offered>>

(* The PADI loop with its attempts exhausted, not persistent: break.      *)
PADIGiveUp ==
    /\ pc = "PADI"
    /\ padiAttempts + 1 > MAX_PADI_ATTEMPTS
    /\ ~Persist
    /\ padiAttempts' = padiAttempts + 1
    /\ LeavePADILoop(timeout)
    /\ UNCHANGED <<skipDiscovery, killSession, discoveryState, peerEth, cookie,
                   relayId, numPADOs, session, lastSent, offer, pads, offered>>

(* waitForPADO, a PADO with an error tag outside probe mode and not       *)
(* persistent: parsePADOTags exits the process.                           *)
PADOErrorExit(f) ==
    /\ pc = "WaitPADO"
    /\ PADOParsed(f)
    /\ PADOGotError(f)
    /\ ~Persist
    /\ pc' = "Done"
    /\ outcome' = "ExitFailure"
    /\ UNCHANGED <<skipDiscovery, killSession, discoveryState, padiAttempts,
                   padrAttempts, timeout, peerEth, cookie, relayId, numPADOs,
                   session, lastSent, offer, pads, offered>>

(* waitForPADO, a PADO that is parsed and then ignored: it carried an     *)
(* error tag (persistent mode) or lacks the AC-Name or Service-Name tag.  *)
(* Its cookie and relay id have been captured all the same.                *)
PADODropped(f) ==
    /\ pc = "WaitPADO"
    /\ PADOParsed(f)
    /\ \/ PADOGotError(f) /\ Persist
       \/ ~PADOGotError(f) /\ ~PADOComplete(f)
    /\ cookie' = Captured(cookie, f.cookie)
    /\ relayId' = Captured(relayId, f.relayId)
    /\ UNCHANGED <<pc, outcome, skipDiscovery, killSession, discoveryState,
                   padiAttempts, padrAttempts, timeout, peerEth, numPADOs,
                   session, lastSent, offer, pads, offered>>

(* Mutant: the memcpy into conn->peerEth is missing.                     *)
PADOCountedNoPeer(f) ==
    /\ pc = "WaitPADO"
    /\ PADOParsed(f)
    /\ ~PADOGotError(f)
    /\ PADOComplete(f)
    /\ numPADOs < MaxPADOs
    /\ numPADOs' = numPADOs + 1
    /\ offered' = TRUE
    /\ cookie' = Captured(cookie, f.cookie)
    /\ relayId' = Captured(relayId, f.relayId)
    /\ IF PADOMatches(f) /\ ~PrintACNames
         THEN /\ discoveryState' = "ReceivedPADO"
              /\ pc' = "PADODone"
              /\ offer' = f
         ELSE UNCHANGED <<discoveryState, pc, offer>>
    /\ UNCHANGED <<outcome, skipDiscovery, killSession, padiAttempts,
                   padrAttempts, timeout, session, lastSent, pads, peerEth>>

(* Mutant: numPADOs is incremented only for a PADO matching the filters. *)
PADOCountedMatchesOnly(f) ==
    /\ pc = "WaitPADO"
    /\ PADOParsed(f)
    /\ ~PADOGotError(f)
    /\ PADOComplete(f)
    /\ numPADOs < MaxPADOs
    /\ numPADOs' = IF PADOMatches(f) THEN numPADOs + 1 ELSE numPADOs
    /\ offered' = TRUE
    /\ cookie' = Captured(cookie, f.cookie)
    /\ relayId' = Captured(relayId, f.relayId)
    /\ peerEth' = IF PADOMatches(f) THEN f.src ELSE peerEth
    /\ IF PADOMatches(f) /\ ~PrintACNames
         THEN /\ discoveryState' = "ReceivedPADO"
              /\ pc' = "PADODone"
              /\ offer' = f
         ELSE UNCHANGED <<discoveryState, pc, offer>>
    /\ UNCHANGED <<outcome, skipDiscovery, killSession, padiAttempts,
                   padrAttempts, timeout, session, lastSent, pads>>

(* waitForPADO, a well-formed PADO: counted; if it matches the AC-Name    *)
(* and Service-Name filters its source becomes the peer, and outside      *)
(* probe mode it is selected and the wait ends.                           *)
PADOCounted(f) ==
    /\ pc = "WaitPADO"
    /\ PADOParsed(f)
    /\ ~PADOGotError(f)
    /\ PADOComplete(f)
    /\ numPADOs < MaxPADOs
    /\ numPADOs' = numPADOs + 1
    /\ offered' = TRUE
    /\ cookie' = Captured(cookie, f.cookie)
    /\ relayId' = Captured(relayId, f.relayId)
    /\ peerEth' = IF PADOMatches(f) THEN f.src ELSE peerEth
    /\ IF PADOMatches(f) /\ ~PrintACNames
         THEN /\ discoveryState' = "ReceivedPADO"
              /\ pc' = "PADODone"
              /\ offer' = f
         ELSE UNCHANGED <<discoveryState, pc, offer>>
    /\ UNCHANGED <<outcome, skipDiscovery, killSession, padiAttempts,
                   padrAttempts, timeout, session, lastSent, pads>>

(* waitForPADO returns when time_left or select reports the deadline.      *)
PADOTimeout ==
    /\ pc = "WaitPADO"
    /\ pc' = "PADODone"
    /\ UNCHANGED <<outcome, skipDiscovery, killSession, discoveryState,
                   padiAttempts, padrAttempts, timeout, peerEth, cookie,
                   relayId, numPADOs, session, lastSent, offer, pads, offered>>

(* The rest of a PADI loop pass: back off (not in probe mode), then loop  *)
(* while still in SentPADI, unless probing has found a PADO.              *)
EndPADIIteration ==
    LET t == IF PrintACNames THEN timeout ELSE 2 * timeout IN
    /\ pc = "PADODone"
    /\ IF (PrintACNames /\ numPADOs > 0) \/ discoveryState # "SentPADI"
         THEN LeavePADILoop(t)
         ELSE /\ pc' = "PADI"
              /\ timeout' = t
              /\ UNCHANGED <<outcome, padrAttempts>>
    /\ UNCHANGED <<skipDiscovery, killSession, discoveryState, padiAttempts,
                   peerEth, cookie, relayId, numPADOs, session, lastSent,
                   offer, pads, offered>>

(* One pass of the PADR loop up to the wait: count the attempt, send a    *)
(* PADR to peerEth echoing the captured cookie and relay id, arm the      *)
(* deadline of waitForPADS.                                                *)
SendPADR ==
    /\ pc = "PADR"
    /\ padrAttempts + 1 <= MAX_PADI_ATTEMPTS
    /\ padrAttempts' = padrAttempts + 1
    /\ lastSent' = PADRFrame
    /\ discoveryState' = "SentPADR"
    /\ pc' = "WaitPADS"
    /\ UNCHANGED <<outcome, skipDiscovery, killSession, padiAttempts, timeout,
                   peerEth, cookie, relayId, numPADOs, session, offer, pads,
                   offered>>

(* PADR attempts exhausted in persistent mode: goto SEND_PADI.            *)
PADRRestart ==
    /\ pc = "PADR"
    /\ padrAttempts + 1 > MAX_PADI_ATTEMPTS
    /\ Persist
    /\ padrAttempts' = 0
    /\ timeout' = DiscoveryTimeout
    /\ padiAttempts' = 0
    /\ pc' = "PADI"
    /\ UNCHANGED <<outcome, skipDiscovery, killSession, discoveryState, peerEth,
                   cookie, relayId, numPADOs, session, lastSent, offer, pads,
                   offered>>

(* PADR attempts exhausted, not persistent: discovery() returns.          *)
PADRGiveUp ==
    /\ pc = "PADR"
    /\ padrAttempts + 1 > MAX_PADI_ATTEMPTS
    /\ ~Persist
    /\ padrAttempts' = padrAttempts + 1
    /\ pc' = "Done"
    /\ outcome' = "Returned"
    /\ UNCHANGED <<skipDiscovery, killSession, discoveryState, padiAttempts,
                   timeout, peerEth, cookie, relayId, numPADOs, session,
                   lastSent, offer, pads, offered>>

(* waitForPADS, a PADS from the peer carrying an error tag: ignored, but  *)
(* its relay id has been captured.                                         *)
PADSRejected(f) ==
    /\ pc = "WaitPADS"
    /\ PADSParsed(f)
    /\ f.error
    /\ relayId' = Captured(relayId, f.relayId)
    /\ UNCHANGED <<pc, outcome, skipDiscovery, killSession, discoveryState,
                   padiAttempts, padrAttempts, timeout, peerEth, cookie,
                   numPADOs, session, lastSent, offer, pads, offered>>

(* waitForPADS, a clean PADS from the peer: the session id is taken, the  *)
(* PADR loop ends and discovery() returns in the Session state.           *)
PADSAccepted(f) ==
    /\ pc = "WaitPADS"
    /\ PADSParsed(f)
    /\ ~f.error
    /\ relayId' = Captured(relayId, f.relayId)
    /\ session' = f.session
    /\ discoveryState' = "Session"
    /\ timeout' = 2 * timeout
    /\ pads' = f
    /\ pc' = "Done"
    /\ outcome' = "Returned"
    /\ UNCHANGED <<skipDiscovery, killSession, padiAttempts, padrAttempts,
                   peerEth, cookie, numPADOs, lastSent, offer, offered>>

(* waitForPADS returns at the deadline; the PADR loop backs off and goes  *)
(* round again (the state is still SentPADR).                             *)
PADSTimeout ==
    /\ pc = "WaitPADS"
    /\ timeout' = 2 * timeout
    /\ pc' = "PADR"
    /\ UNCHANGED <<outcome, skipDiscovery, killSession, discoveryState,
                   padiAttempts, padrAttempts, peerEth, cookie, relayId,
                   numPADOs, session, lastSent, offer, pads, offered>>

(* select() fails with an error other than EINTR: fatalSys exits.         *)
SelectError ==
    /\ pc \in {"WaitPADO", "WaitPADS"}
    /\ pc' = "Done"
    /\ outcome' = "Fatal"
    /\ UNCHANGED <<skipDiscovery, killSession, discoveryState, padiAttempts,
                   padrAttempts, timeout, peerEth, cookie, relayId, numPADOs,
                   session, lastSent, offer, pads, offered>>

(* The steps discovery() takes by itself, without the network.             *)
EngineStep ==
    \/ DiscoverySkipped \/ DiscoveryStart
    \/ SendPADI \/ PADIGiveUp \/ PADOTimeout \/ EndPADIIteration
    \/ SendPADR \/ PADRRestart \/ PADRGiveUp \/ PADSTimeout

(* A frame delivered to a wait.                                            *)
Receive(f) ==
    \/ PADOErrorExit(f) \/ PADODropped(f) \/ PADOCounted(f)
    \/ PADSRejected(f) \/ PADSAccepted(f)

Next ==
    \/ EngineStep
    \/ \E f \in Frames : Receive(f)
    \/ SelectError

(* The process is scheduled and every select() deadline expires, so the   *)
(* engine's own steps are weakly fair.  Frames and select errors come     *)
(* from outside and carry no fairness.                                     *)
Spec == Init /\ [][Next]_vars /\ WF_vars(EngineStep)

-----------------------------------------------------------------------------
TypeOK ==
    /\ pc \in PCs
    /\ outcome \in Outcomes
    /\ skipDiscovery \in BOOLEAN
    /\ killSession \in BOOLEAN
    /\ discoveryState \in States
    /\ padiAttempts \in 0..(MAX_PADI_ATTEMPTS + 1)
    /\ padrAttempts \in 0..(MAX_PADI_ATTEMPTS + 1)
    /\ timeout \in Nat \ {0}
    /\ peerEth \in MACs
    /\ cookie \in TagValue(CookieValues)
    /\ relayId \in TagValue(RelayIdValues)
    /\ numPADOs \in 0..MaxPADOs
    /\ session \in SessionIds \cup {0}
    /\ lastSent \in SentFrames \cup {NoFrame}
    /\ offer \in PADOFrames \cup {NoFrame}
    /\ pads \in PADSFrames \cup {NoFrame}
    /\ offered \in BOOLEAN

-----------------------------------------------------------------------------
(* Properties.                                                             *)

(* A session reached through discovery is with the AC whose PADO was      *)
(* selected after the last PADI: that PADO was addressed to us, echoed    *)
(* our Host-Uniq and matched the AC-Name and Service-Name filters; the    *)
(* accepting PADS came from the same AC, was for us, and supplied the     *)
(* session id.  It ties waitForPADO's choice of peerEth to waitForPADS's  *)
(* source check across every PADR retry and persistent restart.           *)
SessionWithChosenPeer ==
    (discoveryState = "Session" /\ ~skipDiscovery) =>
        /\ offer \in PADOFrames
        /\ PacketIsForMe(offer) /\ PADOMatches(offer)
        /\ peerEth = offer.src
        /\ pads \in PADSFrames
        /\ pads.src = offer.src /\ PacketIsForMe(pads)
        /\ session = pads.session

(* Every PADR goes to the AC whose PADO was selected after the last PADI  *)
(* (RFC 2516; spec, testable property 5): discovery never sends a PADR    *)
(* when no PADO was accepted in the PADI phase it follows.                *)
NoPADRWithoutOffer ==
    lastSent.code = "PADR" =>
        /\ offer \in PADOFrames
        /\ lastSent.dst = offer.src

(* The PADR echoes the AC-Cookie of the selected PADO, and none if that   *)
(* PADO had none (spec, testable property 4).                             *)
PADREchoesOfferCookie ==
    lastSent.code = "PADR" =>
        /\ offer \in PADOFrames
        /\ lastSent.cookie = offer.cookie

(* Probe mode (-A) never enters the PADR phase, and the process exits     *)
(* with success exactly when a well-formed PADO for us was seen.          *)
ProbeOutcome ==
    (PrintACNames /\ ~skipDiscovery) =>
        /\ lastSent.code # "PADR"
        /\ discoveryState \in {"Initial", "SentPADI"}
        /\ outcome = "ExitSuccess" => offered
        /\ outcome = "ExitFailure" => ~offered

(* Outside persistent mode discovery() always ends: it returns or the     *)
(* process exits, whatever the network delivers.                          *)
Termination == <>(pc = "Done")

(* With the NO-SERVICE-NAME-NON-RFC-COMPLIANT sentinel and no AC-Name     *)
(* filter, no Service-Name filter is in force: every well-formed PADO     *)
(* that waitForPADO counts is selected.                                   *)
SentinelAnyService ==
    [][(/\ ServiceName = NoServiceNameSentinel /\ ACName = NoTag
        /\ ~PrintACNames /\ numPADOs' = numPADOs + 1)
         => discoveryState' = "ReceivedPADO"]_vars
=============================================================================
