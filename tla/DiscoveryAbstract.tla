-------------------------- MODULE DiscoveryAbstract --------------------------
(***************************************************************************)
(* What the client side of PPPoE Discovery promises, without frames,      *)
(* timers or retry counters.  The client solicits offers, selects one     *)
(* access concentrator (AC), requests a session from that AC only, and    *)
(* either holds a session with the AC it requested or ends without one.   *)
(* Any solicitation forgets the AC selected before it.                    *)
(*                                                                         *)
(* PPPoEDiscoveryRefinement maps discovery() onto this module.            *)
(***************************************************************************)
EXTENDS Naturals

CONSTANTS
    Peers,        \* the ACs an offer may come from
    NoPeer,       \* no AC selected / no request outstanding (not in Peers)
    SessionIds    \* session ids an AC may grant

VARIABLES
    phase,        \* "Soliciting", "Requesting", "Session" or "Ended"
    peer,         \* the AC selected since the last solicitation
    target,       \* the AC the last request went to
    session       \* the session id held (0: none)

absVars == <<phase, peer, target, session>>

Init ==
    /\ phase = "Soliciting"
    /\ peer = NoPeer
    /\ target = NoPeer
    /\ session = 0

(* A solicitation (a PADI): whatever was selected or requested before is  *)
(* forgotten.                                                              *)
Solicit ==
    /\ phase \in {"Soliciting", "Requesting"}
    /\ phase' = "Soliciting"
    /\ peer' = NoPeer
    /\ target' = NoPeer
    /\ UNCHANGED session

(* An offer from AC a is selected.                                         *)
Select(a) ==
    /\ phase = "Soliciting"
    /\ phase' = "Requesting"
    /\ peer' = a
    /\ UNCHANGED <<target, session>>

(* A session request goes to the selected AC, and to no other.            *)
Request ==
    /\ phase = "Requesting"
    /\ target' = peer
    /\ UNCHANGED <<phase, peer, session>>

(* The AC that was requested grants session s.                             *)
Establish(s) ==
    /\ phase = "Requesting"
    /\ target = peer
    /\ phase' = "Session"
    /\ session' = s
    /\ UNCHANGED <<peer, target>>

(* Discovery is skipped before anything was selected: the session is      *)
(* configured from outside.                                                *)
Skip ==
    /\ phase = "Soliciting"
    /\ peer = NoPeer
    /\ phase' = "Session"
    /\ UNCHANGED <<peer, target, session>>

(* Discovery gives up, or the process exits, without a session.           *)
End ==
    /\ phase \in {"Soliciting", "Requesting"}
    /\ phase' = "Ended"
    /\ UNCHANGED <<peer, target, session>>

Next ==
    \/ Solicit
    \/ \E a \in Peers : Select(a)
    \/ Request
    \/ \E s \in SessionIds : Establish(s)
    \/ Skip
    \/ End

Spec == Init /\ [][Next]_absVars

TypeOK ==
    /\ phase \in {"Soliciting", "Requesting", "Session", "Ended"}
    /\ peer \in Peers \cup {NoPeer}
    /\ target \in Peers \cup {NoPeer}
    /\ session \in SessionIds \cup {0}
=============================================================================
