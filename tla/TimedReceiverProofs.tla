---------------------------- MODULE TimedReceiverProofs ----------------------------
(***************************************************************************)
(* Proofs about the receive loop of waitForPADO / waitForPADS, for every  *)
(* length of a second, timeout and clock bound, under Linux's select().   *)
(***************************************************************************)
EXTENDS TimedReceiver, TLAPS

(* The inductive invariant: while select() runs, tv is exactly the time   *)
(* left to the deadline (time_left computes it so, and Linux's select()  *)
(* keeps it so across EINTR); a timeout is only reported once the         *)
(* deadline is reached.                                                    *)
RecvInv ==
    /\ TypeOK
    /\ phase = "Select" => Ticks(tv) = Remaining
    /\ NoEarlyTimeout

(* The facts about the constants that the steps use.                       *)
LEMMA RecvConstFacts ==
    /\ USEC_PER_SEC \in Nat /\ USEC_PER_SEC > 1
    /\ Timeout \in Nat /\ MaxTime \in Nat /\ MaxLag \in Nat
<1>1. USEC_PER_SEC \in Nat /\ USEC_PER_SEC > 1
  BY ReceiverAssumption
<1>2. Timeout \in Nat /\ MaxTime \in Nat /\ MaxLag \in Nat
  BY ReceiverAssumption
<1>3. QED
  BY <1>1, <1>2

USE RecvConstFacts

(* The clock bound covers the first second, where Init starts the clock. *)
LEMMA ClockBoundFact == MaxTime >= USEC_PER_SEC
BY ReceiverAssumption

(* gettimeofday() splits the clock into whole seconds and a usec part     *)
(* below one second, and nothing is lost: Ticks(TimeVal(t)) = t.          *)
LEMMA TimeValFacts ==
    ASSUME NEW t \in Nat
    PROVE  /\ TimeVal(t) \in [sec : Nat, usec : 0..(USEC_PER_SEC - 1)]
           /\ Ticks(TimeVal(t)) = t
BY DEF TimeVal, Ticks

(* time_left(): a zero return means the deadline is reached, and a        *)
(* non-zero one stores into tv exactly the time left, with or without   *)
(* the borrow from tv_sec.                                                *)
LEMMA TimeLeftFacts ==
    ASSUME NEW e \in [sec : Int, usec : 0..(USEC_PER_SEC - 1)],
           NEW n \in [sec : Int, usec : 0..(USEC_PER_SEC - 1)]
    PROVE  /\ TimeLeft(e, n).tv \in [sec : Int, usec : Int]
           /\ TimeLeft(e, n).ret = 0 => Ticks(e) - Ticks(n) <= 0
           /\ TimeLeft(e, n).ret # 0 => Ticks(TimeLeft(e, n).tv) = Ticks(e) - Ticks(n)
BY DEF TimeLeft, Ticks

(* Every step keeps TypeOK, whatever select() does with tv.               *)
LEMMA NextTypeOK == TypeOK /\ [Next]_vars => TypeOK'
<1> SUFFICES ASSUME TypeOK, [Next]_vars PROVE TypeOK'
  OBVIOUS
<1>. USE DEF TypeOK, Phases
<1>1. CASE Enter
  <2>1. TimeVal(now) \in [sec : Nat, usec : 0..(USEC_PER_SEC - 1)]
    BY TimeValFacts
  <2>2. QED
    BY <1>1, <2>1 DEF Enter, TimeVal
<1>2. CASE LoopTop
  <2>1. TimeVal(now) \in [sec : Int, usec : 0..(USEC_PER_SEC - 1)]
    BY TimeValFacts
  <2>2. TimeLeft(expireAt, TimeVal(now)).tv \in [sec : Int, usec : Int]
    BY <2>1, TimeLeftFacts
  <2>3. QED
    BY <1>2, <2>2 DEF LoopTop
<1>3. CASE SelectTimesOut
  BY <1>3 DEF SelectTimesOut, ValidTimeval, Ticks
<1>4. CASE SelectReady
  BY <1>4 DEF SelectReady
<1>5. CASE SelectInterrupted
  <2>1. PICK d \in 1..Ticks(tv) :
              /\ now + d <= MaxTime
              /\ now' = now + d
              /\ tv' = IF SelectUpdatesTimeout THEN TimeVal(Ticks(tv) - d) ELSE tv
    BY <1>5 DEF SelectInterrupted
  <2>2. Ticks(tv) - d \in Nat
    BY <2>1 DEF Ticks
  <2>3. TimeVal(Ticks(tv) - d) \in [sec : Int, usec : Int]
    BY <2>2, TimeValFacts
  <2>4. QED
    BY <1>5, <2>1, <2>3 DEF SelectInterrupted
<1>6. CASE SelectFails
  BY <1>6 DEF SelectFails
<1>7. CASE ProcessFrame
  BY <1>7 DEF ProcessFrame
<1>8. CASE UNCHANGED vars
  BY <1>8 DEF vars
<1>9. QED
  BY <1>1, <1>2, <1>3, <1>4, <1>5, <1>6, <1>7, <1>8 DEF Next

(* For every length of a second, timeout and clock bound, the receiver's *)
(* state stays well typed: expire_at is a normalised timeval and the     *)
(* clock never runs backwards below zero (run receiver checks TypeOK).    *)
THEOREM RecvTypeCorrect == Spec => []TypeOK
<1>1. Init => TypeOK
  BY ClockBoundFact DEF Init, TypeOK, Phases
<1>2. QED
  BY <1>1, NextTypeOK, PTL DEF Spec

(* Under Linux's select(), every step keeps RecvInv.  LoopTop stores the  *)
(* exact time left or reports a reached deadline; an interrupted select() *)
(* sleeps d ticks and takes them off tv; a select() that sleeps its whole *)
(* interval ends exactly at the deadline.                                 *)
LEMMA NextRecvInv ==
    ASSUME SelectUpdatesTimeout
    PROVE  RecvInv /\ [Next]_vars => RecvInv'
<1> SUFFICES ASSUME RecvInv, [Next]_vars PROVE RecvInv'
  OBVIOUS
<1>1. TypeOK'
  BY NextTypeOK DEF RecvInv
<1>. USE DEF RecvInv, NoEarlyTimeout, Remaining
<1>2. CASE Enter
  BY <1>1, <1>2 DEF Enter
<1>3. CASE LoopTop
  <2>1. TimeVal(now) \in [sec : Int, usec : 0..(USEC_PER_SEC - 1)]
        /\ Ticks(TimeVal(now)) = now
    BY TimeValFacts DEF TypeOK
  <2>2. expireAt \in [sec : Int, usec : 0..(USEC_PER_SEC - 1)]
    BY DEF TypeOK
  <2>3. /\ TimeLeft(expireAt, TimeVal(now)).ret = 0 => Ticks(expireAt) - now <= 0
        /\ TimeLeft(expireAt, TimeVal(now)).ret # 0 =>
               Ticks(TimeLeft(expireAt, TimeVal(now)).tv) = Ticks(expireAt) - now
    BY <2>1, <2>2, TimeLeftFacts
  <2>4. QED
    BY <1>1, <1>3, <2>3 DEF LoopTop
<1>4. CASE SelectTimesOut
  <2>1. phase = "Select" /\ phase' = "TimedOut" /\ expireAt' = expireAt
    BY <1>4 DEF SelectTimesOut
  <2>2. now' = now + Ticks(tv)
    BY <1>4 DEF SelectTimesOut
  <2>3. Ticks(expireAt') = Ticks(expireAt)
    BY <2>1
  <2>4. Ticks(expireAt) - now' <= 0
    BY <2>1, <2>2, TypeOK DEF TypeOK, Ticks
  <2>5. QED
    BY <1>1, <2>1, <2>3, <2>4
<1>5. CASE SelectReady
  BY <1>1, <1>5 DEF SelectReady
<1>6. CASE SelectInterrupted
  <2>1. PICK d \in 1..Ticks(tv) :
              /\ now' = now + d
              /\ tv' = TimeVal(Ticks(tv) - d)
    BY <1>6 DEF SelectInterrupted
  <2>2. Ticks(tv) - d \in Nat
    BY <2>1 DEF Ticks, TypeOK
  <2>3. Ticks(tv') = Ticks(tv) - d
    BY <2>1, <2>2, TimeValFacts
  <2>4. phase = "Select" /\ phase' = "Select" /\ expireAt' = expireAt
    BY <1>6 DEF SelectInterrupted
  <2>5. Ticks(expireAt') = Ticks(expireAt)
    BY <2>4
  <2>6. Ticks(tv') = Ticks(expireAt') - now'
    BY <2>1, <2>3, <2>4, <2>5, TypeOK DEF TypeOK, Ticks
  <2>7. QED
    BY <1>1, <2>4, <2>6
<1>7. CASE SelectFails
  BY <1>1, <1>7 DEF SelectFails
<1>8. CASE ProcessFrame
  BY <1>1, <1>8 DEF ProcessFrame
<1>9. CASE UNCHANGED vars
  BY <1>1, <1>9 DEF vars
<1>10. QED
  BY <1>1, <1>2, <1>3, <1>4, <1>5, <1>6, <1>7, <1>8, <1>9 DEF Next

(* With Linux's select(), for every length of a second, timeout and clock *)
(* bound, the receive loop never reports a timeout before expire_at and  *)
(* never asks select() to sleep past it, however many signals interrupt  *)
(* select() and however many unacceptable frames are read (run receiver *)
(* checks the same properties).  A select() that leaves tv alone breaks  *)
(* the equality RecvInv rests on: after an EINTR the whole interval is    *)
(* slept again.                                                            *)
THEOREM DeadlineRespected ==
    ASSUME SelectUpdatesTimeout
    PROVE  Spec => [](NoEarlyTimeout /\ NoOverrun)
<1>1. Init => RecvInv
  BY ClockBoundFact DEF Init, RecvInv, TypeOK, Phases, NoEarlyTimeout, Remaining
<1>2. RecvInv /\ [Next]_vars => RecvInv'
  BY NextRecvInv
<1>3. RecvInv => NoEarlyTimeout /\ NoOverrun
  BY DEF RecvInv, NoOverrun, TypeOK, Ticks
<1>4. QED
  BY <1>1, <1>2, <1>3, PTL DEF Spec

(* With Linux's select(), for every length of a second, timeout and clock *)
(* bound, select() is never handed an interval that reaches past         *)
(* expire_at, after any number of EINTRs and ignored frames (run receiver *)
(* checks the same property).                                             *)
THEOREM SelectNeverOverruns ==
    ASSUME SelectUpdatesTimeout
    PROVE  Spec => []NoOverrun
<1>1. Init => RecvInv
  BY ClockBoundFact DEF Init, RecvInv, TypeOK, Phases, NoEarlyTimeout, Remaining
<1>2. RecvInv /\ [Next]_vars => RecvInv'
  BY NextRecvInv
<1>3. RecvInv => NoOverrun
  BY DEF RecvInv, NoOverrun, TypeOK, Ticks
<1>4. QED
  BY <1>1, <1>2, <1>3, PTL DEF Spec
=============================================================================
