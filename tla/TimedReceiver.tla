---------------------------- MODULE TimedReceiver ----------------------------
(***************************************************************************)
(* The receive loop shared by waitForPADO and waitForPADS in              *)
(* src/src/discovery.c, against the wall clock: the absolute deadline     *)
(* expire_at, time_left() turning it into the relative interval tv,       *)
(* select() with its EINTR retry, and the frames that are read and found  *)
(* unacceptable (the loop's continue).                                     *)
(*                                                                         *)
(* Time is counted in ticks, USEC_PER_SEC ticks a second; a struct        *)
(* timeval is a record [sec, usec].  time_left is translated field by      *)
(* field; its logic does not depend on the size of a second, so a small    *)
(* USEC_PER_SEC keeps every case of it (borrow, no borrow, exact second)  *)
(* while the clock stays small.                                            *)
(***************************************************************************)
EXTENDS Integers

CONSTANTS
    USEC_PER_SEC,          \* 1000000 in the code
    Timeout,               \* the timeout argument, in seconds
    MaxTime,               \* model bound on the clock, in ticks
    MaxLag,                \* largest clock advance while a frame is handled
    SelectUpdatesTimeout   \* select() writes the time not slept back into tv (Linux)

ASSUME ReceiverAssumption ==
    /\ USEC_PER_SEC \in Nat \ {0, 1}
    /\ Timeout \in Nat \ {0}
    /\ MaxTime \in Nat /\ MaxTime >= USEC_PER_SEC  \* the clock bound covers the first second
    /\ MaxLag \in Nat
    /\ SelectUpdatesTimeout \in BOOLEAN

(* gettimeofday(): the clock as a struct timeval.                          *)
TimeVal(t) == [sec |-> t \div USEC_PER_SEC, usec |-> t % USEC_PER_SEC]

(* The length of a timeval in ticks (negative fields allowed).             *)
Ticks(tv) == tv.sec * USEC_PER_SEC + tv.usec

(* Mutant: a negative usec difference is taken as a timeout (no borrow). *)
TimeLeftNoBorrow(expireAt, now) ==
    LET sec0  == expireAt.sec - now.sec
        usec0 == expireAt.usec - now.usec
        tv    == [sec |-> sec0, usec |-> usec0]
    IN  IF usec0 < 0 THEN [ret |-> 0, tv |-> tv]
        ELSE IF sec0 <= 0 /\ usec0 <= 0 THEN [ret |-> 0, tv |-> tv]
        ELSE [ret |-> 1, tv |-> tv]

(* Mutant: the borrow adds a second to usec without taking it from sec.  *)
TimeLeftNoDecrement(expireAt, now) ==
    LET sec0  == expireAt.sec - now.sec
        usec0 == expireAt.usec - now.usec
        borrow == usec0 < 0
        usec1 == IF borrow THEN usec0 + USEC_PER_SEC ELSE usec0
        tv    == [sec |-> sec0, usec |-> usec1]
    IN  IF borrow /\ sec0 = 0 THEN [ret |-> 0, tv |-> tv]
        ELSE IF sec0 <= 0 /\ usec1 <= 0 THEN [ret |-> 0, tv |-> tv]
        ELSE [ret |-> 1, tv |-> tv]

(* time_left(tv, expire_at) at wall-clock time now: the return value and  *)
(* the interval it stores into *tv.                                        *)
TimeLeft(expireAt, now) ==
    LET sec0  == expireAt.sec - now.sec
        usec0 == expireAt.usec - now.usec
        borrow == usec0 < 0
        sec1  == IF borrow /\ sec0 # 0 THEN sec0 - 1 ELSE sec0
        usec1 == IF borrow THEN usec0 + USEC_PER_SEC ELSE usec0
        tv    == [sec |-> sec1, usec |-> usec1]
    IN  IF borrow /\ sec0 = 0 THEN [ret |-> 0, tv |-> tv]
        ELSE IF sec1 <= 0 /\ usec1 <= 0 THEN [ret |-> 0, tv |-> tv]
        ELSE [ret |-> 1, tv |-> tv]

(* select() rejects a timeval with a negative field, or usec >= 1s, with  *)
(* EINVAL.                                                                 *)
ValidTimeval(tv) == tv.sec >= 0 /\ tv.usec >= 0 /\ tv.usec < USEC_PER_SEC

VARIABLES
    now,        \* the wall clock, in ticks
    expireAt,   \* expire_at
    tv,         \* tv, the interval handed to select()
    phase       \* where the receive loop is

vars == <<now, expireAt, tv, phase>>

Phases == {"Enter", "Loop", "Select", "Process", "TimedOut", "Accepted", "Fatal"}

Init ==
    /\ now \in 0..(USEC_PER_SEC - 1)
    /\ expireAt = [sec |-> 0, usec |-> 0]
    /\ tv = [sec |-> 0, usec |-> 0]
    /\ phase = "Enter"

(* Mutant: the timeout is added to tv_usec instead of tv_sec.            *)
EnterIntoUsec ==
    /\ phase = "Enter"
    /\ expireAt' = [TimeVal(now) EXCEPT !.usec = @ + Timeout]
    /\ phase' = "Loop"
    /\ UNCHANGED <<now, tv>>

(* Entry: expire_at = now + timeout seconds.                               *)
Enter ==
    /\ phase = "Enter"
    /\ expireAt' = [TimeVal(now) EXCEPT !.sec = @ + Timeout]
    /\ phase' = "Loop"
    /\ UNCHANGED <<now, tv>>

(* Top of the do-loop: time_left; a zero result returns Timeout.           *)
LoopTop ==
    LET r == TimeLeft(expireAt, TimeVal(now)) IN
    /\ phase = "Loop"
    /\ tv' = r.tv
    /\ phase' = IF r.ret = 0 THEN "TimedOut" ELSE "Select"
    /\ UNCHANGED <<now, expireAt>>

(* select() sleeps through tv and returns 0: Timeout.                      *)
SelectTimesOut ==
    /\ phase = "Select"
    /\ ValidTimeval(tv)
    /\ now + Ticks(tv) <= MaxTime
    /\ now' = now + Ticks(tv)
    /\ phase' = "TimedOut"
    /\ UNCHANGED <<expireAt, tv>>

(* select() reports the socket readable after d ticks.                     *)
SelectReady ==
    /\ phase = "Select"
    /\ ValidTimeval(tv)
    /\ \E d \in 0..Ticks(tv) :
          /\ now + d <= MaxTime
          /\ now' = now + d
    /\ phase' = "Process"
    /\ UNCHANGED <<expireAt, tv>>

(* select() is interrupted by a signal after d ticks and is called again  *)
(* with the same tv, which Linux has reduced by the time slept.           *)
SelectInterrupted ==
    /\ phase = "Select"
    /\ ValidTimeval(tv)
    /\ \E d \in 1..Ticks(tv) :
          /\ now + d <= MaxTime
          /\ now' = now + d
          /\ tv' = IF SelectUpdatesTimeout
                     THEN TimeVal(Ticks(tv) - d)
                     ELSE tv
    /\ UNCHANGED <<expireAt, phase>>

(* select() fails (EINVAL on a negative interval): fatalSys.               *)
SelectFails ==
    /\ phase = "Select"
    /\ ~ValidTimeval(tv)
    /\ phase' = "Fatal"
    /\ UNCHANGED <<now, expireAt, tv>>

(* receivePacket and the caller's checks.  Handling the frame, or a step  *)
(* of the wall clock, takes up to MaxLag ticks.  An unacceptable frame    *)
(* (bogus length, not for us, wrong code...) loops; an acceptable one     *)
(* ends the wait.                                                          *)
ProcessFrame ==
    /\ phase = "Process"
    /\ \E lag \in 0..MaxLag :
          /\ now + lag <= MaxTime
          /\ now' = now + lag
    /\ phase' \in {"Loop", "Accepted"}
    /\ UNCHANGED <<expireAt, tv>>

Next ==
    \/ Enter \/ LoopTop
    \/ SelectTimesOut \/ SelectReady \/ SelectInterrupted \/ SelectFails
    \/ ProcessFrame

Spec == Init /\ [][Next]_vars

-----------------------------------------------------------------------------
TypeOK ==
    /\ now \in 0..MaxTime
    /\ expireAt \in [sec : Nat, usec : 0..(USEC_PER_SEC - 1)]
    /\ tv \in [sec : Int, usec : Int]
    /\ phase \in Phases

(* The time still to go before the deadline, in ticks.                     *)
Remaining == Ticks(expireAt) - now

(* The receiver never reports a timeout before the deadline: time_left    *)
(* returns 0 only once expire_at is reached, and select() is never given  *)
(* an interval shorter than what is left.                                  *)
NoEarlyTimeout == phase = "TimedOut" => Remaining <= 0

(* select() is never asked to sleep past the deadline, however often it   *)
(* is interrupted by signals (spec 4.C and testable property 8).          *)
NoOverrun == phase = "Select" => Ticks(tv) <= Remaining

(* time_left only hands select() an interval it accepts: non-negative,    *)
(* with usec below one second.                                             *)
SelectGetsValidInterval == phase = "Select" => ValidTimeval(tv)
=============================================================================
