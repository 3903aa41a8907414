------------------------ MODULE ConnectTimeoutProofs ------------------------
(***************************************************************************)
(* The invariants of connect_timeout on unix, for any timeouts, any number *)
(* of units in a millisecond, any c_int, any reasons and any lag.  To what *)
(* every form of the call keeps (Shape), IInv adds how far the clock and   *)
(* the running poll may be from the deadline.                              *)
(***************************************************************************)
EXTENDS ConnectTimeout, TLAPS

(* The deadline, with the rounding and the delays it does not answer for.  *)
Deadline == timeout + (UnitsPerMs - 1) + lag

TimeShape ==
  /\ timeout \in Nat /\ clock \in Nat /\ lag \in Nat
  /\ wake \in Nat
  /\ ms \in 0 .. CIntMax
  /\ naps \in Nat
  /\ clock <= Deadline
  /\ pc = "poll" => ms >= 1 /\ clock + ms * UnitsPerMs <= Deadline
  /\ pc = "waiting" => /\ wake <= Deadline
                     /\ naps * UnitsPerMs + UnitsPerMs <= wake
  /\ naps * UnitsPerMs <= clock
  /\ result = "TimedOut" => clock >= timeout

(* Ok is told only of a connection that was established, and "no error set *)
(* after POLLHUP" only where there was none.                               *)
OtherShape ==
  /\ result = "Ok" => reached
  /\ r = "pending" /\ result = "Other" => cause = "none" /\ Settled

IInv == Shape /\ OtherShape /\ TimeShape

-----------------------------------------------------------------------------
(* Words and numbers.                                                      *)

(* Words the code returns are not reasons of the kernel.                   *)
LEMMA ReasonWords ==
  \A e \in Reasons : e \notin {"none", "pending", "Ok", "InvalidInput",
                               "InvalidData", "TimedOut", "Other", "os"}
  BY ReasonsAssumption

LEMMA Product ==
  ASSUME NEW a \in Nat, NEW b \in Nat
  PROVE  a * b \in Nat /\ (a + 1) * b = a * b + b /\ (a >= 1 => b <= a * b)
  OBVIOUS

LEMMA Monotone ==
  ASSUME NEW a \in Nat, NEW b \in Nat, NEW c \in Nat, a <= b
  PROVE  a * c <= b * c
  OBVIOUS

LEMMA Quotient ==
  ASSUME NEW n \in Nat, NEW d \in Nat \ {0}
  PROVE  n \div d \in Nat /\ (n \div d) * d <= n /\ n < (n \div d) * d + d
  OBVIOUS

(* A wait that fits what remained at c ends in time.                       *)
LEMMA EndsInTime ==
  ASSUME NEW c \in Nat, NEW t \in Nat, NEW l \in Nat, NEW u \in Nat,
         NEW w \in Nat, w <= (t - c) + (u - 1)
  PROVE  c + w <= t + (u - 1) + l
  OBVIOUS

LEMMA Between ==
  ASSUME NEW a \in Nat, NEW b \in Nat, NEW c \in Nat, a <= b, b <= c
  PROVE  a <= c
  OBVIOUS

-----------------------------------------------------------------------------
(* The argument of poll.                                                   *)

(* The argument of poll is at least 1, fits a c_int and waits for no more  *)
(* than what remains, but for the one millisecond it never goes below.     *)
LEMMA PollArgumentFits ==
  ASSUME NEW n \in Nat \ {0}
  PROVE  /\ PollArgument(n) \in 1 .. CIntMax
         /\ PollArgument(n) * UnitsPerMs <= n + (UnitsPerMs - 1)
<1> DEFINE floor == n \div UnitsPerMs
           asked == IF floor = 0 THEN 1 ELSE floor
<1>1. floor \in Nat /\ floor * UnitsPerMs <= n /\ UnitsPerMs \in Nat \ {0}
  BY Quotient, UnitsAssumption
<1>2. asked \in Nat /\ asked >= 1 /\ asked * UnitsPerMs <= n + (UnitsPerMs - 1)
  <2>1. CASE floor = 0
    BY <1>1, <2>1
  <2>2. CASE floor # 0
    BY <1>1, <2>2
  <2>3. QED
    BY <2>1, <2>2
<1>3. PollArgument(n) = Least(asked, CIntMax)
  BY DEF PollArgument
<1> HIDE DEF floor, asked
<1>4. PollArgument(n) \in 1 .. CIntMax /\ PollArgument(n) <= asked
  BY <1>2, <1>3, CIntAssumption DEF Least
<1>5. PollArgument(n) * UnitsPerMs <= asked * UnitsPerMs
  BY <1>1, <1>2, <1>4, Monotone
<1>6. PollArgument(n) * UnitsPerMs \in Nat /\ asked * UnitsPerMs \in Nat
  BY <1>1, <1>2, <1>4, Product
<1>7. QED
  BY <1>1, <1>2, <1>4, <1>5, <1>6

-----------------------------------------------------------------------------
(* The steps.                                                              *)

LEMMA InitShape ==
  ASSUME SocketInit PROVE Shape
<1>1. SocketTypeOK
  <2>1. open \in BOOLEAN /\ nonblock \in BOOLEAN /\ reached \in BOOLEAN
    BY DEF SocketInit
  <2>2. clock \in Nat /\ lag \in 0 .. MaxLag
    BY LagAssumption DEF SocketInit
  <2>3. QED
    BY <2>1, <2>2 DEF SocketInit, SocketTypeOK
<1>2. CallShape /\ ConnShape
  BY DEF SocketInit, CallShape, ConnShape, Deciding, Blocking, Pending
<1>3. QED
  BY <1>1, <1>2 DEF Shape

LEMMA ShapeStep ==
  ASSUME Shape, OtherShape, [Next]_vars
  PROVE  Shape' /\ OtherShape'
<1> USE ReasonWords, LagAssumption
    DEF Shape, SocketTypeOK, CallShape, ConnShape, Deciding, Blocking, Pending,
        Settled, OtherShape, callVars, kernelVars,
        timeVars
<1>1. CASE AroundTheLoop
  <2>1. CASE NewSocket({"os"})
    <3>1. CASE open' = TRUE /\ pc' = "nonblocking" /\ UNCHANGED result
      BY <2>1, <3>1 DEF NewSocket
    <3>2. CASE pc' = "done" /\ result' \in {"os"} /\ UNCHANGED open
      BY <2>1, <3>2 DEF NewSocket
    <3>3. QED
      BY <2>1, <3>1, <3>2 DEF NewSocket
  <2>2. CASE EnterNonblocking \/ LeaveNonblocking
    BY <2>2 DEF EnterNonblocking, LeaveNonblocking, SetNonblocking, Fail
  <2>3. CASE Connect
    BY <2>3 DEF Connect
  <2>4. CASE MatchResult(timeout = 0, "elapsed")
    <3>1. CASE r = "Ok" /\ ReturnOk
      BY <2>4, <3>1 DEF MatchResult, ReturnOk
    <3>2. CASE (r \in Reasons /\ Fail(r)) \/ Fail("InvalidInput")
      BY <2>4, <3>2 DEF MatchResult, Fail
    <3>3. CASE r = "pending" /\ pc' = "elapsed" /\ UNCHANGED callVars
      BY <2>4, <3>3 DEF MatchResult
    <3>4. QED
      BY <2>4, <3>1, <3>2, <3>3 DEF MatchResult
  <2>5. CASE DropSocket
    BY <2>5 DEF DropSocket
  <2>6. QED
    BY <1>1, <2>1, <2>2, <2>3, <2>4, <2>5 DEF AroundTheLoop
<1>2. CASE CheckElapsed
  <2>1. CASE Fail("TimedOut")
    BY <1>2, <2>1 DEF CheckElapsed, Fail
  <2>2. CASE pc' = "poll" /\ UNCHANGED callVars
    BY <1>2, <2>2 DEF CheckElapsed
  <2>3. QED
    BY <1>2, <2>1, <2>2 DEF CheckElapsed
<1>3. CASE EnterPoll \/ PollTimedOut
  BY <1>3 DEF EnterPoll, PollTimedOut
<1>4. CASE PollReady
  <2>1. CASE conn = "connected" /\ ReturnOk
    BY <1>4, <2>1 DEF PollReady, ReturnOk
  <2>2. CASE conn = "failed" /\ pc' = "take_error" /\ UNCHANGED callVars
    BY <1>4, <2>2 DEF PollReady
  <2>3. QED
    BY <1>4, <2>1, <2>2 DEF PollReady
<1>5. CASE PollFailed
  <2>1. CASE pc' = "elapsed" /\ UNCHANGED callVars
    BY <1>5, <2>1 DEF PollFailed
  <2>2. CASE Fail("os")
    BY <1>5, <2>2 DEF PollFailed, Fail
  <2>3. QED
    BY <1>5, <2>1, <2>2 DEF PollFailed
<1>6. CASE TakeError
  BY <1>6 DEF TakeError, Fail
<1>7. CASE Environment
  <2>1. CASE Establish
    BY <2>1 DEF Establish
  <2>2. ASSUME NEW e \in Reasons \cup {"none"}, Break(e)
        PROVE  Shape' /\ OtherShape'
    BY <2>2 DEF Break
  <2>3. CASE Tick
    BY <2>3 DEF Tick
  <2>4. QED
    BY <1>7, <2>1, <2>2, <2>3 DEF Environment
<1>8. CASE UNCHANGED vars
  BY <1>8 DEF vars, socketVars
<1>9. QED
  BY <1>1, <1>2, <1>3, <1>4, <1>5, <1>6, <1>7, <1>8 DEF Next, Thread, Returned

(* Shape contains the properties both platforms share.                     *)
LEMMA ShapeOutcome ==
  ASSUME Shape PROVE OkIsUsable /\ ErrorMeansClosed
  BY DEF Shape, CallShape, ConnShape, OkIsUsable, ErrorMeansClosed

(* Steps that pass no time, leave the loop's variables alone and neither   *)
(* enter a poll nor time out.                                              *)
LEMMA Timeless ==
  ASSUME TimeShape, UNCHANGED <<timeout, timeVars, wake, loopVars>>,
         pc' \notin {"poll", "waiting"} \/ pc' = pc,
         result' # "TimedOut" \/ result' = result
  PROVE  TimeShape'
  BY DEF TimeShape, Deadline, timeVars, loopVars

LEMMA TimeStep ==
  ASSUME Shape, TimeShape, [Next]_vars
  PROVE  TimeShape'
<1> USE UnitsAssumption
<1>1. CASE AroundTheLoop
  <2>1. UNCHANGED <<timeout, timeVars, wake, loopVars>>
    BY <1>1
    DEF AroundTheLoop, NewSocket, EnterNonblocking, LeaveNonblocking,
        SetNonblocking, Fail, ReturnOk, Connect, MatchResult, DropSocket,
        callVars
  <2>2. pc' \notin {"poll", "waiting"}
    BY <1>1
    DEF AroundTheLoop, NewSocket, EnterNonblocking, LeaveNonblocking,
        SetNonblocking, Fail, ReturnOk, Connect, MatchResult, DropSocket,
        callVars
  <2>3. result' # "TimedOut" \/ result' = result
    BY <1>1, ReasonWords
    DEF AroundTheLoop, NewSocket, EnterNonblocking, LeaveNonblocking,
        SetNonblocking, Fail, ReturnOk, Connect, MatchResult, DropSocket,
        callVars
  <2>4. QED
    BY <2>1, <2>2, <2>3, Timeless
<1>2. CASE CheckElapsed
  <2>1. CASE clock >= timeout /\ Fail("TimedOut") /\ UNCHANGED ms
    BY <1>2, <2>1 DEF CheckElapsed, Fail, TimeShape, Deadline, timeVars
  <2>2. CASE /\ clock < timeout /\ ms' = PollArgument(timeout - clock)
             /\ pc' = "poll" /\ UNCHANGED callVars
    <3>1. timeout - clock \in Nat \ {0}
      BY <2>2 DEF TimeShape
    <3>2. /\ ms' \in 1 .. CIntMax
          /\ ms' * UnitsPerMs <= (timeout - clock) + (UnitsPerMs - 1)
      BY <2>2, <3>1, PollArgumentFits
    <3>3. ms' * UnitsPerMs \in Nat
      <4>1. ms' \in Nat /\ UnitsPerMs \in Nat
        BY <3>2, CIntAssumption
      <4>2. QED
        BY <4>1, Product
    <3>4. clock + ms' * UnitsPerMs <= Deadline
      <4>1. clock \in Nat /\ timeout \in Nat /\ lag \in Nat
        BY DEF TimeShape
      <4>2. QED
        BY <3>2, <3>3, <4>1, EndsInTime DEF Deadline
    <3>5. QED
      BY <1>2, <2>2, <3>2, <3>4
      DEF CheckElapsed, TimeShape, Deadline, callVars, timeVars
  <2>3. QED
    BY <1>2, <2>1, <2>2 DEF CheckElapsed
<1>3. CASE EnterPoll
  <2>1. ms >= 1 /\ ms \in Nat /\ clock + ms * UnitsPerMs <= Deadline
    BY <1>3, CIntAssumption DEF EnterPoll, TimeShape
  <2>2. ms * UnitsPerMs \in Nat /\ UnitsPerMs <= ms * UnitsPerMs
    BY <2>1, Product
  <2>3. naps * UnitsPerMs \in Nat
    BY Product DEF TimeShape
  <2>4. wake' = clock + ms * UnitsPerMs
    BY <1>3 DEF EnterPoll
  <2>5. /\ wake' \in Nat /\ wake' <= Deadline
        /\ naps * UnitsPerMs + UnitsPerMs <= wake'
    BY <2>1, <2>2, <2>3, <2>4 DEF TimeShape
  <2>6. QED
    BY <1>3, <2>5
    DEF EnterPoll, TimeShape, Deadline, callVars, timeVars, loopVars
<1>4. CASE PollReady
  BY <1>4, Timeless DEF PollReady, ReturnOk, callVars
<1>5. CASE PollTimedOut
  <2>1. naps' * UnitsPerMs = naps * UnitsPerMs + UnitsPerMs /\ naps' \in Nat
    BY <1>5, Product DEF PollTimedOut, TimeShape
  <2>2. naps' * UnitsPerMs <= clock
    <3>1. naps * UnitsPerMs \in Nat
      BY Product DEF TimeShape
    <3>2. /\ naps * UnitsPerMs + UnitsPerMs <= wake /\ wake <= clock
          /\ wake \in Nat /\ clock \in Nat
      BY <1>5 DEF PollTimedOut, TimeShape
    <3>3. naps * UnitsPerMs + UnitsPerMs \in Nat
      BY <3>1
    <3>4. QED
      BY <2>1, <3>2, <3>3, Between
  <2>3. QED
    BY <1>5, <2>1, <2>2
    DEF PollTimedOut, TimeShape, Deadline, callVars, timeVars
<1>6. CASE PollFailed
  BY <1>6, Timeless DEF PollFailed, Fail, callVars
<1>7. CASE TakeError
  <2>1. soError # "TimedOut"
    BY ReasonWords DEF Shape, SocketTypeOK
  <2>2. QED
    BY <1>7, <2>1, Timeless DEF TakeError, Fail
<1>8. CASE Environment
  <2>1. CASE Establish
    BY <1>8, <2>1, Timeless DEF Environment, Establish, callVars
  <2>2. ASSUME NEW e \in Reasons \cup {"none"}, Break(e)
        PROVE  TimeShape'
    BY <1>8, <2>2, Timeless DEF Environment, Break, callVars
  <2>3. CASE Tick
    <3>1. /\ UNCHANGED <<pc, timeout, result, wake, loopVars>>
          /\ clock' = clock + 1
      BY <1>8, <2>3 DEF Environment, Tick, callVars
    <3>2. CASE Asleep /\ UNCHANGED lag
      BY <3>1, <3>2 DEF Asleep, TimeShape, Deadline, loopVars
    <3>3. CASE lag' = lag + 1
      <4>1. naps * UnitsPerMs \in Nat /\ ms * UnitsPerMs \in Nat
        BY Product, CIntAssumption DEF TimeShape
      <4>2. QED
        BY <3>1, <3>3, <4>1 DEF TimeShape, Deadline, loopVars
    <3>4. QED
      BY <2>3, <3>2, <3>3 DEF Tick
  <2>4. QED
    BY <1>8, <2>1, <2>2, <2>3 DEF Environment
<1>9. CASE UNCHANGED vars
  BY <1>9, Timeless DEF vars, socketVars, callVars
<1>10. QED
  BY <1>1, <1>2, <1>3, <1>4, <1>5, <1>6, <1>7, <1>8, <1>9
  DEF Next, Thread, Returned

-----------------------------------------------------------------------------
(* The invariant and the theorems.                                         *)

LEMMA Initially == Init => IInv
<1> SUFFICES ASSUME Init PROVE IInv
  OBVIOUS
<1>1. Shape
  BY InitShape DEF Init
<1>2. OtherShape
  BY DEF Init, SocketInit, OtherShape
<1>3. TimeShape
  <2>1. timeout \in Nat
    BY TimeoutsAssumption DEF Init, SocketInit
  <2>2. QED
    BY <2>1, UnitsAssumption, CIntAssumption
    DEF Init, SocketInit, TimeShape, Deadline
<1>4. QED
  BY <1>1, <1>2, <1>3 DEF IInv

LEMMA Inductive == IInv /\ [Next]_vars => IInv'
  BY ShapeStep, TimeStep DEF IInv

LEMMA Invariance == Spec => []IInv
  BY Initially, Inductive, PTL DEF Spec

(* The type invariant, whatever the widths and units.                      *)
THEOREM TypeCorrect == Spec => []TypeOK
<1>1. IInv => TypeOK
  BY DEF IInv, Shape, TimeShape, TypeOK
<1>2. QED
  BY <1>1, Invariance, PTL

(* connect_timeout says what happened: an Ok stream is connected, open and *)
(* blocking, an error leaves no socket, and the reason is the kernel's.    *)
THEOREM OutcomeHolds == Spec => []OutcomeIsTrue
<1>1. IInv => OutcomeIsTrue
  <2>1. IInv => OkIsUsable /\ ErrorMeansClosed
    BY ShapeOutcome DEF IInv
  <2>2. IInv => OkMeansConnected /\ ReasonIsReported
    BY DEF IInv, Shape, ConnShape, OtherShape, OkMeansConnected,
           ReasonIsReported
  <2>3. QED
    BY <2>1, <2>2 DEF OutcomeIsTrue
<1>2. QED
  BY <1>1, Invariance, PTL

(* The poll loop ends in time, with any timeout, any c_int and any number  *)
(* of signals.                                                             *)
THEOREM InTime == Spec => []Punctual
<1>1. IInv => Punctual
  BY DEF IInv, TimeShape, Deadline, Punctual
<1>2. QED
  BY <1>1, Invariance, PTL

(* The poll loop never spins.                                              *)
THEOREM NoSpinning == Spec => []NoBusyWait
<1>1. IInv => NoBusyWait
  BY DEF IInv, TimeShape, NoBusyWait
<1>2. QED
  BY <1>1, Invariance, PTL

=============================================================================
