----------------------- MODULE WinConnectTimeoutProofs -----------------------
(***************************************************************************)
(* The invariants of connect_timeout on windows, for any timeouts, any     *)
(* units of time and any width of c_long.  IInv adds to Shape how the one  *)
(* select stands to the timeout, and what SO_ERROR stands for.             *)
(***************************************************************************)
EXTENDS WinConnectTimeout, TLAPS

Fits == timeout.secs <= CLongMax

(* What has been waited, or will have been, is as long as was asked.       *)
LongEnough(time) ==
  time >= UnitsPerMicro /\ time + UnitsPerMicro > Total(timeout)

(* When the select must have ended, but for delays.                        *)
Deadline == Total(timeout) + UnitsPerMicro + lag

TimeShape ==
  /\ timeout \in Timeouts
  /\ clock \in Nat /\ lag \in 0 .. MaxLag
  /\ wake \in 0 .. (CLongMax + 1) * UnitsPerSecond + MaxLag
  /\ clock < Deadline
  /\ pc \in Deciding \ {"waiting", "take_error"} => clock <= lag
  /\ pc = "select" => Total(timeout) # 0
  /\ pc = "waiting" => wake < Deadline /\ (Fits => LongEnough(wake))
  /\ result = "TimedOut" /\ Fits => LongEnough(clock)

CauseShape ==
  /\ result = "Ok" => reached \/ FailedSilently
  /\ cause # "none" /\ soError = "none" => result = cause /\ Settled

IInv == Shape /\ CauseShape /\ TimeShape

-----------------------------------------------------------------------------
(* Words and numbers.                                                      *)

(* Words the code returns are not reasons of the kernel.                   *)
LEMMA ReasonWords ==
  \A e \in Reasons : e \notin {"none", "pending", "Ok", "InvalidInput",
                               "InvalidData", "TimedOut", "Other", "os"}
  BY ReasonsAssumption

LEMMA Product ==
  ASSUME NEW a \in Nat, NEW b \in Nat
  PROVE  a * b \in Nat /\ (a + 1) * b = a * b + b /\ (a >= 1 => b <= a * b)
  OBVIOUS

LEMMA Monotone ==
  ASSUME NEW a \in Nat, NEW b \in Nat, NEW c \in Nat, a <= b
  PROVE  a * c <= b * c
  OBVIOUS

LEMMA Quotient ==
  ASSUME NEW n \in Nat, NEW d \in Nat \ {0}
  PROVE  n \div d \in Nat /\ (n \div d) * d <= n /\ n < (n \div d) * d + d
  OBVIOUS

LEMMA Remainder ==
  ASSUME NEW n \in Nat, NEW d \in Nat \ {0}
  PROVE  n % d \in 0 .. d - 1 /\ n % d <= n /\ (n < d => n % d = n)
  OBVIOUS

-----------------------------------------------------------------------------
(* The units, the cast and the timeval.                                    *)

LEMMA Units ==
  /\ UnitsPerMicro \in Nat \ {0} /\ MicrosPerSecond \in Nat \ {0}
  /\ UnitsPerSecond \in Nat \ {0} /\ UnitsPerMicro <= UnitsPerSecond
<1>1. UnitsPerMicro \in Nat \ {0} /\ MicrosPerSecond \in Nat \ {0}
  BY UnitsAssumption
<1>2. MicrosPerSecond * UnitsPerMicro \in Nat
      /\ UnitsPerMicro <= MicrosPerSecond * UnitsPerMicro
  BY <1>1, Product
<1>3. UnitsPerSecond = MicrosPerSecond * UnitsPerMicro
  BY <1>1 DEF UnitsPerSecond
<1>4. QED
  BY <1>1, <1>2, <1>3

LEMMA CLong == CLongMax \in Nat /\ CLongWidth = 2 * CLongMax + 2
  BY CLongAssumption DEF CLongMax

(* The cast never makes a number larger, and leaves what fits as it is.    *)
LEMMA Cast ==
  ASSUME NEW n \in Nat
  PROVE  /\ AsCLong(n) \in Int
         /\ AsCLong(n) <= n /\ AsCLong(n) <= CLongMax
         /\ n <= CLongMax => AsCLong(n) = n
<1> DEFINE x == n + CLongMax + 1
<1>1. x \in Nat /\ CLongWidth \in Nat \ {0}
  BY CLong
<1>2. x % CLongWidth \in 0 .. CLongWidth - 1 /\ x % CLongWidth <= x
      /\ (x < CLongWidth => x % CLongWidth = x)
  BY <1>1, Remainder
<1>3. AsCLong(n) = (x % CLongWidth) - (CLongMax + 1)
  BY DEF AsCLong
<1>4. x = n + CLongMax + 1
  OBVIOUS
<1> HIDE DEF x
<1>5. QED
  BY <1>1, <1>2, <1>3, <1>4, CLong

Asked(d) ==
  Timeval(d).tv_sec * UnitsPerSecond + Timeval(d).tv_usec * UnitsPerMicro

(* A timeval select accepts waits for no more than the duration, but for   *)
(* the microsecond it never goes below, and, when the seconds fit, for     *)
(* less by no whole microsecond.                                           *)
LEMMA TimevalWaits ==
  ASSUME NEW d \in Timeouts, Timeval(d).tv_sec >= 0
  PROVE  /\ Total(d) \in Nat
         /\ Asked(d) \in Nat
         /\ Asked(d) <= (CLongMax + 1) * UnitsPerSecond
         /\ Total(d) # 0 => Asked(d) < Total(d) + UnitsPerMicro
         /\ d.secs <= CLongMax =>
              Asked(d) >= UnitsPerMicro /\ Asked(d) + UnitsPerMicro > Total(d)
<1> DEFINE sec   == AsCLong(d.secs)
           floor == d.sub \div UnitsPerMicro
           usec  == Timeval(d).tv_usec
           a     == sec * UnitsPerSecond
           b     == floor * UnitsPerMicro
           s     == d.secs * UnitsPerSecond
<1>1. d.secs \in Nat /\ d.sub \in 0 .. UnitsPerSecond - 1
  BY TimeoutsAssumption
<1>2. /\ Timeval(d).tv_sec = sec
      /\ usec = IF sec = 0 /\ floor = 0 THEN 1 ELSE floor
  BY DEF Timeval
<1>3. sec \in Nat /\ sec <= d.secs /\ sec <= CLongMax
      /\ (d.secs <= CLongMax => sec = d.secs)
  BY <1>1, <1>2, Cast
<1>4. d.sub \in Nat /\ d.sub < UnitsPerSecond
  BY <1>1, Units
<1>5. floor \in Nat /\ b <= d.sub /\ d.sub < b + UnitsPerMicro
  BY <1>4, Units, Quotient
<1>6. b \in Nat /\ (floor >= 1 => UnitsPerMicro <= b)
  BY <1>5, Units, Product
<1>7. a \in Nat /\ (sec >= 1 => UnitsPerSecond <= a)
  BY <1>3, Units, Product
<1>8. s \in Nat /\ a <= s
  BY <1>1, <1>3, Units, Product, Monotone
<1>9. /\ a <= CLongMax * UnitsPerSecond /\ CLongMax * UnitsPerSecond \in Nat
      /\ (CLongMax + 1) * UnitsPerSecond
           = CLongMax * UnitsPerSecond + UnitsPerSecond
  BY <1>3, CLong, Units, Product, Monotone
<1>10. Total(d) = s + d.sub
  BY DEF Total
<1>11. Asked(d) = a + usec * UnitsPerMicro
  BY <1>2 DEF Asked
<1>12. sec = 0 => a = 0
  BY Units
<1>13. floor = 0 => b = 0
  BY Units
<1>14. d.secs <= CLongMax => s = a
  BY <1>3
<1> HIDE DEF a, b, s, sec, floor, usec
<1>15. CASE sec = 0 /\ floor = 0
  <2>1. Asked(d) = UnitsPerMicro
    BY <1>2, <1>11, <1>12, <1>15, Units
  <2>2. QED
    BY <2>1, <1>4, <1>5, <1>8, <1>9, <1>10, <1>12, <1>13, <1>14, <1>15, Units
<1>16. CASE ~(sec = 0 /\ floor = 0)
  <2>1. Asked(d) = a + b
    BY <1>2, <1>11, <1>16 DEF b
  <2>2. Asked(d) >= UnitsPerMicro
    BY <2>1, <1>3, <1>5, <1>6, <1>7, <1>16, Units
  <2>3. QED
    BY <2>1, <2>2, <1>4, <1>5, <1>6, <1>7, <1>8, <1>9, <1>10, <1>14, Units
<1>17. QED
  BY <1>15, <1>16

-----------------------------------------------------------------------------
(* The steps.                                                              *)

LEMMA InitShape ==
  ASSUME SocketInit PROVE Shape
<1>1. SocketTypeOK
  <2>1. open \in BOOLEAN /\ nonblock \in BOOLEAN /\ reached \in BOOLEAN
    BY DEF SocketInit
  <2>2. clock \in Nat /\ lag \in 0 .. MaxLag
    BY LagAssumption DEF SocketInit
  <2>3. QED
    BY <2>1, <2>2 DEF SocketInit, SocketTypeOK
<1>2. CallShape /\ ConnShape
  BY DEF SocketInit, CallShape, ConnShape, Deciding, Blocking, Pending
<1>3. QED
  BY <1>1, <1>2 DEF Shape

LEMMA ShapeStep ==
  ASSUME Shape, CauseShape, [Next]_vars
  PROVE  Shape'
<1> USE ReasonWords, LagAssumption
    DEF Shape, SocketTypeOK, CallShape, ConnShape, Deciding, Blocking, Pending,
        Settled, callVars, kernelVars, timeVars
<1>1. CASE AroundTheSelect
  <2>1. CASE NewSocket({"InvalidData", "os"})
    <3>1. CASE open' = TRUE /\ pc' = "nonblocking" /\ UNCHANGED result
      BY <2>1, <3>1 DEF NewSocket
    <3>2. CASE pc' = "done" /\ result' \in {"InvalidData", "os"} /\ UNCHANGED open
      BY <2>1, <3>2 DEF NewSocket
    <3>3. QED
      BY <2>1, <3>1, <3>2 DEF NewSocket
  <2>2. CASE EnterNonblocking \/ LeaveNonblocking
    BY <2>2 DEF EnterNonblocking, LeaveNonblocking, SetNonblocking, Fail
  <2>3. CASE Connect
    BY <2>3 DEF Connect
  <2>4. CASE MatchResult(Total(timeout) = 0, "select")
    <3>1. CASE r = "Ok" /\ ReturnOk
      BY <2>4, <3>1 DEF MatchResult, ReturnOk
    <3>2. CASE (r \in Reasons /\ Fail(r)) \/ Fail("InvalidInput")
      BY <2>4, <3>2 DEF MatchResult, Fail
    <3>3. CASE r = "pending" /\ pc' = "select" /\ UNCHANGED callVars
      BY <2>4, <3>3 DEF MatchResult
    <3>4. QED
      BY <2>4, <3>1, <3>2, <3>3 DEF MatchResult
  <2>5. CASE DropSocket
    BY <2>5 DEF DropSocket
  <2>6. QED
    BY <1>1, <2>1, <2>2, <2>3, <2>4, <2>5 DEF AroundTheSelect
<1>2. CASE EnterSelect
  <2>1. CASE Fail("os")
    BY <1>2, <2>1 DEF EnterSelect, Fail
  <2>2. CASE pc' = "waiting" /\ UNCHANGED callVars
    BY <1>2, <2>2 DEF EnterSelect
  <2>3. QED
    BY <1>2, <2>1, <2>2 DEF EnterSelect
<1>3. CASE SelectReady
  <2>1. CASE conn = "connected" /\ ReturnOk
    BY <1>3, <2>1 DEF SelectReady, ReturnOk
  <2>2. CASE conn = "failed" /\ pc' = "take_error" /\ UNCHANGED callVars
    BY <1>3, <2>2 DEF SelectReady
  <2>3. QED
    BY <1>3, <2>1, <2>2 DEF SelectReady
<1>4. CASE SelectTimedOut \/ SelectFailed
  BY <1>4 DEF SelectTimedOut, SelectFailed, Fail
<1>5. CASE TakeError
  BY <1>5 DEF TakeError, ReturnOk, Fail, CauseShape
<1>6. CASE Establish
  BY <1>6 DEF Establish
<1>7. ASSUME NEW e \in Reasons \cup {"none"}, Break(e)
      PROVE  Shape'
  BY <1>7 DEF Break
<1>8. CASE Tick
  BY <1>8 DEF Tick
<1>9. CASE UNCHANGED vars
  BY <1>9 DEF vars, socketVars
<1>10. QED
  BY <1>1, <1>2, <1>3, <1>4, <1>5, <1>6, <1>7, <1>8, <1>9
  DEF Next, Thread, Returned

(* Shape contains the properties both platforms share.                     *)
LEMMA ShapeOutcome ==
  ASSUME Shape PROVE OkIsUsable /\ ErrorMeansClosed
  BY DEF Shape, CallShape, ConnShape, OkIsUsable, ErrorMeansClosed

(* As long as the result is not decided, the reason is still to be read.   *)
LEMMA CauseStep ==
  ASSUME Shape, CauseShape, [Next]_vars
  PROVE  CauseShape'
<1>1. ASSUME UNCHANGED <<soError, cause, conn, reached>>,
             \/ /\ pc \in Deciding
                /\ result' = "Ok" => reached \/ FailedSilently
             \/ UNCHANGED <<result, open>>
      PROVE  CauseShape'
  BY <1>1, ReasonWords
  DEF Shape, SocketTypeOK, CallShape, CauseShape, Settled, FailedSilently
<1>2. CASE AroundTheSelect
  <2>1. CASE Connect
    BY <2>1, ReasonWords
    DEF Connect, Shape, SocketTypeOK, CallShape, CauseShape, Settled,
        FailedSilently, Deciding
  <2>2. CASE DropSocket
    BY <2>2
    DEF DropSocket, Shape, CallShape, CauseShape, Settled, FailedSilently
  <2>3. CASE MatchResult(Total(timeout) = 0, "select")
    <3>1. pc \in Deciding /\ UNCHANGED <<soError, cause, conn, reached>>
      BY <2>3 DEF MatchResult, kernelVars, Deciding
    <3>2. result' = "Ok" => reached
      BY <2>3, ReasonWords
      DEF MatchResult, ReturnOk, Fail, callVars, Shape, CallShape, ConnShape,
          Deciding
    <3>3. QED
      BY <1>1, <3>1, <3>2
  <2>4. CASE \/ NewSocket({"InvalidData", "os"})
             \/ EnterNonblocking \/ LeaveNonblocking
    <3>1. pc \in Deciding /\ UNCHANGED <<soError, cause, conn, reached>>
      BY <2>4
      DEF NewSocket, EnterNonblocking, LeaveNonblocking, SetNonblocking,
          kernelVars, Deciding
    <3>2. result' # "Ok"
      BY <2>4
      DEF NewSocket, EnterNonblocking, LeaveNonblocking, SetNonblocking, Fail,
          Shape, CallShape, Deciding
    <3>3. QED
      BY <1>1, <3>1, <3>2
  <2>5. QED
    BY <1>2, <2>1, <2>2, <2>3, <2>4 DEF AroundTheSelect
<1>3. CASE EnterSelect \/ SelectReady \/ SelectTimedOut \/ SelectFailed
  <2>1. pc \in Deciding /\ UNCHANGED <<soError, cause, conn, reached>>
    BY <1>3
    DEF EnterSelect, SelectReady, SelectTimedOut, SelectFailed, kernelVars,
        Deciding
  <2>2. result' = "Ok" => reached
    BY <1>3
    DEF EnterSelect, SelectReady, SelectTimedOut, SelectFailed, ReturnOk, Fail,
        callVars, Shape, CallShape, ConnShape, Deciding
  <2>3. QED
    BY <1>1, <2>1, <2>2
<1>4. CASE TakeError
  <2>1. soError = cause /\ conn = "failed" /\ result = "none"
    BY <1>4 DEF TakeError, Shape, CallShape, ConnShape, Deciding
  <2>2. CASE soError = "none"
    BY <1>4, <2>1, <2>2
    DEF TakeError, ReturnOk, Fail, CauseShape, FailedSilently
  <2>3. CASE soError # "none"
    BY <1>4, <2>1, <2>3, ReasonWords
    DEF TakeError, Fail, CauseShape, Settled, Shape, SocketTypeOK
  <2>4. QED
    BY <2>2, <2>3
<1>5. CASE Establish
  BY <1>5
  DEF Establish, CauseShape, Settled, Shape, ConnShape, callVars, FailedSilently
<1>6. ASSUME NEW e \in Reasons \cup {"none"}, Break(e)
      PROVE  CauseShape'
  <2>1. e = "none" => conn = "connecting"
    BY <1>6 DEF Break
  <2>2. conn # "failed"
    BY <1>6 DEF Break
  <2>3. QED
    BY <1>6, <2>1, <2>2, ReasonWords
    DEF Break, CauseShape, FailedSilently, callVars
<1>7. CASE Tick
  BY <1>7 DEF Tick, CauseShape, Settled, callVars, kernelVars, FailedSilently
<1>8. CASE UNCHANGED vars
  BY <1>8
  DEF vars, socketVars, callVars, kernelVars, CauseShape, Settled,
      FailedSilently
<1>9. QED
  BY <1>2, <1>3, <1>4, <1>5, <1>6, <1>7, <1>8 DEF Next, Thread, Returned

LEMMA Timeless ==
  ASSUME TimeShape, UNCHANGED <<timeout, timeVars, wake>>,
         \/ pc' \in {"drop", "done", "take_error"} \/ pc' = pc
         \/ /\ pc \in Deciding \ {"waiting", "take_error"}
            /\ pc' \notin {"select", "waiting"},
         result' # "TimedOut" \/ result' = result
  PROVE  TimeShape'
  BY DEF TimeShape, Deadline, Fits, LongEnough, Total, Deciding, timeVars

LEMMA TotalIsNat == ASSUME NEW d \in Timeouts PROVE Total(d) \in Nat
<1>1. d.secs \in Nat /\ d.sub \in Nat
  BY TimeoutsAssumption, Units
<1>2. d.secs * UnitsPerSecond \in Nat
  BY <1>1, Units, Product
<1>3. QED
  BY <1>1, <1>2 DEF Total

LEMMA TimeStep ==
  ASSUME Shape, TimeShape, [Next]_vars
  PROVE  TimeShape'
<1>1. CASE AroundTheSelect
  <2>1. CASE MatchResult(Total(timeout) = 0, "select") /\ pc' = "select"
    <3>1. /\ UNCHANGED <<timeout, result, timeVars, wake>>
          /\ pc = "match" /\ Total(timeout) # 0
      BY <2>1 DEF MatchResult, ReturnOk, Fail, callVars
    <3>2. QED
      BY <2>1, <3>1
      DEF TimeShape, Deadline, Fits, LongEnough, Deciding, timeVars
  <2>2. CASE ~(MatchResult(Total(timeout) = 0, "select") /\ pc' = "select")
    <3>1. UNCHANGED <<timeout, timeVars, wake>>
      BY <1>1
      DEF AroundTheSelect, NewSocket, EnterNonblocking, LeaveNonblocking,
          SetNonblocking, Fail, ReturnOk, Connect, MatchResult, DropSocket,
          callVars
    <3>2. /\ pc \in (Deciding \ {"waiting", "take_error"}) \cup {"drop"}
          /\ pc' \notin {"select", "waiting"}
          /\ pc = "drop" => pc' = "done"
      BY <1>1, <2>2
      DEF AroundTheSelect, NewSocket, EnterNonblocking, LeaveNonblocking,
          SetNonblocking, Fail, ReturnOk, Connect, MatchResult, DropSocket,
          callVars, Deciding
    <3>3. result' # "TimedOut" \/ result' = result
      BY <1>1, ReasonWords
      DEF AroundTheSelect, NewSocket, EnterNonblocking, LeaveNonblocking,
          SetNonblocking, Fail, ReturnOk, Connect, MatchResult, DropSocket,
          callVars
    <3>4. QED
      BY <3>1, <3>2, <3>3, Timeless
  <2>3. QED
    BY <2>1, <2>2
<1>2. CASE EnterSelect
  <2>1. CASE Fail("os") /\ UNCHANGED wake
    BY <1>2, <2>1, Timeless DEF EnterSelect, Fail
  <2>2. CASE /\ Timeval(timeout).tv_sec >= 0 /\ pc' = "waiting"
             /\ wake' = clock + Timeval(timeout).tv_sec * UnitsPerSecond
                              + Timeval(timeout).tv_usec * UnitsPerMicro
             /\ UNCHANGED <<callVars, timeVars>>
    <3>1. /\ timeout \in Timeouts
          /\ clock \in Nat /\ lag \in 0 .. MaxLag /\ clock <= lag
          /\ Total(timeout) # 0 /\ result = "none"
      BY <1>2 DEF EnterSelect, TimeShape, Deciding, Shape, CallShape
    <3>2. wake' = clock + Asked(timeout)
      <4>1. Timeval(timeout).tv_sec \in Nat /\ Timeval(timeout).tv_usec \in Nat
        <5>1. timeout.secs \in Nat /\ timeout.sub \in Nat
          BY <3>1, TimeoutsAssumption, Units
        <5>2. timeout.sub \div UnitsPerMicro \in Nat
          BY <5>1, Units, Quotient
        <5>3. QED
          BY <2>2, <5>1, <5>2, Cast DEF Timeval
      <4>2. /\ Timeval(timeout).tv_sec * UnitsPerSecond \in Nat
            /\ Timeval(timeout).tv_usec * UnitsPerMicro \in Nat
        BY <4>1, Units, Product
      <4>3. QED
        BY <2>2, <3>1, <4>2 DEF Asked
    <3>3. /\ Total(timeout) \in Nat /\ Asked(timeout) \in Nat
          /\ Asked(timeout) <= (CLongMax + 1) * UnitsPerSecond
          /\ Asked(timeout) < Total(timeout) + UnitsPerMicro
          /\ Fits => LongEnough(Asked(timeout))
      BY <2>2, <3>1, TimevalWaits DEF Fits, LongEnough
    <3>4. (CLongMax + 1) * UnitsPerSecond \in Nat
      BY CLong, Units, Product
    <3>5. wake' \in 0 .. (CLongMax + 1) * UnitsPerSecond + MaxLag
      BY <3>1, <3>2, <3>3, <3>4, LagAssumption
    <3>6. wake' < Deadline /\ (Fits => LongEnough(wake'))
      BY <3>1, <3>2, <3>3, LagAssumption, Units DEF Deadline, LongEnough
    <3>7. QED
      BY <2>2, <3>1, <3>5, <3>6
      DEF TimeShape, Deadline, Fits, LongEnough, Deciding, callVars, timeVars
  <2>3. QED
    BY <1>2, <2>1, <2>2 DEF EnterSelect
<1>3. CASE SelectReady
  BY <1>3, Timeless DEF SelectReady, ReturnOk, callVars
<1>4. CASE SelectTimedOut
  <2>1. Fits => LongEnough(clock)
    <3>1. clock >= wake /\ (Fits => LongEnough(wake)) /\ timeout \in Timeouts
          /\ clock \in Nat /\ wake \in Int
      BY <1>4, CLong, Units, LagAssumption DEF SelectTimedOut, TimeShape
    <3>2. Total(timeout) \in Nat
      BY <3>1, TotalIsNat
    <3>3. QED
      BY <3>1, <3>2, Units DEF LongEnough
  <2>2. QED
    BY <1>4, <2>1
    DEF SelectTimedOut, Fail, TimeShape, Deadline, Fits, LongEnough, Deciding,
        timeVars
<1>5. CASE SelectFailed
  BY <1>5, Timeless DEF SelectFailed, Fail
<1>6. CASE TakeError
  <2>1. soError # "TimedOut"
    BY ReasonWords DEF Shape, SocketTypeOK
  <2>2. QED
    BY <1>6, <2>1, Timeless DEF TakeError, Fail, ReturnOk
<1>7. CASE Establish
  BY <1>7, Timeless DEF Establish, callVars
<1>8. ASSUME NEW e \in Reasons \cup {"none"}, Break(e)
      PROVE  TimeShape'
  BY <1>8, Timeless DEF Break, callVars
<1>9. CASE Tick
  <2>1. UNCHANGED <<pc, timeout, result, wake>> /\ clock' = clock + 1
    BY <1>9 DEF Tick, callVars
  <2>2. timeout \in Timeouts /\ clock \in Nat /\ lag \in Nat /\ wake \in Int
    BY CLong, Units, LagAssumption DEF TimeShape
  <2>3. Total(timeout) \in Nat /\ Total(timeout)' = Total(timeout)
    BY <2>1, <2>2, TotalIsNat DEF Total
  <2>4. CASE Asleep /\ UNCHANGED lag
    BY <2>1, <2>2, <2>3, <2>4, Units
    DEF Asleep, TimeShape, Deadline, Fits, LongEnough, Deciding
  <2>5. CASE lag' = lag + 1 /\ lag < MaxLag
    BY <2>1, <2>2, <2>3, <2>5, Units, LagAssumption
    DEF TimeShape, Deadline, Fits, LongEnough
  <2>6. QED
    BY <1>9, <2>4, <2>5 DEF Tick
<1>10. CASE UNCHANGED vars
  BY <1>10, Timeless DEF vars, socketVars, callVars
<1>11. QED
  BY <1>1, <1>2, <1>3, <1>4, <1>5, <1>6, <1>7, <1>8, <1>9, <1>10
  DEF Next, Thread, Returned

-----------------------------------------------------------------------------
(* The invariant and the theorems.                                         *)

LEMMA Initially == Init => IInv
<1> SUFFICES ASSUME Init PROVE IInv
  OBVIOUS
<1>1. Shape
  BY InitShape DEF Init
<1>2. CauseShape
  BY DEF Init, SocketInit, CauseShape
<1>3. TimeShape
  <2>1. timeout \in Timeouts /\ clock = 0 /\ lag = 0 /\ wake = 0
        /\ pc = "new" /\ result = "none"
    BY DEF Init, SocketInit
  <2>2. Total(timeout) \in Nat
    BY <2>1, TotalIsNat
  <2>3. (CLongMax + 1) * UnitsPerSecond \in Nat
    BY CLong, Units, Product
  <2>4. QED
    BY <2>1, <2>2, <2>3, Units, LagAssumption DEF TimeShape, Deadline
<1>4. QED
  BY <1>1, <1>2, <1>3 DEF IInv

LEMMA Inductive == IInv /\ [Next]_vars => IInv'
  BY ShapeStep, CauseStep, TimeStep DEF IInv

LEMMA Invariance == Spec => []IInv
  BY Initially, Inductive, PTL DEF Spec

(* The type invariant: wake stays within what a c_long of seconds gives.   *)
THEOREM TypeCorrect == Spec => []TypeOK
<1>1. IInv => TypeOK
  BY DEF IInv, Shape, TimeShape, TypeOK
<1>2. QED
  BY <1>1, Invariance, PTL

(* connect_timeout says what happened, and a reason in SO_ERROR is not     *)
(* lost: Ok without a connection comes only of a failure without a reason. *)
THEOREM OutcomeHolds == Spec => []OutcomeIsTrue
<1>1. IInv => OutcomeIsTrue
  <2>1. IInv => OkIsUsable /\ ErrorMeansClosed
    BY ShapeOutcome DEF IInv
  <2>2. IInv => OkMeansConnected /\ ReasonIsReported
    BY DEF IInv, Shape, ConnShape, CauseShape, OkMeansConnected,
           ReasonIsReported
  <2>3. QED
    BY <2>1, <2>2 DEF OutcomeIsTrue
<1>2. QED
  BY <1>1, Invariance, PTL

(* Timeouts that fit a c_long are waited for, to the microsecond, and none *)
(* is waited for longer than asked.                                        *)
THEOREM InTime == Spec => []Punctual
<1>1. ASSUME IInv PROVE Punctual
  <2>1. Total(timeout) \in Nat /\ clock \in Nat
    BY <1>1, TotalIsNat DEF IInv, TimeShape
  <2>2. QED
    BY <1>1, <2>1, Units
    DEF IInv, TimeShape, Deadline, Fits, LongEnough, Punctual
<1>2. QED
  BY <1>1, Invariance, PTL

=============================================================================
