--------------------------- MODULE ConnectTimeout ---------------------------
(***************************************************************************)
(* BtStream::connect_timeout on unix: one thread starts a connection and   *)
(* waits for it in a loop around poll, while the kernel and the peer       *)
(* decide what becomes of the connection, signals interrupt poll and the   *)
(* clock advances from the Instant the code takes.  UnitsPerMs clock units *)
(* make the millisecond poll counts in.                                    *)
(***************************************************************************)
EXTENDS TimedConnect

CONSTANTS
  UnitsPerMs,  (* clock units in a millisecond                             *)
  CIntMax      (* the longest poll, in milliseconds                        *)

ASSUME TimeoutsAssumption == Timeouts \subseteq Nat
ASSUME UnitsAssumption    == UnitsPerMs \in Nat \ {0}
ASSUME CIntAssumption     == CIntMax \in Nat \ {0}

VARIABLES
  ms,        (* the argument computed for poll                             *)
  naps       (* ghost: polls that ended with 0                             *)

loopVars == <<ms, naps>>
vars == <<socketVars, loopVars>>

TypeOK ==
  /\ SocketTypeOK
  /\ wake \in Nat
  /\ ms \in 0 .. CIntMax
  /\ naps \in Nat

Init == SocketInit /\ ms = 0 /\ naps = 0

EnterNonblocking == SetNonblocking("nonblocking", TRUE, "connect")

LeaveNonblockingLate ==              \* mutant: only undone on EINPROGRESS
  /\ pc = "blocking"
  /\ IF r = "Ok" THEN pc' = "match" /\ UNCHANGED <<callVars, kernelVars,
                                                   timeVars, wake>>
                 ELSE SetNonblocking("blocking", FALSE, "match")

LeaveNonblocking == SetNonblocking("blocking", FALSE, "match")

(* Everything before let start = Instant::now(), and the drop on an error. *)
AroundTheLoop ==
  /\ \/ NewSocket({"os"}) \/ EnterNonblocking \/ Connect \/ LeaveNonblocking
     \/ MatchResult(timeout = 0, "elapsed") \/ DropSocket
  /\ UNCHANGED loopVars

-----------------------------------------------------------------------------
(* The poll loop.                                                          *)

Least(a, b) == IF a < b THEN a ELSE b

PollArgumentTruncated(remaining) ==  \* mutant: no minimum of one millisecond
  Least(remaining \div UnitsPerMs, CIntMax)

PollArgumentUnclamped(remaining) ==  \* mutant: the cast to c_int is bare
  IF remaining < UnitsPerMs THEN 1 ELSE remaining \div UnitsPerMs

PollArgumentRounded(remaining) ==    \* mutant: a millisecond is always added
  Least((remaining \div UnitsPerMs) + 1, CIntMax)

(* The remaining time in milliseconds, rounded down but never to 0, and    *)
(* cut to a c_int.                                                         *)
PollArgument(remaining) ==
  LET floor == remaining \div UnitsPerMs
  IN  Least(IF floor = 0 THEN 1 ELSE floor, CIntMax)

CheckElapsed ==
  /\ pc = "elapsed"
  /\ \/ /\ clock >= timeout
        /\ Fail("TimedOut")
        /\ UNCHANGED ms
     \/ /\ clock < timeout
        /\ ms' = PollArgument(timeout - clock)
        /\ pc' = "poll"
        /\ UNCHANGED callVars
  /\ UNCHANGED <<kernelVars, timeVars, wake, naps>>

EnterPoll ==
  /\ pc = "poll"
  /\ wake' = clock + ms * UnitsPerMs
  /\ pc' = "waiting"
  /\ UNCHANGED <<callVars, kernelVars, timeVars, loopVars>>

PollReadyUnasked ==                  \* mutant: POLLHUP is not looked for
  /\ pc = "waiting"
  /\ conn \in {"connected", "failed"}
  /\ ReturnOk
  /\ UNCHANGED <<kernelVars, timeVars, wake, loopVars>>

(* poll found the socket writable, or hung up.                             *)
PollReady ==
  /\ pc = "waiting"
  /\ \/ conn = "connected" /\ ReturnOk
     \/ conn = "failed" /\ pc' = "take_error" /\ UNCHANGED callVars
  /\ UNCHANGED <<kernelVars, timeVars, wake, loopVars>>

PollTimedOut ==
  /\ pc = "waiting"
  /\ conn = "connecting"
  /\ clock >= wake
  /\ naps' = naps + 1
  /\ pc' = "elapsed"
  /\ UNCHANGED <<callVars, kernelVars, timeVars, ms, wake>>

PollFailedRestarting ==              \* mutant: start is taken inside the loop
  /\ pc = "waiting"
  /\ conn = "connecting"
  /\ pc' = "elapsed"
  /\ clock' = 0
  /\ UNCHANGED <<callVars, kernelVars, lag, wake, loopVars>>

(* poll failed.  A signal interrupts a poll that has nothing to report     *)
(* (EINTR) and the loop goes round; any other error is returned.           *)
PollFailed ==
  /\ pc = "waiting"
  /\ \/ conn = "connecting" /\ pc' = "elapsed" /\ UNCHANGED callVars
     \/ Fail("os")
  /\ UNCHANGED <<kernelVars, timeVars, wake, loopVars>>

TakeErrorIgnored ==                  \* mutant: SO_ERROR is never asked for
  /\ pc = "take_error"
  /\ Fail("Other")
  /\ UNCHANGED <<kernelVars, timeVars, wake, loopVars>>

(* take_error after POLLHUP: the pending error, "no error set after        *)
(* POLLHUP" when there is none, or getsockopt's own error.                 *)
TakeError ==
  /\ pc = "take_error"
  /\ \/ /\ Fail(IF soError = "none" THEN "Other" ELSE soError)
        /\ soError' = "none"
     \/ /\ Fail("os")
        /\ UNCHANGED soError
  /\ UNCHANGED <<conn, reached, cause, timeVars, wake, loopVars>>

Thread ==
  \/ AroundTheLoop \/ CheckElapsed \/ EnterPoll \/ PollReady \/ PollTimedOut
  \/ PollFailed \/ TakeError

-----------------------------------------------------------------------------
(* The connection is refused or lost, with SO_ERROR set; a peer that       *)
(* accepted it may also close it without an error.                         *)
Break(e) ==
  /\ open
  /\ \/ conn = "connecting" /\ e # "none"
     \/ conn = "connected"
  /\ conn' = "failed"
  /\ soError' = e
  /\ cause' = e
  /\ UNCHANGED <<pc, callVars, reached, timeVars, wake>>

Environment ==
  /\ Establish \/ (\E e \in Reasons \cup {"none"} : Break(e)) \/ Tick
  /\ UNCHANGED loopVars

Returned == pc = "done" /\ UNCHANGED vars

Next == Thread \/ Environment \/ Returned

Spec == Init /\ [][Next]_vars

(* A thread that can run is run, and time does not stop while it sleeps.   *)
FairSpec == Spec /\ WF_vars(Thread) /\ SF_vars(Tick /\ UNCHANGED loopVars)

-----------------------------------------------------------------------------
(* Properties.                                                             *)

(* The call ends in time.  TimedOut is never reported early, and however   *)
(* often poll is interrupted, cut short by rounding or clamped to a c_int, *)
(* no return comes a millisecond or more after the deadline beyond what    *)
(* the scheduler withheld the thread.                                      *)
Punctual ==
  /\ result = "TimedOut" => clock >= timeout
  /\ pc = "done" => clock <= timeout + (UnitsPerMs - 1) + lag

(* The loop waits in poll, it does not spin: each poll that ended with 0   *)
(* took a millisecond at least ("if timeout == 0 { timeout = 1 }").        *)
NoBusyWait == naps * UnitsPerMs <= clock

(* Ok means that the kernel did establish the connection, although poll    *)
(* reports a refused one as writable too ("linux returns POLLOUT|POLLERR|  *)
(* POLLHUP for refused connections (!)").                                  *)
OkMeansConnected == pc = "done" /\ result = "Ok" => reached

(* A connection that failed for a reason the kernel recorded is never      *)
(* reported as "no error set after POLLHUP", nor with another reason.      *)
ReasonIsReported ==
  pc = "done" /\ r = "pending" =>
    /\ result = "Other" => cause = "none"
    /\ result \in Reasons => result = cause

(* What the call says is so: Ok leaves a connected, open, blocking socket, *)
(* an error none at all, and a reason is the one the kernel recorded.      *)
OutcomeIsTrue ==
  OkMeansConnected /\ OkIsUsable /\ ErrorMeansClosed /\ ReasonIsReported

(* "It is an error to pass a zero Duration to this function" (the doc of   *)
(* BtStream::connect_timeout).                                             *)
ZeroTimeoutIsError ==
  pc = "done" /\ timeout = 0 => result # "Ok"

=============================================================================
