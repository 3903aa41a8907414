------------------------- MODULE WinConnectTimeout -------------------------
(***************************************************************************)
(* BtStream::connect_timeout on windows: the connection is awaited with    *)
(* one select, whose timeval has seconds in a c_long.  A Duration is its   *)
(* whole seconds and the clock units that remain.                          *)
(***************************************************************************)
EXTENDS TimedConnect

CONSTANTS
  UnitsPerMicro,    (* clock units in a microsecond                         *)
  MicrosPerSecond,
  CLongWidth        (* number of values of a c_long                         *)

UnitsPerSecond == UnitsPerMicro * MicrosPerSecond

ASSUME UnitsAssumption ==
  UnitsPerMicro \in Nat \ {0} /\ MicrosPerSecond \in Nat \ {0}
ASSUME TimeoutsAssumption ==
  Timeouts \subseteq [secs : Nat, sub : 0 .. UnitsPerSecond - 1]
ASSUME CLongAssumption ==
  /\ CLongWidth \in Nat \ {0} /\ CLongWidth % 2 = 0
  /\ MicrosPerSecond <= CLongWidth \div 2

vars == socketVars

Total(d) == d.secs * UnitsPerSecond + d.sub

CLongMax == CLongWidth \div 2 - 1

TypeOK ==
  /\ SocketTypeOK
  /\ wake \in 0 .. (CLongMax + 1) * UnitsPerSecond + MaxLag

Init == SocketInit

EnterNonblocking == SetNonblocking("nonblocking", TRUE, "connect")
LeaveNonblocking == SetNonblocking("blocking", FALSE, "match")

(* Socket::new refuses L2CAP; the rest up to the select, and the drop on   *)
(* an error, are those of unix.                                            *)
AroundTheSelect ==
  \/ NewSocket({"InvalidData", "os"}) \/ EnterNonblocking \/ Connect
  \/ LeaveNonblocking \/ MatchResult(Total(timeout) = 0, "select")
  \/ DropSocket

-----------------------------------------------------------------------------
(* The select.                                                             *)

AsULong(n) == n % CLongWidth         \* mutant: seconds are taken as unsigned

(* What `as c_long' makes of a number.                                     *)
AsCLong(n) == ((n + CLongMax + 1) % CLongWidth) - (CLongMax + 1)

TimevalTruncated(d) ==               \* mutant: no minimum of one microsecond
  [tv_sec |-> AsCLong(d.secs), tv_usec |-> d.sub \div UnitsPerMicro]

TimevalRounded(d) ==                 \* mutant: a microsecond is always added
  [tv_sec |-> AsCLong(d.secs), tv_usec |-> 1 + d.sub \div UnitsPerMicro]

(* subsec_micros rounds down; both parts 0 would make select return at     *)
(* once, so a microsecond is asked for.                                    *)
Timeval(d) ==
  LET sec  == AsCLong(d.secs)
      usec == d.sub \div UnitsPerMicro
  IN  [tv_sec |-> sec, tv_usec |-> IF sec = 0 /\ usec = 0 THEN 1 ELSE usec]

(* select refuses a negative time and returns the error at once.           *)
EnterSelect ==
  LET tv == Timeval(timeout)
  IN  /\ pc = "select"
      /\ \/ /\ tv.tv_sec < 0
            /\ Fail("os")
            /\ UNCHANGED wake
         \/ /\ tv.tv_sec >= 0
            /\ wake' = clock + tv.tv_sec * UnitsPerSecond
                             + tv.tv_usec * UnitsPerMicro
            /\ pc' = "waiting"
            /\ UNCHANGED callVars
      /\ UNCHANGED <<kernelVars, timeVars>>

SelectReadyUnasked ==                \* mutant: writefds is not looked at
  /\ pc = "waiting"
  /\ conn \in {"connected", "failed"}
  /\ ReturnOk
  /\ UNCHANGED <<kernelVars, timeVars, wake>>

(* select left the socket in writefds (connected) or in errorfds (failed). *)
SelectReady ==
  /\ pc = "waiting"
  /\ \/ conn = "connected" /\ ReturnOk
     \/ conn = "failed" /\ pc' = "take_error" /\ UNCHANGED callVars
  /\ UNCHANGED <<kernelVars, timeVars, wake>>

SelectAgain ==                       \* mutant: select is called once more
  /\ pc = "waiting"
  /\ conn = "connecting"
  /\ clock >= wake
  /\ pc' = "select"
  /\ clock' = 0
  /\ UNCHANGED <<callVars, kernelVars, lag, wake>>

SelectTimedOut ==
  /\ pc = "waiting"
  /\ conn = "connecting"
  /\ clock >= wake
  /\ Fail("TimedOut")
  /\ UNCHANGED <<kernelVars, timeVars, wake>>

SelectFailed ==
  /\ pc = "waiting"
  /\ Fail("os")
  /\ UNCHANGED <<kernelVars, timeVars, wake>>

TakeErrorIgnored ==                  \* mutant: SO_ERROR's value is not used
  /\ pc = "take_error"
  /\ Fail("os")
  /\ soError' = "none"
  /\ UNCHANGED <<conn, reached, cause, timeVars, wake>>

(* take_error when the socket is not in writefds: the pending error, Ok    *)
(* when there is none, or getsockopt's own error.                          *)
TakeError ==
  /\ pc = "take_error"
  /\ \/ /\ IF soError = "none" THEN ReturnOk ELSE Fail(soError)
        /\ soError' = "none"
     \/ /\ Fail("os")
        /\ UNCHANGED soError
  /\ UNCHANGED <<conn, reached, cause, timeVars, wake>>

Thread ==
  \/ AroundTheSelect \/ EnterSelect \/ SelectReady \/ SelectTimedOut
  \/ SelectFailed \/ TakeError

-----------------------------------------------------------------------------
(* The attempt fails, with a reason in SO_ERROR or without.  A connection  *)
(* that was established and is lost again stays writable.                  *)
Break(e) ==
  /\ open
  /\ conn = "connecting" \/ (conn = "connected" /\ e # "none")
  /\ conn' = IF conn = "connecting" THEN "failed" ELSE conn
  /\ soError' = e
  /\ cause' = e
  /\ UNCHANGED <<pc, callVars, reached, timeVars, wake>>

Returned == pc = "done" /\ UNCHANGED vars

Next == Thread \/ Establish \/ (\E e \in Reasons \cup {"none"} : Break(e)) \/ Tick
          \/ Returned

Spec == Init /\ [][Next]_vars

(* A thread that can run is run, and time does not stop while it sleeps.   *)
FairSpec == Spec /\ WF_vars(Thread) /\ WF_vars(Tick)

-----------------------------------------------------------------------------
(* Properties.                                                             *)

(* An attempt that failed without a reason: errorfds, but SO_ERROR is 0.   *)
FailedSilently == conn = "failed" /\ cause = "none"

(* Ok means that the kernel did establish the connection, although select  *)
(* returns for a refused one too.  The code asks writefds and SO_ERROR,    *)
(* and takes a socket that is in neither for a connected one.              *)
OkMeansConnected ==
  pc = "done" /\ result = "Ok" => reached \/ FailedSilently

(* SO_ERROR is cleared by reading it, so whoever has read it reports it;   *)
(* and no reason is reported but the one for which this connection failed. *)
ReasonIsReported ==
  /\ cause # "none" /\ soError = "none" => result = cause
  /\ r = "pending" /\ result \in Reasons => result = cause

(* What the call says is so: Ok leaves an open, blocking socket, connected *)
(* unless the attempt failed without a reason, an error none at all, and a *)
(* reason is the one the kernel recorded.                                  *)
OutcomeIsTrue ==
  OkMeansConnected /\ OkIsUsable /\ ErrorMeansClosed /\ ReasonIsReported

(* A timeout that fits its c_long is waited for to the microsecond: never  *)
(* a whole microsecond less, never not at all, and, beyond what the        *)
(* scheduler withheld the thread, never a whole microsecond more.  No      *)
(* timeout, however long, is waited for longer than asked.                 *)
Punctual ==
  /\ result = "TimedOut" /\ timeout.secs <= CLongMax
       => /\ clock >= UnitsPerMicro
          /\ clock > Total(timeout) - UnitsPerMicro
  /\ pc = "done" => clock < Total(timeout) + UnitsPerMicro + lag

=============================================================================
