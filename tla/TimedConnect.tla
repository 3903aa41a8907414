---------------------------- MODULE TimedConnect ----------------------------
(***************************************************************************)
(* What the two implementations of Socket::connect_timeout have in common: *)
(* BtStream::connect_timeout creates the socket and drops it on an error;  *)
(* the connection is started in nonblocking mode, and the socket is made   *)
(* blocking again before the thread waits.  ConnectTimeout adds the poll   *)
(* loop of unix, WinConnectTimeout the select of windows.                  *)
(*                                                                         *)
(* Time is counted in clock units from the moment the waiting begins.  A   *)
(* tick during which the thread could have run is scheduling delay; the    *)
(* ghost lag adds those up, at most MaxLag in a behaviour.                 *)
(***************************************************************************)
EXTENDS Integers

CONSTANTS
  Timeouts,    (* durations a caller may pass                              *)
  Reasons,     (* errors the kernel records when a connection fails        *)
  MaxLag       (* bound on the total scheduling delay                      *)

ASSUME LagAssumption == MaxLag \in Nat
ASSUME ReasonsAssumption ==
  Reasons \cap {"none", "pending", "Ok", "InvalidInput", "InvalidData",
                "TimedOut", "Other", "os"} = {}

VARIABLES
  pc,        (* the next step of the call                                  *)
  timeout,   (* its argument                                               *)
  open,      (* the socket exists and has not been dropped                 *)
  nonblock,  (* its FIONBIO flag                                           *)
  conn,      (* what the kernel knows about the connection                 *)
  soError,   (* SO_ERROR: the pending error, cleared by take_error         *)
  r,         (* what connect returned; "pending" is EINPROGRESS on unix    *)
             (* and WSAEWOULDBLOCK on windows                              *)
  result,    (* what the call returns                                      *)
  clock,     (* time since the waiting began                               *)
  wake,      (* when the running poll or select times out                  *)
  lag,       (* ghost: scheduling delay so far                             *)
  reached,   (* ghost: the connection was established at some moment       *)
  cause      (* ghost: why the connection failed                           *)

callVars   == <<timeout, open, nonblock, r, result>>
kernelVars == <<conn, soError, reached, cause>>
timeVars   == <<clock, lag>>
socketVars == <<pc, callVars, kernelVars, timeVars, wake>>

SocketTypeOK ==
  /\ pc \in {"new", "nonblocking", "connect", "blocking", "match", "elapsed",
             "poll", "select", "waiting", "take_error", "drop", "done"}
  /\ timeout \in Timeouts
  /\ open \in BOOLEAN
  /\ nonblock \in BOOLEAN
  /\ conn \in {"unconnected", "connecting", "connected", "failed"}
  /\ soError \in Reasons \cup {"none"}
  /\ r \in {"none", "Ok", "pending"} \cup Reasons
  /\ result \in {"none", "Ok", "InvalidInput", "InvalidData", "TimedOut",
                 "Other", "os"} \cup Reasons
  /\ clock \in Nat
  /\ lag \in 0 .. MaxLag
  /\ reached \in BOOLEAN
  /\ cause \in Reasons \cup {"none"}

SocketInit ==
  /\ pc = "new"
  /\ timeout \in Timeouts
  /\ open = FALSE
  /\ nonblock = FALSE
  /\ conn = "unconnected"
  /\ soError = "none"
  /\ r = "none"
  /\ result = "none"
  /\ clock = 0
  /\ wake = 0
  /\ lag = 0
  /\ reached = FALSE
  /\ cause = "none"

-----------------------------------------------------------------------------
(* Returning from Socket::connect_timeout: an error drops the socket in    *)
(* BtStream::connect_timeout, success moves it into the stream.            *)

ReturnOk ==
  /\ pc' = "done"
  /\ result' = "Ok"
  /\ UNCHANGED <<timeout, open, nonblock, r>>

FailLeaking(e) ==                    \* mutant: the socket is forgotten
  /\ pc' = "done"
  /\ result' = e
  /\ UNCHANGED <<timeout, open, nonblock, r>>

Fail(e) ==
  /\ pc' = "drop"
  /\ result' = e
  /\ UNCHANGED <<timeout, open, nonblock, r>>

(* Socket::new makes the socket or fails with one of the given errors.     *)
NewSocket(errors) ==
  /\ pc = "new"
  /\ \/ /\ open' = TRUE
        /\ pc' = "nonblocking"
        /\ UNCHANGED result
     \/ /\ pc' = "done"
        /\ result' \in errors
        /\ UNCHANGED open
  /\ UNCHANGED <<timeout, nonblock, r, kernelVars, timeVars, wake>>

(* set_nonblocking(true) and, at once after connect, set_nonblocking(false).*)
SetNonblocking(at, value, next) ==
  /\ pc = at
  /\ \/ /\ nonblock' = value
        /\ pc' = next
        /\ UNCHANGED <<timeout, open, r, result>>
     \/ Fail("os")
  /\ UNCHANGED <<kernelVars, timeVars, wake>>

(* connect on a nonblocking socket: established at once, under way, or     *)
(* failed at once; the result is looked at later.                          *)
Connect ==
  /\ pc = "connect"
  /\ \/ r' = "Ok"      /\ conn' = "connected"  /\ reached' = TRUE
     \/ r' = "pending" /\ conn' = "connecting" /\ UNCHANGED reached
     \/ r' \in Reasons /\ UNCHANGED <<conn, reached>>
  /\ pc' = "blocking"
  /\ UNCHANGED <<timeout, open, nonblock, result, soError, cause, timeVars,
                 wake>>

(* match r and, only then, the check for a zero duration.                  *)
MatchResult(isZero, next) ==
  /\ pc = "match"
  /\ \/ r = "Ok" /\ ReturnOk
     \/ r \in Reasons /\ Fail(r)
     \/ r = "pending" /\ isZero /\ Fail("InvalidInput")
     \/ r = "pending" /\ ~isZero /\ pc' = next /\ UNCHANGED callVars
  /\ UNCHANGED <<kernelVars, timeVars, wake>>

DropSocket ==
  /\ pc = "drop"
  /\ open' = FALSE
  /\ conn' = "unconnected"
  /\ pc' = "done"
  /\ UNCHANGED <<timeout, nonblock, r, result, soError, reached, cause,
                 timeVars, wake>>

-----------------------------------------------------------------------------
(* The peer and the clock.                                                 *)

Establish ==
  /\ conn = "connecting"
  /\ conn' = "connected"
  /\ reached' = TRUE
  /\ UNCHANGED <<pc, callVars, soError, cause, timeVars, wake>>

(* Time passes while the thread sleeps, and, up to MaxLag, while it could  *)
(* run.                                                                    *)
Asleep == pc = "waiting" /\ conn = "connecting" /\ clock < wake

Tick ==
  /\ r = "pending" /\ result # "InvalidInput"
  /\ pc \in {"elapsed", "poll", "select", "waiting", "take_error", "drop"}
  /\ \/ Asleep /\ UNCHANGED lag
     \/ ~Asleep /\ lag < MaxLag /\ lag' = lag + 1
  /\ clock' = clock + 1
  /\ UNCHANGED <<pc, callVars, kernelVars, wake>>

-----------------------------------------------------------------------------
(* Properties of both implementations.                                     *)

(* The stream the caller gets is open and blocking, whatever path led to   *)
(* the return.                                                             *)
OkIsUsable == pc = "done" /\ result = "Ok" => open /\ ~nonblock

(* An error leaves no socket behind, in whichever step it came up: the     *)
(* socket is dropped by BtStream::connect_timeout.                         *)
ErrorMeansClosed ==
  pc = "done" /\ result # "Ok" => ~open /\ conn = "unconnected"

(* The call returns even when the peer never answers and, on unix, signals *)
(* interrupt every poll.                                                   *)
Terminates == <>(pc = "done")

-----------------------------------------------------------------------------
(* The invariant both implementations keep.                                *)

(* Places before the result is decided, after the socket is blocking again *)
(* and after the connection has been found to be under way.                *)
Deciding == {"new", "nonblocking", "connect", "blocking", "match", "elapsed",
             "poll", "select", "waiting", "take_error"}
Blocking == {"match", "elapsed", "poll", "select", "waiting", "take_error"}
Pending  == {"elapsed", "poll", "select", "waiting", "take_error"}

(* The kernel has nothing more to say about the connection.                *)
Settled == ~open \/ conn = "failed"

CallShape ==
  /\ pc = "new" => ~open
  /\ pc \notin {"new", "done"} => open
  /\ pc \in Deciding => result = "none"
  /\ pc = "drop" => result \notin {"none", "Ok"}
  /\ pc = "done" => result # "none"
  /\ pc = "done" /\ result = "Ok" => open /\ ~nonblock
  /\ pc = "done" /\ result # "Ok" => ~open
  /\ pc \in Blocking => ~nonblock
  /\ pc \in Pending => r = "pending"

ConnShape ==
  /\ ~open => conn = "unconnected"
  /\ conn = "connected" \/ r = "Ok" => reached
  /\ pc = "take_error" => conn = "failed"
  /\ conn = "failed" /\ pc \in Deciding => soError = cause
  /\ r = "pending" /\ result \in Reasons => result = cause /\ Settled

(* The place of the thread determines its socket, its result and what is   *)
(* known of the connection.                                                *)
Shape == SocketTypeOK /\ CallShape /\ ConnShape

=============================================================================
