------------------------------ MODULE EachAddr ------------------------------
(***************************************************************************)
(* BtStream::connect and BtListener::bind over a list of addresses         *)
(* (each_addr), one system call per step.  Each attempt makes a socket of  *)
(* its own; the kernel decides in parallel what becomes of a connection it *)
(* has started, and signals interrupt the blocking connect, which cvt_r    *)
(* makes again on the same socket (on unix).                               *)
(***************************************************************************)
EXTENDS Integers

CONSTANTS
  MaxAddrs,   (* bound on the length of the list                           *)
  Refusals,   (* errors of a system call or of a connection                *)
  Again,      (* the error of a second connect on a socket in use          *)
  NoAddress,  (* InvalidInput, "could not resolve to any addresses"        *)
  Platforms   (* "unix", "windows": whether SO_REUSEADDR is set            *)

ASSUME AddrsAssumption == MaxAddrs \in Nat
ASSUME PlatformsAssumption == Platforms \subseteq {"unix", "windows"}
ASSUME ErrorsAssumption == Again \notin Refusals /\ NoAddress \notin Refusals \cup {Again}

Errors == Refusals \cup {Again}
Addrs  == 1 .. MaxAddrs

VARIABLES
  op,        (* "connect" or "bind"                                        *)
  platform,
  count,     (* how many addresses the list yields                         *)
  pc,        (* the next step                                              *)
  attempt,   (* the position of the address in hand                        *)
  error,     (* last_err, with the error for None already in its place     *)
  failure,   (* the error the attempt is about to return                   *)
  link,      (* what the kernel knows of each attempt's connection         *)
  open,      (* attempts whose socket is open                              *)
  outcome,   (* what the call has returned                                 *)
  reached,   (* ghost: attempts whose connection was established           *)
  signalled, (* ghost: attempts whose connect was interrupted              *)
  failures   (* ghost: the error each attempt returned                     *)

params == <<op, platform, count>>
ghosts == <<reached, signalled, failures>>
vars == <<params, pc, attempt, error, failure, link, open, outcome, ghosts>>

ProgramPoints ==
  {"next", "socket", "connect", "waiting", "reuseaddr", "bind", "listen",
   "drop", "done"}

TypeOK ==
  /\ op \in {"connect", "bind"}
  /\ platform \in Platforms
  /\ count \in 0 .. MaxAddrs
  /\ pc \in ProgramPoints
  /\ attempt \in 1 .. MaxAddrs + 1
  /\ error \in Errors \cup {NoAddress}
  /\ failure \in Errors \cup {NoAddress}
  /\ link \in [Addrs -> {"none", "connecting", "established", "refused",
                         "bound", "listening", "closed"}]
  /\ open \in SUBSET Addrs
  /\ outcome \in {"running", "Ok", "Err"}
  /\ reached \in SUBSET Addrs
  /\ signalled \in SUBSET Addrs
  /\ failures \in [Addrs -> Errors \cup {NoAddress}]

Init ==
  /\ op \in {"connect", "bind"}
  /\ platform \in Platforms
  /\ count \in 0 .. MaxAddrs
  /\ pc = "next"
  /\ attempt = 1
  /\ error = NoAddress
  /\ failure = NoAddress
  /\ link = [a \in Addrs |-> "none"]
  /\ open = {}
  /\ outcome = "running"
  /\ reached = {}
  /\ signalled = {}
  /\ failures = [a \in Addrs |-> NoAddress]

-----------------------------------------------------------------------------
(* each_addr                                                               *)

NextAddrPastEnd ==                   \* mutant: one address too many
  /\ pc = "next"
  /\ pc' = IF attempt <= count + 1 THEN "socket" ELSE "done"
  /\ UNCHANGED <<params, attempt, error, failure, link, open, outcome, ghosts>>

(* The iterator yields the next address and f(addr) is called, or it is    *)
(* exhausted and the last error is returned.                               *)
NextAddr ==
  /\ pc = "next"
  /\ \/ /\ attempt <= count
        /\ pc' = "socket"
        /\ UNCHANGED outcome
     \/ /\ attempt > count
        /\ pc' = "done"
        /\ outcome' = "Err"
  /\ UNCHANGED <<params, attempt, error, failure, link, open, ghosts>>

FirstErrorKept(e) ==                 \* mutant: get_or_insert, not Some(e)
  /\ error' = IF error = NoAddress THEN e ELSE error
  /\ failures' = [failures EXCEPT ![attempt] = e]
  /\ attempt' = attempt + 1
  /\ pc' = "next"
  /\ UNCHANGED <<params, failure, outcome, reached, signalled>>

(* f(addr) returned Err(e).                                                *)
AttemptFailed(e) ==
  /\ error' = e
  /\ failures' = [failures EXCEPT ![attempt] = e]
  /\ attempt' = attempt + 1
  /\ pc' = "next"
  /\ UNCHANGED <<params, failure, outcome, reached, signalled>>

SucceedUndecided ==                  \* mutant: the Ok arm lacks its return
  /\ attempt' = attempt + 1
  /\ pc' = "next"
  /\ UNCHANGED <<params, error, failure, open, outcome, ghosts>>

(* f(addr) returned Ok(l).                                                 *)
Succeed ==
  /\ pc' = "done"
  /\ outcome' = "Ok"
  /\ UNCHANGED <<params, attempt, error, failure, open, ghosts>>

(* A call of the attempt failed: the ? operator drops the socket.          *)
FailWith(e) ==
  /\ pc' = "drop"
  /\ failure' = e
  /\ UNCHANGED <<params, attempt, error, open, outcome>>

DropForgotten ==                     \* mutant: the attempt's socket leaks
  /\ pc = "drop"
  /\ AttemptFailed(failure)
  /\ UNCHANGED <<link, open>>

DropSocket ==
  /\ pc = "drop"
  /\ open' = open \ {attempt}
  /\ link' = [link EXCEPT ![attempt] = "closed"]
  /\ AttemptFailed(failure)

Become(state) == link' = [link EXCEPT ![attempt] = state]

NewSocket ==
  /\ pc = "socket"
  /\ \/ /\ open' = open \cup {attempt}
        /\ pc' = CASE op = "connect" -> "connect"
                   [] op = "bind" /\ platform = "unix" -> "reuseaddr"
                   [] op = "bind" /\ platform = "windows" -> "bind"
        /\ UNCHANGED <<params, attempt, error, failure, outcome, ghosts>>
     \/ \E e \in Refusals : AttemptFailed(e) /\ UNCHANGED open
  /\ UNCHANGED link

-----------------------------------------------------------------------------
(* BtStream::connect                                                       *)

(* connect on a fresh socket starts a connection, or fails at once.        *)
FirstConnect ==
  /\ pc = "connect"
  /\ link[attempt] = "none"
  /\ \/ /\ Become("connecting")
        /\ pc' = "waiting"
        /\ UNCHANGED <<params, attempt, error, failure, open, outcome>>
     \/ \E e \in Refusals : FailWith(e) /\ UNCHANGED link
  /\ UNCHANGED ghosts

ConnectAgainAndAgain ==              \* mutant: every error is tried again
  /\ pc = "connect"
  /\ link[attempt] # "none"
  /\ pc' = IF link[attempt] = "connecting" THEN "waiting" ELSE "connect"
  /\ UNCHANGED <<params, attempt, error, failure, link, open, outcome, ghosts>>

(* connect made again by cvt_r after EINTR: a kernel may join the wait for *)
(* the connection under way, or say that the socket is in use already      *)
(* (EALREADY, EISCONN, EBADFD).                                            *)
ConnectAgain ==
  /\ pc = "connect"
  /\ link[attempt] # "none"
  /\ \/ /\ link[attempt] = "connecting"
        /\ pc' = "waiting"
        /\ UNCHANGED <<params, attempt, error, failure, open, outcome>>
     \/ FailWith(Again)
  /\ UNCHANGED <<link, ghosts>>

ConnectReturnsChecked ==             \* mutant: a later call may fail too
  /\ pc = "waiting"
  /\ link[attempt] \in {"established", "refused"}
  /\ \E e \in Refusals : FailWith(e)
  /\ UNCHANGED <<link, ghosts>>

ConnectReturns ==
  /\ pc = "waiting"
  /\ \/ link[attempt] = "established" /\ Succeed
     \/ /\ link[attempt] = "refused"
        /\ \E e \in Refusals : FailWith(e)
        /\ UNCHANGED ghosts
  /\ UNCHANGED link

(* EINTR, while the connection goes on in the kernel.  cvt_r loops on      *)
(* unix; on windows it is cvt, and the error is returned.                  *)
Interrupted ==
  /\ pc = "waiting"
  /\ link[attempt] = "connecting"
  /\ signalled' = signalled \cup {attempt}
  /\ \/ /\ platform = "unix"
        /\ pc' = "connect"
        /\ UNCHANGED <<params, attempt, error, failure, open, outcome>>
     \/ /\ platform = "windows"
        /\ \E e \in Refusals : FailWith(e)
  /\ UNCHANGED <<link, reached, failures>>

(* The kernel's answer for a connection under way (external).              *)
Resolve ==
  /\ link[attempt] = "connecting"
  /\ \/ Become("established") /\ reached' = reached \cup {attempt}
     \/ Become("refused") /\ UNCHANGED reached
  /\ UNCHANGED <<params, pc, attempt, error, failure, open, outcome,
                 signalled, failures>>

-----------------------------------------------------------------------------
(* BtListener::bind                                                        *)

BindStep(at, state, next) ==
  /\ pc = at
  /\ \/ /\ Become(state)
        /\ pc' = next
        /\ UNCHANGED <<params, attempt, error, failure, open, outcome>>
     \/ \E e \in Refusals : FailWith(e) /\ UNCHANGED link
  /\ UNCHANGED ghosts

SetReuseAddr == BindStep("reuseaddr", "none", "bind")
Bind         == BindStep("bind", "bound", "listen")

ListenUnchecked ==                   \* mutant: the result of listen is unused
  /\ pc = "listen"
  /\ Succeed
  /\ Become("listening") \/ UNCHANGED link

Listen ==
  /\ pc = "listen"
  /\ \/ Become("listening") /\ Succeed
     \/ \E e \in Refusals : FailWith(e) /\ UNCHANGED <<link, ghosts>>

-----------------------------------------------------------------------------
Thread ==
  \/ NextAddr \/ NewSocket \/ DropSocket
  \/ FirstConnect \/ ConnectAgain \/ ConnectReturns \/ Interrupted
  \/ SetReuseAddr \/ Bind \/ Listen

Kernel == attempt <= count /\ Resolve

Returned == pc = "done" /\ UNCHANGED vars

Next == Thread \/ Kernel \/ Returned

Spec == Init /\ [][Next]_vars

(* The thread runs, and the kernel answers or gives up every connection    *)
(* it has started (the page and connection timeouts of the controller).    *)
FairSpec == Spec /\ WF_vars(Thread) /\ WF_vars(Kernel)

-----------------------------------------------------------------------------
(* Properties.                                                             *)

(* The promise of the docs of connect and bind: addresses in order, one    *)
(* attempt and one socket at a time, the first success is returned, the    *)
(* error is the last attempt's or InvalidInput when there was none.        *)
Promise == INSTANCE FirstSuccess WITH sockets <- open
Implements == Promise!Spec

(* What is returned is usable: a stream whose connection the kernel        *)
(* established, or a listener that listens ("The returned listener is      *)
(* ready for accepting connections").                                      *)
OkIsUsable ==
  outcome = "Ok" =>
    /\ op = "connect" => attempt \in reached
    /\ op = "bind" => link[attempt] = "listening"

(* Peers and ports of the addresses that lost are let go: once the call    *)
(* has moved on from an address, nothing is connected, connecting, bound   *)
(* or listening there, in whichever step the attempt failed.               *)
LosersAreReleased ==
  \A a \in 1 .. attempt - 1 :
    a \notin open /\ link[a] \in {"none", "closed"}

(* The error reported is never one of an earlier address, and the answer   *)
(* "could not resolve to any addresses" means just that.                   *)
LastErrorReported ==
  outcome = "Err" =>
    /\ count = 0 <=> error = NoAddress
    /\ count > 0 => error = failures[count]

(* What remains of a call over a list is the winner, in working order, or  *)
(* the last error, and nothing of the addresses before it.                 *)
OutcomeIsTrue == OkIsUsable /\ LosersAreReleased /\ LastErrorReported

(* A connection that was established is given up only when a signal had    *)
(* interrupted connect on that very address, whose repetition then fails.  *)
AbandonedOnlyAfterSignal ==
  \A a \in reached : link[a] = "closed" => a \in signalled

(* The call returns, however often it is interrupted.                      *)
Terminates == <>(outcome # "running")

=============================================================================
