------------------------------ MODULE Winsock ------------------------------
(***************************************************************************)
(* The initialisation of winsock and the error codes of windows.  Any      *)
(* thread may make the first socket of the process; init lets one of them  *)
(* create and drop a UdpSocket of the standard library, which initialises  *)
(* winsock on the way, and the others wait for it.  The rest of the        *)
(* program may be using std::net at the same time, and any program may     *)
(* have the port of the dummy socket.                                      *)
(***************************************************************************)
EXTENDS Integers, FiniteSets

CONSTANTS
  Threads,
  Errors       (* codes WSAGetLastError can give                           *)

ASSUME ErrorsAssumption ==
  Errors # {} /\ Errors \cap {"none", "ok", "panic", "InvalidData"} = {}

VARIABLES
  once,        (* START of init                                            *)
  stdOnce,     (* the Once around WSAStartup in the standard library       *)
  started,     (* winsock is initialised                                   *)
  port,        (* who has 127.0.0.1:34254                                  *)
  pc,          (* pc[t]: the next step of thread t                         *)
  call,        (* call[t]: what it calls, or called last                   *)
  lastError,   (* lastError[t]: what WSAGetLastError would return          *)
  result,      (* result[t]: what its last call returned                   *)
  cause,       (* ghost: the error of the call that failed, in this call   *)
  dummies      (* ghost: dummy sockets asked for                           *)

onces == <<once, stdOnce, started>>
vars == <<onces, port, pc, call, lastError, result, cause, dummies>>

(* What a caller wants: a socket of the crate, its devices, or std::net.   *)
Calls == {"RFCOMM", "L2CAP", "discover", "net"}

OnceState == {"incomplete", "running", "complete", "poisoned"}

TypeOK ==
  /\ once \in OnceState
  /\ stdOnce \in OnceState
  /\ started \in BOOLEAN
  /\ port \in {"free", "dummy", "other"}
  /\ \A t \in Threads :
       /\ pc[t] \in {"idle", "once", "std once", "startup", "bind", "drop dummy",
                     "protocol", "open", "no inherit", "ask", "ask and drop",
                     "drop"}
       /\ call[t] \in Calls
       /\ lastError[t] \in Errors \cup {"none"}
       /\ result[t] \in Errors \cup {"none", "ok", "panic", "InvalidData"}
       /\ pc[t] = "drop" => result[t] \in Errors
       /\ cause[t] \in Errors \cup {"none"}
  /\ dummies \in Nat

Init ==
  /\ once = "incomplete"
  /\ stdOnce = "incomplete"
  /\ started = FALSE
  /\ port \in {"free", "other"}
  /\ pc = [t \in Threads |-> "idle"]
  /\ call = [t \in Threads |-> "net"]
  /\ lastError = [t \in Threads |-> "none"]
  /\ result = [t \in Threads |-> "none"]
  /\ cause = [t \in Threads |-> "none"]
  /\ dummies = 0

Goto(t, label) == pc' = [pc EXCEPT ![t] = label]

Return(t, value) ==
  /\ Goto(t, "idle")
  /\ result' = [result EXCEPT ![t] = value]

(* A system call fails with e.                                             *)
FailWith(t, e) ==
  /\ lastError' = [lastError EXCEPT ![t] = e]
  /\ cause' = [cause EXCEPT ![t] = e]

-----------------------------------------------------------------------------
(* init.                                                                   *)

Call(t, c) ==
  /\ pc[t] = "idle"
  /\ call' = [call EXCEPT ![t] = c]
  /\ Goto(t, IF c = "net" THEN "std once" ELSE "once")
  /\ result' = [result EXCEPT ![t] = "none"]
  /\ cause' = [cause EXCEPT ![t] = "none"]
  /\ UNCHANGED <<onces, port, lastError, dummies>>

EnterFirstFlag(t) ==                 \* mutant: a flag that is set first
  /\ pc[t] = "once" /\ once = "incomplete"
  /\ once' = "complete"
  /\ Goto(t, "std once")
  /\ UNCHANGED <<stdOnce, started, port, call, lastError, result, cause, dummies>>

EnterFirstUnmarked(t) ==             \* mutant: a flag that is set at the end
  /\ pc[t] = "once" /\ once = "incomplete"
  /\ Goto(t, "std once")
  /\ UNCHANGED <<onces, port, call, lastError, result, cause, dummies>>

EnterFirstAgain(t) ==                \* mutant: the dummy is a Socket::new
  /\ pc[t] = "once" /\ once = "incomplete"
  /\ once' = "running"
  /\ UNCHANGED <<stdOnce, started, port, pc, call, lastError, result, cause,
                 dummies>>

(* call_once: the first caller runs the closure.                           *)
EnterFirst(t) ==
  /\ pc[t] = "once" /\ once = "incomplete"
  /\ once' = "running"
  /\ Goto(t, "std once")
  /\ UNCHANGED <<stdOnce, started, port, call, lastError, result, cause, dummies>>

(* Those who come when it is done go on; those who come meanwhile wait.    *)
EnterLater(t) ==
  /\ pc[t] = "once" /\ once = "complete"
  /\ Goto(t, "protocol")
  /\ UNCHANGED <<onces, port, call, lastError, result, cause, dummies>>

(* A panic in the closure of a Once makes every later call_once panic.     *)
EnterPoisoned(t) ==
  /\ pc[t] = "once" /\ once = "poisoned"
  /\ Return(t, "panic")
  /\ UNCHANGED <<onces, port, call, lastError, cause, dummies>>

UnwindCaught(t) ==                   \* mutant: the panic is caught in init
  IF call[t] = "net" THEN Return(t, "panic") /\ UNCHANGED once
                     ELSE Goto(t, "protocol") /\ once' = "complete"
                          /\ UNCHANGED result

(* The panic of the standard library passes through init, if it was called *)
(* from there.                                                             *)
Unwind(t) ==
  /\ Return(t, "panic")
  /\ once' = IF call[t] = "net" THEN once ELSE "poisoned"

(* The standard library initialises winsock before it makes a socket, in a *)
(* Once of its own and with an assertion that WSAStartup succeeded.        *)
StdOnce(t) ==
  /\ pc[t] = "std once"
  /\ \/ /\ stdOnce = "incomplete"
        /\ stdOnce' = "running"
        /\ Goto(t, "startup")
        /\ UNCHANGED <<once, result>>
     \/ /\ stdOnce = "complete"
        /\ IF call[t] = "net" THEN Return(t, "ok")
                              ELSE Goto(t, "bind") /\ UNCHANGED result
        /\ UNCHANGED <<once, stdOnce>>
     \/ /\ stdOnce = "poisoned"
        /\ Unwind(t)
        /\ UNCHANGED stdOnce
  /\ UNCHANGED <<started, port, call, lastError, cause, dummies>>

Startup(t) ==
  /\ pc[t] = "startup"
  /\ \/ /\ started' = TRUE
        /\ stdOnce' = "complete"
        /\ IF call[t] = "net" THEN Return(t, "ok")
                              ELSE Goto(t, "bind") /\ UNCHANGED result
        /\ UNCHANGED once
     \/ /\ Unwind(t)
        /\ stdOnce' = "poisoned"
        /\ UNCHANGED started
  /\ UNCHANGED <<port, call, lastError, cause, dummies>>

(* UdpSocket::bind: the socket, or an error that init does not look at.    *)
BindDummy(t) ==
  /\ pc[t] = "bind"
  /\ dummies' = dummies + 1
  /\ \/ /\ port = "free"
        /\ port' = "dummy"
        /\ Goto(t, "drop dummy")
        /\ UNCHANGED <<once, lastError>>
     \/ /\ \E e \in Errors : lastError' = [lastError EXCEPT ![t] = e]
        /\ once' = "complete"
        /\ Goto(t, "protocol")
        /\ UNCHANGED port
  /\ UNCHANGED <<stdOnce, started, call, result, cause>>

DropDummyForgotten(t) ==             \* mutant: the dummy is not dropped
  /\ pc[t] = "drop dummy"
  /\ once' = "complete"
  /\ Goto(t, "protocol")
  /\ UNCHANGED <<stdOnce, started, port, call, lastError, result, cause, dummies>>

DropDummy(t) ==
  /\ pc[t] = "drop dummy"
  /\ port' = "free"
  /\ once' = "complete"
  /\ Goto(t, "protocol")
  /\ UNCHANGED <<stdOnce, started, call, lastError, result, cause, dummies>>

-----------------------------------------------------------------------------
(* Socket::new and discover_devices, up to their first error.              *)

ChooseProtocol(t) ==
  /\ pc[t] = "protocol"
  /\ IF call[t] = "L2CAP" THEN Return(t, "InvalidData")
                          ELSE Goto(t, "open") /\ UNCHANGED result
  /\ UNCHANGED <<onces, port, call, lastError, cause, dummies>>

(* WSASocketW, or WSALookupServiceBeginW.                                  *)
Open(t) ==
  /\ pc[t] = "open"
  /\ \/ /\ started
        /\ IF call[t] = "discover" THEN Return(t, "ok")
                                   ELSE Goto(t, "no inherit") /\ UNCHANGED result
        /\ UNCHANGED <<lastError, cause>>
     \/ /\ \E e \in Errors : FailWith(t, e)
        /\ Goto(t, "ask")
        /\ UNCHANGED result
  /\ UNCHANGED <<onces, port, call, dummies>>

SetNoInheritUnasked(t) ==            \* mutant: the error is not asked for
  /\ pc[t] = "no inherit"
  /\ \/ Return(t, "ok") /\ UNCHANGED <<lastError, cause>>
     \/ /\ \E e \in Errors : FailWith(t, e)
        /\ Goto(t, "drop")
        /\ UNCHANGED result
  /\ UNCHANGED <<onces, port, call, dummies>>

SetNoInherit(t) ==
  /\ pc[t] = "no inherit"
  /\ \/ Return(t, "ok") /\ UNCHANGED <<lastError, cause>>
     \/ /\ \E e \in Errors : FailWith(t, e)
        /\ Goto(t, "ask and drop")
        /\ UNCHANGED result
  /\ UNCHANGED <<onces, port, call, dummies>>

LastErrorLate(t) ==                  \* mutant: the socket is dropped first
  /\ pc[t] \in {"ask", "ask and drop"}
  /\ \/ /\ pc[t] = "ask"
        /\ Return(t, lastError[t])
        /\ UNCHANGED lastError
     \/ /\ pc[t] = "ask and drop"
        /\ Goto(t, "ask")
        /\ \E e \in Errors : lastError' = [lastError EXCEPT ![t] = e]
        /\ UNCHANGED result
  /\ UNCHANGED <<onces, port, call, cause, dummies>>

(* The code of the call that failed is fetched from the thread's last      *)
(* error.                                                                  *)
LastError(t) ==
  /\ pc[t] \in {"ask", "ask and drop"}
  /\ IF pc[t] = "ask" THEN Return(t, lastError[t])
     ELSE /\ Goto(t, "drop")
          /\ result' = [result EXCEPT ![t] = lastError[t]]
  /\ UNCHANGED <<onces, port, call, lastError, cause, dummies>>

(* Drop for Socket: closesocket may fail as well.                          *)
DropSocket(t) ==
  /\ pc[t] = "drop"
  /\ lastError' \in {lastError} \cup {[lastError EXCEPT ![t] = e] : e \in Errors}
  /\ Goto(t, "idle")
  /\ UNCHANGED <<onces, port, call, result, cause, dummies>>

-----------------------------------------------------------------------------
(* Somebody else takes the port, or leaves it.                             *)
OtherPort ==
  /\ \/ port = "free" /\ port' = "other"
     \/ port = "other" /\ port' = "free"
  /\ UNCHANGED <<onces, pc, call, lastError, result, cause, dummies>>

Step(t) ==
  \/ EnterFirst(t) \/ EnterLater(t) \/ EnterPoisoned(t) \/ StdOnce(t)
  \/ Startup(t) \/ BindDummy(t) \/ DropDummy(t) \/ ChooseProtocol(t)
  \/ Open(t) \/ SetNoInherit(t) \/ LastError(t) \/ DropSocket(t)

Next ==
  \/ \E t \in Threads : Step(t) \/ \E c \in Calls : Call(t, c)
  \/ OtherPort

Spec == Init /\ [][Next]_vars

(* A thread that can run is run.                                           *)
FairSpec == Spec /\ \A t \in Threads : WF_vars(Step(t))

-----------------------------------------------------------------------------
(* Properties.                                                             *)

(* "libstd will be sure to have initialized winsock" (the comment in       *)
(* init): no thread gets past init, whether it ran the closure, waited for *)
(* it or came later, whether the dummy was bound or not, unless WSAStartup *)
(* has succeeded.                                                          *)
PastInitIsStarted ==
  \A t \in Threads :
    pc[t] \in {"protocol", "open", "no inherit", "ask", "ask and drop", "drop"}
      => started

(* "We drop the result": whoever gets past init finds the port of the      *)
(* dummy free of it, and from then on the process never has it again.      *)
DummyIsGone ==
  port = "dummy" =>
    once = "running" /\ \A t \in Threads : pc[t] # "protocol"

(* However many threads make their first socket at the same time, there is *)
(* one dummy socket in the life of the process.                            *)
OneDummy == dummies <= 1

(* Past init, everything init is for is done, and done once.               *)
InitIsDone == PastInitIsStarted /\ DummyIsGone /\ OneDummy

(* "Returns the last error from the Windows socket interface", which must  *)
(* be fetched "before another call to the socket API is made": the error   *)
(* returned is that of the call that failed, not one left by the dummy     *)
(* socket, by an earlier call or by the drop of the socket.                *)
ErrorIsOwn ==
  \A t \in Threads :
    pc[t] = "idle" /\ result[t] \in Errors => result[t] = cause[t]

(* Every call returns or panics: waiting for the Once ends, and those two  *)
(* around each other do not block each other.                              *)
CallsReturn == \A t \in Threads : pc[t] # "idle" ~> pc[t] = "idle"

=============================================================================
