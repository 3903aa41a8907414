--------------------------- MODULE EachAddrProofs ---------------------------
(***************************************************************************)
(* Proofs about EachAddr, for lists of any length and any set of errors:   *)
(* its invariants, and that it implements FirstSuccess.                    *)
(***************************************************************************)
EXTENDS EachAddr, TLAPS

(* The socket of the attempt is the only one, and which calls belong to    *)
(* which operation.                                                        *)
CallShape ==
  /\ attempt <= count + 1
  /\ pc # "next" /\ outcome # "Err" => attempt <= count
  /\ pc = "done" <=> outcome # "running"
  /\ outcome = "Err" => attempt = count + 1
  /\ open = IF pc \in {"next", "socket"} \/ outcome = "Err"
            THEN {} ELSE {attempt}
  /\ pc \in {"connect", "waiting"} => op = "connect"
  /\ pc \in {"reuseaddr", "bind", "listen"} => op = "bind"
  /\ pc = "drop" => failure \in Errors

(* The kernel knows nothing of addresses not attempted yet, and connects   *)
(* only what connect has started.                                          *)
LinkShape ==
  /\ \A a \in Addrs : a > attempt => link[a] = "none"
  /\ pc \in {"next", "socket"} =>
       \A a \in Addrs : a >= attempt => link[a] = "none"
  /\ op = "bind" => reached = {}
  /\ op = "bind" =>
       \A a \in Addrs : link[a] \notin {"connecting", "established"}
  /\ \A a \in Addrs : link[a] = "established" => a \in reached
  /\ \A a \in reached : link[a] \in {"established", "closed"}
  /\ pc = "waiting" =>
       link[attempt] \in {"connecting", "established", "refused"}
  /\ outcome = "Ok" /\ op = "connect" => link[attempt] = "established"

(* last_err holds the error of the attempt before.                         *)
ErrorShape ==
  /\ error = IF attempt = 1 THEN NoAddress ELSE failures[attempt - 1]
  /\ \A a \in 1 .. attempt - 1 : failures[a] \in Errors

(* An attempt whose connection is not settled when it fails, or that calls *)
(* connect again, was interrupted.                                         *)
SignalShape ==
  attempt \in Addrs =>
    /\ pc = "connect" /\ link[attempt] # "none" => attempt \in signalled
    /\ pc = "drop" /\ link[attempt] \in {"connecting", "established"}
         => attempt \in signalled

(* The inductive invariant: the properties and what they need.             *)
IInv ==
  /\ TypeOK
  /\ CallShape
  /\ LinkShape
  /\ ErrorShape
  /\ SignalShape
  /\ OkIsUsable
  /\ LosersAreReleased
  /\ LastErrorReported
  /\ AbandonedOnlyAfterSignal

-----------------------------------------------------------------------------
(* The iterator yields the next address, or is exhausted: the error        *)
(* returned is the last attempt's.                                         *)
LEMMA NextAddrKeeps ==
  ASSUME IInv, NextAddr
  PROVE  IInv'
  <1> USE DEF IInv, NextAddr, params, ghosts
  <1>1. LinkShape' /\ ErrorShape' /\ SignalShape' /\ OkIsUsable' /\
       LosersAreReleased' /\ AbandonedOnlyAfterSignal'
    BY DEF LinkShape, ErrorShape, SignalShape, OkIsUsable, LosersAreReleased,
           AbandonedOnlyAfterSignal
  <1>2. TypeOK'
    BY DEF TypeOK, ProgramPoints
  <1>3. CallShape'
    BY DEF CallShape, TypeOK
  <1>4. LastErrorReported'
    BY ErrorsAssumption DEF TypeOK, CallShape, ErrorShape, LastErrorReported,
       Errors
  <1>5. QED
    BY <1>1, <1>2, <1>3, <1>4

(* A socket is made for the attempt, or the attempt fails without one.     *)
LEMMA NewSocketKeeps ==
  ASSUME IInv, NewSocket
  PROVE  IInv'
  <1> USE DEF IInv, NewSocket, AttemptFailed, params, ghosts
  <1>1. AbandonedOnlyAfterSignal'
    BY DEF AbandonedOnlyAfterSignal
  <1>2. TypeOK'
    BY AddrsAssumption, PlatformsAssumption DEF TypeOK, CallShape,
       LosersAreReleased, ProgramPoints, Errors, Addrs
  <1>3. CallShape'
    BY PlatformsAssumption DEF TypeOK, CallShape
  <1>4. LinkShape'
    BY PlatformsAssumption DEF TypeOK, CallShape, LinkShape, Addrs
  <1>5. ErrorShape'
    <2>1. attempt \in Addrs
      BY AddrsAssumption DEF TypeOK, CallShape, Addrs
    <2>2. CASE UNCHANGED <<attempt, error, failures>>
      BY <2>2 DEF ErrorShape
    <2>3. CASE \E e \in Refusals : AttemptFailed(e)
      BY <2>1, <2>3 DEF ErrorShape, TypeOK, Errors, Addrs
    <2>4. QED
      BY <2>2, <2>3
  <1>6. SignalShape'
    BY DEF SignalShape, TypeOK, LinkShape
  <1>7. OkIsUsable'
    BY DEF OkIsUsable, CallShape
  <1>8. LosersAreReleased'
    BY AddrsAssumption DEF LosersAreReleased, TypeOK, CallShape, LinkShape,
       Addrs
  <1>9. LastErrorReported'
    BY DEF LastErrorReported, CallShape
  <1>10. QED
    BY <1>1, <1>2, <1>3, <1>4, <1>5, <1>6, <1>7, <1>8, <1>9

(* The error path of an attempt closes its socket, the only one open.      *)
LEMMA DropSocketKeeps ==
  ASSUME IInv, DropSocket
  PROVE  IInv'
  <1> USE DEF IInv, DropSocket, AttemptFailed, params, ghosts
  <1>1. SignalShape'
    BY DEF SignalShape
  <1>2. TypeOK'
    BY AddrsAssumption DEF TypeOK, CallShape, ProgramPoints
  <1>3. CallShape'
    BY DEF CallShape, TypeOK
  <1>4. LinkShape'
    BY DEF LinkShape, TypeOK, CallShape, Addrs
  <1>5. ErrorShape'
    BY DEF ErrorShape, TypeOK, CallShape
  <1>6. OkIsUsable'
    BY DEF OkIsUsable, CallShape
  <1>7. LosersAreReleased'
    BY DEF LosersAreReleased, TypeOK, CallShape
  <1>8. LastErrorReported'
    BY DEF LastErrorReported, CallShape
  <1>9. AbandonedOnlyAfterSignal'
    BY DEF AbandonedOnlyAfterSignal, TypeOK, LinkShape, SignalShape
  <1>10. QED
    BY <1>1, <1>2, <1>3, <1>4, <1>5, <1>6, <1>7, <1>8, <1>9

(* connect on a fresh socket: the connection is this attempt's.            *)
LEMMA FirstConnectKeeps ==
  ASSUME IInv, FirstConnect
  PROVE  IInv'
  <1> USE DEF IInv, FirstConnect, Become, FailWith, params, ghosts
  <1>1. ErrorShape' /\ SignalShape' /\ OkIsUsable' /\ LastErrorReported'
    BY DEF ErrorShape, SignalShape, OkIsUsable, LastErrorReported
  <1>2. TypeOK'
    BY DEF TypeOK, ProgramPoints, Errors
  <1>3. CallShape'
    BY DEF CallShape, Errors
  <1>4. LinkShape'
    BY AddrsAssumption DEF LinkShape, TypeOK, CallShape
  <1>5. LosersAreReleased'
    BY AddrsAssumption DEF LosersAreReleased, TypeOK, Addrs
  <1>6. AbandonedOnlyAfterSignal'
    BY DEF AbandonedOnlyAfterSignal, TypeOK
  <1>7. QED
    BY <1>1, <1>2, <1>3, <1>4, <1>5, <1>6

(* connect repeated after a signal: signalled holds the attempt.           *)
LEMMA ConnectAgainKeeps ==
  ASSUME IInv, ConnectAgain
  PROVE  IInv'
  <1> USE DEF IInv, ConnectAgain, FailWith, params, ghosts
  <1>1. LinkShape' /\ ErrorShape' /\ SignalShape' /\ OkIsUsable' /\
       LosersAreReleased' /\ LastErrorReported' /\ AbandonedOnlyAfterSignal'
    BY DEF LinkShape, ErrorShape, SignalShape, OkIsUsable, LosersAreReleased,
           LastErrorReported, AbandonedOnlyAfterSignal
  <1>2. TypeOK'
    BY DEF TypeOK, ProgramPoints, Errors
  <1>3. CallShape'
    BY DEF CallShape, Errors
  <1>4. QED
    BY <1>1, <1>2, <1>3

(* connect returns what became of the connection.                          *)
LEMMA ConnectReturnsKeeps ==
  ASSUME IInv, ConnectReturns
  PROVE  IInv'
  <1> USE DEF IInv, ConnectReturns, Succeed, FailWith, params, ghosts
  <1>1. LinkShape' /\ ErrorShape' /\ SignalShape' /\ LosersAreReleased' /\
       LastErrorReported' /\ AbandonedOnlyAfterSignal'
    BY DEF LinkShape, ErrorShape, SignalShape, LosersAreReleased,
           LastErrorReported, AbandonedOnlyAfterSignal
  <1>2. TypeOK'
    BY DEF TypeOK, ProgramPoints, Errors
  <1>3. CallShape'
    BY DEF CallShape, Errors
  <1>4. OkIsUsable'
    BY DEF OkIsUsable, TypeOK, CallShape, LinkShape
  <1>5. QED
    BY <1>1, <1>2, <1>3, <1>4

(* A signal interrupts connect and is recorded.                            *)
LEMMA InterruptedKeeps ==
  ASSUME IInv, Interrupted
  PROVE  IInv'
  <1> USE DEF IInv, Interrupted, FailWith, params, ghosts
  <1>1. LinkShape' /\ ErrorShape' /\ SignalShape' /\ OkIsUsable' /\
       LosersAreReleased' /\ LastErrorReported' /\ AbandonedOnlyAfterSignal'
    BY DEF LinkShape, ErrorShape, SignalShape, OkIsUsable, LosersAreReleased,
           LastErrorReported, AbandonedOnlyAfterSignal
  <1>2. TypeOK'
    BY DEF TypeOK, CallShape, ProgramPoints, Errors
  <1>3. CallShape'
    BY DEF CallShape, Errors
  <1>4. QED
    BY <1>1, <1>2, <1>3

(* SO_REUSEADDR is set on a socket that is in no other state yet.          *)
LEMMA SetReuseAddrKeeps ==
  ASSUME IInv, SetReuseAddr
  PROVE  IInv'
  <1> USE DEF IInv, SetReuseAddr, BindStep, Become, FailWith, params, ghosts
  <1>1. ErrorShape' /\ LastErrorReported'
    BY DEF ErrorShape, LastErrorReported
  <1>2. TypeOK'
    BY DEF TypeOK, ProgramPoints, Errors
  <1>3. CallShape'
    BY DEF CallShape, Errors
  <1>4. LinkShape'
    <2>1. /\ attempt \in Addrs /\ op = "bind" /\ reached = {}
          /\ link \in [Addrs -> {"none", "connecting", "established",
                                "refused", "bound", "listening", "closed"}]
      BY AddrsAssumption DEF CallShape, LinkShape, TypeOK, Addrs
    <2>2. QED
      BY <2>1, AddrsAssumption DEF LinkShape, CallShape, TypeOK, Addrs
  <1>5. SignalShape'
    BY DEF SignalShape, CallShape, LinkShape
  <1>6. OkIsUsable'
    BY DEF OkIsUsable, CallShape
  <1>7. LosersAreReleased'
    BY AddrsAssumption DEF LosersAreReleased, TypeOK, Addrs
  <1>8. AbandonedOnlyAfterSignal'
    BY DEF AbandonedOnlyAfterSignal, TypeOK
  <1>9. QED
    BY <1>1, <1>2, <1>3, <1>4, <1>5, <1>6, <1>7, <1>8

(* bind makes the socket bound, and no connection.                         *)
LEMMA BindKeeps ==
  ASSUME IInv, Bind
  PROVE  IInv'
  <1> USE DEF IInv, Bind, BindStep, Become, FailWith, params, ghosts
  <1>1. ErrorShape' /\ LastErrorReported'
    BY DEF ErrorShape, LastErrorReported
  <1>2. TypeOK'
    BY DEF TypeOK, ProgramPoints, Errors
  <1>3. CallShape'
    BY DEF CallShape, Errors
  <1>4. LinkShape'
    <2>1. /\ attempt \in Addrs /\ op = "bind" /\ reached = {}
          /\ link \in [Addrs -> {"none", "connecting", "established",
                                "refused", "bound", "listening", "closed"}]
      BY AddrsAssumption DEF CallShape, LinkShape, TypeOK, Addrs
    <2>2. QED
      BY <2>1, AddrsAssumption DEF LinkShape, CallShape, TypeOK, Addrs
  <1>5. SignalShape'
    BY DEF SignalShape, CallShape, LinkShape
  <1>6. OkIsUsable'
    BY DEF OkIsUsable, CallShape
  <1>7. LosersAreReleased'
    BY AddrsAssumption DEF LosersAreReleased, TypeOK, Addrs
  <1>8. AbandonedOnlyAfterSignal'
    BY DEF AbandonedOnlyAfterSignal, TypeOK
  <1>9. QED
    BY <1>1, <1>2, <1>3, <1>4, <1>5, <1>6, <1>7, <1>8

(* listen decides the attempt.                                             *)
LEMMA ListenKeeps ==
  ASSUME IInv, Listen
  PROVE  IInv'
  <1> USE DEF IInv, Listen, Become, Succeed, FailWith, params, ghosts
  <1>1. ErrorShape' /\ LastErrorReported'
    BY DEF ErrorShape, LastErrorReported
  <1>2. TypeOK'
    BY DEF TypeOK, ProgramPoints, Errors
  <1>3. CallShape'
    BY DEF CallShape, Errors
  <1>4. LinkShape'
    <2>1. /\ attempt \in Addrs /\ op = "bind" /\ reached = {}
          /\ link \in [Addrs -> {"none", "connecting", "established",
                                "refused", "bound", "listening", "closed"}]
      BY AddrsAssumption DEF CallShape, LinkShape, TypeOK, Addrs
    <2>2. QED
      BY <2>1, AddrsAssumption DEF LinkShape, CallShape, TypeOK, Addrs
  <1>5. SignalShape'
    BY DEF SignalShape, CallShape, LinkShape
  <1>6. OkIsUsable'
    BY DEF OkIsUsable, TypeOK, CallShape
  <1>7. LosersAreReleased'
    BY AddrsAssumption DEF LosersAreReleased, TypeOK, Addrs
  <1>8. AbandonedOnlyAfterSignal'
    BY DEF AbandonedOnlyAfterSignal, TypeOK
  <1>9. QED
    BY <1>1, <1>2, <1>3, <1>4, <1>5, <1>6, <1>7, <1>8

(* The kernel settles the connection of the attempt in hand, and no other. *)
LEMMA KernelKeeps ==
  ASSUME IInv, Kernel
  PROVE  IInv'
  <1> USE DEF IInv, Kernel, Resolve, Become, params, ghosts
  <1>1. CallShape' /\ ErrorShape' /\ SignalShape' /\ OkIsUsable' /\
       LastErrorReported'
    BY DEF CallShape, ErrorShape, SignalShape, OkIsUsable, LastErrorReported
  <1>2. TypeOK'
    <2>1. attempt \in Addrs
      BY AddrsAssumption DEF TypeOK, Addrs
    <2>2. link' \in [Addrs -> {"none", "connecting", "established", "refused",
                            "bound", "listening", "closed"}]
      BY <2>1 DEF TypeOK
    <2>3. reached' \in SUBSET Addrs
      BY <2>1 DEF TypeOK
    <2>4. QED
      BY <2>2, <2>3 DEF TypeOK
  <1>3. LinkShape'
    <2>1. attempt \in Addrs /\ pc \notin {"next", "socket"} /\ op # "bind"
      BY AddrsAssumption DEF LinkShape, TypeOK, Addrs
    <2>2. CASE Become("established") /\ reached' = reached \cup {attempt}
      BY <2>1, <2>2 DEF LinkShape, TypeOK, Addrs
    <2>3. CASE Become("refused") /\ UNCHANGED reached
      BY <2>1, <2>3 DEF LinkShape, TypeOK, Addrs
    <2>4. QED
      BY <2>2, <2>3
  <1>4. LosersAreReleased'
    BY AddrsAssumption DEF LosersAreReleased, TypeOK, Addrs
  <1>5. AbandonedOnlyAfterSignal'
    BY DEF AbandonedOnlyAfterSignal, TypeOK
  <1>6. QED
    BY <1>1, <1>2, <1>3, <1>4, <1>5

(* A step that changes nothing.                                            *)
LEMMA StutterKeeps ==
  ASSUME IInv, UNCHANGED vars
  PROVE  IInv'
  <1> USE DEF IInv, vars, params, ghosts
  <1>1. TypeOK' /\ CallShape' /\ LinkShape' /\ ErrorShape' /\ SignalShape' /\
       OkIsUsable' /\ LosersAreReleased' /\ LastErrorReported' /\
       AbandonedOnlyAfterSignal'
    BY DEF TypeOK, CallShape, LinkShape, ErrorShape, SignalShape, OkIsUsable,
           LosersAreReleased, LastErrorReported, AbandonedOnlyAfterSignal
  <1>2. QED
    BY <1>1

(* The call starts with no socket, no connection and no failed attempt.    *)
LEMMA Initially == Init => IInv
  BY AddrsAssumption, ErrorsAssumption
     DEF Init, IInv, TypeOK, CallShape, LinkShape, ErrorShape, SignalShape,
         OkIsUsable, LosersAreReleased, LastErrorReported,
         AbandonedOnlyAfterSignal, ProgramPoints, Errors, Addrs

(* Every step of the thread and of the kernel preserves the invariant.     *)
LEMMA Inductive == IInv /\ [Next]_vars => IInv'
  <1> SUFFICES ASSUME IInv, [Next]_vars
               PROVE  IInv'
    OBVIOUS
  <1>1. CASE Thread
    BY <1>1, NextAddrKeeps, NewSocketKeeps, DropSocketKeeps,
       FirstConnectKeeps, ConnectAgainKeeps, ConnectReturnsKeeps,
       InterruptedKeeps, SetReuseAddrKeeps, BindKeeps, ListenKeeps
       DEF Thread
  <1>2. CASE Kernel
    BY <1>2, KernelKeeps
  <1>3. CASE Returned
    BY <1>3, StutterKeeps DEF Returned
  <1>4. CASE UNCHANGED vars
    BY <1>4, StutterKeeps
  <1>5. QED
    BY <1>1, <1>2, <1>3, <1>4 DEF Next

(* The invariant holds in every state the call goes through.               *)
THEOREM Invariance == Spec => []IInv
  BY Initially, Inductive, PTL DEF Spec

(* Every variable keeps its type, for lists of any length: in particular the *)
(* error in last_err is one of a system call or InvalidInput.              *)
THEOREM TypeCorrect == Spec => []TypeOK
  <1>1. IInv => TypeOK
    BY DEF IInv
  <1>2. QED
    BY <1>1, Invariance, PTL

(* A stream that connect returns was connected by the kernel, and a listener *)
(* that bind returns listens, whichever attempt it was.                    *)
THEOREM UsableResult == Spec => []OkIsUsable
  <1>1. IInv => OkIsUsable
    BY DEF IInv
  <1>2. QED
    BY <1>1, Invariance, PTL

(* Whichever step of an attempt fails, each_addr goes on only after what the *)
(* attempt had in the kernel is gone.                                      *)
THEOREM LosersLetGo == Spec => []LosersAreReleased
  <1>1. IInv => LosersAreReleased
    BY DEF IInv
  <1>2. QED
    BY <1>1, Invariance, PTL

(* When every address has failed, each_addr returns the error of the last. *)
THEOREM LastErrorWins == Spec => []LastErrorReported
  <1>1. IInv => LastErrorReported
    BY DEF IInv
  <1>2. QED
    BY <1>1, Invariance, PTL

(* For lists of any length, the winner works or the last error is told,    *)
(* and nothing remains of the others.                                      *)
THEOREM OutcomeHolds == Spec => []OutcomeIsTrue
  <1>1. OkIsUsable /\ LosersAreReleased /\ LastErrorReported => OutcomeIsTrue
    BY DEF OutcomeIsTrue
  <1>2. QED
    BY <1>1, UsableResult, LosersLetGo, LastErrorWins, PTL

(* Only cvt_r repeating connect after a signal can make connect give up a  *)
(* connection that the kernel had established.                             *)
THEOREM AbandonedBySignal == Spec => []AbandonedOnlyAfterSignal
  <1>1. IInv => AbandonedOnlyAfterSignal
    BY DEF IInv
  <1>2. QED
    BY <1>1, Invariance, PTL

-----------------------------------------------------------------------------
(* Refinement of FirstSuccess.                                             *)

(* A new socket begins the attempt, or the attempt has failed at once.     *)
LEMMA NewSocketImplements ==
  ASSUME IInv, NewSocket
  PROVE  Promise!Next
  <1>1. outcome = "running" /\ attempt <= count /\ open = {}
    BY DEF IInv, CallShape, NewSocket
  <1>2. CASE open' = open \cup {attempt}
             /\ UNCHANGED <<params, attempt, error, failure, outcome, ghosts>>
    BY <1>1, <1>2 DEF Promise!Next, Promise!Working, params
  <1>3. CASE \E e \in Refusals : AttemptFailed(e) /\ UNCHANGED open
    <2>1. PICK e \in Refusals : AttemptFailed(e) /\ UNCHANGED open
      BY <1>3
    <2>2. Promise!FailWith(e)
      BY <1>1, <2>1 DEF Promise!FailWith, AttemptFailed, params
    <2>3. QED
      BY <2>2 DEF Promise!Next, Errors
  <1>4. QED
    BY <1>2, <1>3 DEF NewSocket

(* Dropping the socket is what makes an attempt fail, with the error that ? *)
(* carries.                                                                *)
LEMMA DropSocketImplements ==
  ASSUME IInv, DropSocket
  PROVE  Promise!Next
  <1>1. /\ outcome = "running" /\ attempt <= count /\ open = {attempt}
        /\ failure \in Errors
    BY DEF IInv, CallShape, DropSocket
  <1>2. Promise!FailWith(failure)
    BY <1>1 DEF Promise!FailWith, DropSocket, AttemptFailed, params
  <1>3. QED
    BY <1>1, <1>2 DEF Promise!Next

(* The closure returned Ok: the call succeeds with the attempt's socket.   *)
LEMMA SucceedImplements ==
  ASSUME IInv, pc \in {"waiting", "listen"}, Succeed
  PROVE  Promise!Next
  <1>1. outcome = "running" /\ attempt <= count /\ open = {attempt}
    BY DEF IInv, CallShape
  <1>2. QED
    BY <1>1 DEF Promise!Next, Promise!Succeed, Succeed, params

(* The list is exhausted, or the next attempt is about to begin.           *)
LEMMA NextAddrImplements ==
  ASSUME IInv, NextAddr
  PROVE  Promise!Next \/ UNCHANGED Promise!vars
  <1>1. outcome = "running"
    BY DEF IInv, CallShape, NextAddr
  <1>2. QED
    BY <1>1 DEF NextAddr, Promise!Next, Promise!GiveUp, Promise!vars, params

(* Every step of each_addr is a step of the promise, or changes nothing that *)
(* the promise speaks of.                                                  *)
LEMMA StepImplements == IInv /\ [Next]_vars => [Promise!Next]_Promise!vars
  <1> SUFFICES ASSUME IInv, [Next]_vars
               PROVE  Promise!Next \/ UNCHANGED Promise!vars
    OBVIOUS
  <1> USE DEF Promise!vars, params
  <1>1. CASE NextAddr
    BY <1>1, NextAddrImplements
  <1>2. CASE NewSocket
    BY <1>2, NewSocketImplements
  <1>3. CASE DropSocket
    BY <1>3, DropSocketImplements
  <1>4. CASE FirstConnect
    BY <1>4 DEF FirstConnect, FailWith
  <1>5. CASE ConnectAgain
    BY <1>5 DEF ConnectAgain, FailWith
  <1>6. CASE ConnectReturns
    BY <1>6, SucceedImplements DEF ConnectReturns, FailWith
  <1>7. CASE Interrupted
    BY <1>7 DEF Interrupted, FailWith
  <1>8. CASE SetReuseAddr \/ Bind
    BY <1>8 DEF SetReuseAddr, Bind, BindStep, FailWith
  <1>9. CASE Listen
    BY <1>9, SucceedImplements DEF Listen, FailWith
  <1>10. CASE Kernel
    BY <1>10 DEF Kernel, Resolve
  <1>11. CASE Returned \/ UNCHANGED vars
    BY <1>11 DEF Returned, vars
  <1>12. QED
    BY <1>1, <1>2, <1>3, <1>4, <1>5, <1>6, <1>7, <1>8, <1>9, <1>10, <1>11
       DEF Next, Thread

(* connect and bind keep the promise of their docs for every list:         *)
(* addresses are attempted in order, one socket at a time, the first       *)
(* success is returned and otherwise the last error.                       *)
THEOREM KeepsThePromise == Spec => Implements
  <1>1. Init => Promise!Init
    BY DEF Init, Promise!Init
  <1>2. QED
    BY <1>1, Invariance, StepImplements, PTL DEF Spec, Implements, Promise!Spec

=============================================================================
