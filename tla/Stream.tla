------------------------------- MODULE Stream -------------------------------
(***************************************************************************)
(* A connected BtStream behind several handles (try_clone) used by several *)
(* threads: peek, recv, send, shutdown, take_error, set_nonblocking, the   *)
(* timeouts and Drop.  All of them act on one socket of the kernel.  A     *)
(* call that can block has an action that makes it and actions that return *)
(* from it; the others are one system call and one action.                 *)
(*                                                                         *)
(* The crate opens SOCK_STREAM sockets for RFCOMM and for L2CAP, so both   *)
(* give a stream of bytes, numbered here in the order they were sent.      *)
(***************************************************************************)
EXTENDS Integers, FiniteSetsExt

CONSTANTS
  Threads, Handles,
  Buffers,    (* lengths of the buffers passed to recv and peek            *)
  MaxBytes,   (* bound on the bytes the peer sends                         *)
  Window,     (* sends the peer can leave unread before send blocks        *)
  Systems,    (* the systems it may run on                                 *)
  None        (* no handle                                                 *)

ASSUME HandlesAssumption == None \notin Handles
ASSUME BoundsAssumption ==
  Buffers \subseteq Nat \ {0} /\ MaxBytes \in Nat /\ Window \in Nat \ {0}
ASSUME SystemsAssumption == Systems \subseteq {"unix", "windows"}

VARIABLES
  system,      (* the system it runs on, fixed                             *)
  live,        (* handles not yet dropped                                  *)
  call,        (* call[t]: the blocking call thread t is in, or "idle"     *)
  handle,      (* handle[t]: the handle it borrows                         *)
  patience,    (* patience[t]: what the options said when it was made      *)
  nonblocking, (* FIONBIO                                                  *)
  timeouts,    (* which of "recv" and "send" have a timeout                *)
  shut,        (* halves the kernel has shut down                          *)
  pending,     (* SO_ERROR is set                                          *)
  peer,        (* the connection is up                                     *)
  arrived,     (* bytes that have arrived                                  *)
  consumed,    (* bytes that have left the receive queue                   *)
  unread,      (* sends the peer has not read yet                          *)
  stopped,     (* ghost: halves that callers asked to shut down            *)
  broken,      (* ghost: the kernel has recorded an error                  *)
  told,        (* ghost: how often it was returned to a caller             *)
  taken,       (* ghost: taken[b] is how often recv returned byte b        *)
  seen,        (* ghost: first byte of a peek with no recv since, or 0     *)
  ended        (* ghost: recv or peek has returned Ok(0)                   *)

calls   == <<call, handle, patience>>
options == <<nonblocking, timeouts>>
errors  == <<pending, broken, told>>
queue   == <<arrived, consumed, taken, seen>>
halves  == <<shut, stopped>>
link    == <<peer, unread>>
vars == <<system, live, calls, options, errors, queue, halves, link, ended>>

Bytes    == 1 .. MaxBytes
Halves   == {"read", "write"}
Reading  == {"recv", "peek"}

TypeOK ==
  /\ system \in Systems
  /\ live \in SUBSET Handles
  /\ call \in [Threads -> {"idle", "recv", "peek", "send"}]
  /\ handle \in [Threads -> Handles \cup {None}]
  /\ \A t \in Threads : IF call[t] = "idle" THEN handle[t] = None
                                            ELSE handle[t] \in live
  /\ patience \in [Threads -> {"none", "timeout", "forever"}]
  /\ nonblocking \in BOOLEAN
  /\ timeouts \in SUBSET {"recv", "send"}
  /\ shut \in SUBSET Halves /\ stopped \in SUBSET Halves
  /\ pending \in BOOLEAN /\ broken \in BOOLEAN /\ told \in 0 .. 2
  /\ peer \in BOOLEAN
  /\ arrived \in 0 .. MaxBytes /\ consumed \in 0 .. arrived
  /\ unread \in 0 .. Window
  /\ taken \in [Bytes -> 0 .. 2]
  /\ seen \in 0 .. arrived
  /\ ended \in BOOLEAN

Init ==
  /\ system \in Systems
  /\ \E first \in Handles : live = {first}
  /\ call = [t \in Threads |-> "idle"]
  /\ handle = [t \in Threads |-> None]
  /\ patience = [t \in Threads |-> "none"]
  /\ nonblocking = FALSE
  /\ timeouts = {}
  /\ shut = {} /\ stopped = {}
  /\ pending = FALSE /\ broken = FALSE /\ told = 0
  /\ peer = TRUE
  /\ arrived = 0 /\ consumed = 0
  /\ unread = 0
  /\ taken = [b \in Bytes |-> 0]
  /\ seen = 0
  /\ ended = FALSE

-----------------------------------------------------------------------------
(* Calls that may block.                                                   *)

OptionOf(c) == IF c = "send" THEN "send" ELSE "recv"

(* Thread t calls peek, recv or send on handle h.                          *)
MakeCall(t, h, c) ==
  /\ call[t] = "idle"
  /\ h \in live
  /\ call' = [call EXCEPT ![t] = c]
  /\ handle' = [handle EXCEPT ![t] = h]
  /\ patience' = [patience EXCEPT ![t] =
                    IF nonblocking THEN "none"
                    ELSE IF OptionOf(c) \in timeouts THEN "timeout"
                    ELSE "forever"]
  /\ UNCHANGED <<system, live, options, errors, queue, halves, link, ended>>

Return(t) ==
  /\ call' = [call EXCEPT ![t] = "idle"]
  /\ handle' = [handle EXCEPT ![t] = None]
  /\ patience' = [patience EXCEPT ![t] = "none"]

NoFlags(c) == ""                     \* mutant: peek passes 0
AlwaysPeek(c) == "MSG_PEEK"          \* mutant: read passes MSG_PEEK

(* The flags of recv and recvfrom.                                         *)
Flags(c) == IF c = "peek" THEN "MSG_PEEK" ELSE ""

RecvResultLax(ret) ==                \* mutant: every -1 is the end on windows
  IF system = "windows" \/ ret = "0" THEN "Ok(0)" ELSE "Err"

(* recv_with_flags: what recv(2) returned when it brought no data.         *)
RecvResult(ret) ==
  IF ret = "0" \/ (system = "windows" /\ ret = "ESHUTDOWN")
  THEN "Ok(0)" ELSE "Err"

ReturnNoData(t, ret) ==
  /\ Return(t)
  /\ ended' = (ended \/ RecvResult(ret) = "Ok(0)")

HasData == consumed < arrived
LocallyShut == system = "windows" /\ "read" \in shut

(* The last byte that recv may copy into a buffer of that length: at least *)
(* one byte is copied, and a kernel may copy fewer than there are.         *)
Readable(length) == consumed + 1 .. Min({consumed + length, arrived})

Receive(t) ==
  /\ call[t] \in Reading
  /\ HasData /\ ~LocallyShut
  /\ \E length \in Buffers : \E last \in Readable(length) :
       /\ consumed' = IF Flags(call[t]) = "MSG_PEEK" THEN consumed ELSE last
       /\ IF call[t] = "recv"
          THEN /\ taken' = [b \in Bytes |-> IF b \in consumed + 1 .. last
                                              THEN taken[b] + 1 ELSE taken[b]]
               /\ seen' = 0
          ELSE /\ seen' = IF seen = 0 THEN consumed + 1 ELSE seen
               /\ UNCHANGED taken
  /\ Return(t)
  /\ UNCHANGED <<system, live, options, errors, halves, peer, arrived,
                 unread, ended>>

(* The pending error is returned, and is pending no more.                  *)
ReturnPending(t) ==
  /\ call[t] # "idle" /\ pending
  /\ call[t] \in Reading => ~HasData /\ ~LocallyShut
  /\ pending' = FALSE
  /\ told' = told + 1
  /\ IF call[t] \in Reading THEN ReturnNoData(t, "error")
     ELSE Return(t) /\ UNCHANGED ended
  /\ UNCHANGED <<system, live, options, broken, queue, halves, link>>

(* The stream is at its end.  Winsock fails instead once this side has     *)
(* shut down, and need not wake a call that was waiting already.           *)
ReadEnd(t) ==
  /\ call[t] \in Reading
  /\ \/ LocallyShut /\ ReturnNoData(t, "ESHUTDOWN")
     \/ /\ ~LocallyShut /\ ~HasData /\ ~pending
        /\ ~peer \/ "read" \in shut
        /\ ReturnNoData(t, "0")
  /\ UNCHANGED <<system, live, options, errors, queue, halves, link>>

CanSend == peer /\ "write" \notin shut

Send(t) ==
  /\ call[t] = "send" /\ ~pending
  /\ \/ CanSend /\ unread < Window /\ unread' = unread + 1
     \/ ~CanSend /\ UNCHANGED unread        \* EPIPE
  /\ Return(t)
  /\ UNCHANGED <<system, live, options, errors, queue, halves, peer, ended>>

Waiting(t) ==
  IF call[t] = "send" THEN CanSend /\ unread = Window
  ELSE ~HasData /\ peer /\ ("read" \notin shut \/ system = "windows")

(* The call would block, or its timeout expires.                           *)
WouldBlock(t) ==
  /\ call[t] # "idle" /\ ~pending /\ Waiting(t)
  /\ patience[t] # "forever"
  /\ IF call[t] \in Reading THEN ReturnNoData(t, "EAGAIN")
     ELSE Return(t) /\ UNCHANGED ended
  /\ UNCHANGED <<system, live, options, errors, queue, halves, link>>

(* A signal; neither recv nor send goes through cvt_r.                     *)
Interrupted(t) ==
  /\ call[t] # "idle" /\ ~pending /\ Waiting(t)
  /\ system = "unix" /\ patience[t] # "none"
  /\ IF call[t] \in Reading THEN ReturnNoData(t, "EINTR")
     ELSE Return(t) /\ UNCHANGED ended
  /\ UNCHANGED <<system, live, options, errors, queue, halves, link>>

-----------------------------------------------------------------------------
(* Calls that do not block.                                                *)

HalvesSwapped(how) ==                \* mutant: SHUT_RD and SHUT_WR swapped
  CASE how = "Read"  -> {"write"}
    [] how = "Write" -> {"read"}
    [] how = "Both"  -> Halves

HalvesOf(how) ==
  CASE how = "Read"  -> {"read"}
    [] how = "Write" -> {"write"}
    [] how = "Both"  -> Halves

(* The halves the caller means.                                            *)
Asked(how) ==
  {h \in Halves : <<how, h>> \notin {<<"Read", "write">>, <<"Write", "read">>}}

(* On unix a kernel may take the whole connection down for either half, as *)
(* RFCOMM cannot close only one.  A failure changes nothing.               *)
Shutdown(how) ==
  /\ live # {}
  /\ \/ shut' = shut \cup HalvesOf(how)
     \/ system = "unix" /\ shut' = Halves
  /\ stopped' = stopped \cup Asked(how)
  /\ UNCHANGED <<system, live, calls, options, errors, queue, link, ended>>

TakeErrorTwice ==                    \* mutant: reads SO_ERROR a second time
  /\ live # {} /\ pending
  /\ pending' = FALSE
  /\ UNCHANGED <<system, live, calls, options, broken, told, queue, halves,
                 link, ended>>

TakeError ==
  /\ live # {} /\ pending
  /\ pending' = FALSE
  /\ told' = told + 1
  /\ UNCHANGED <<system, live, calls, options, broken, queue, halves, link,
                 ended>>

SetNonblocking ==
  /\ live # {}
  /\ nonblocking' \in BOOLEAN
  /\ UNCHANGED <<system, live, calls, timeouts, errors, queue, halves, link,
                 ended>>

(* set_read_timeout and set_write_timeout: Some or None.                   *)
SetReadOrWriteTimeout(c) ==
  /\ live # {}
  /\ timeouts' \in {timeouts \cup {c}, timeouts \ {c}}
  /\ UNCHANGED <<system, live, calls, nonblocking, errors, queue, halves, link,
                 ended>>

(* try_clone: a new handle to the same socket, everything else is shared.  *)
TryClone(h, new) ==
  /\ h \in live /\ new \notin live
  /\ live' = live \cup {new}
  /\ UNCHANGED <<system, calls, options, errors, queue, halves, link, ended>>

DropShutsDown(h) ==                  \* mutant: drop also shuts the socket down
  /\ h \in live /\ \A t \in Threads : handle[t] # h
  /\ live' = live \ {h}
  /\ shut' = Halves
  /\ UNCHANGED <<system, calls, options, errors, queue, stopped, link, ended>>

(* Drop closes the descriptor; the last one ends the connection.           *)
DropHandle(h) ==
  /\ h \in live /\ \A t \in Threads : handle[t] # h
  /\ live' = live \ {h}
  /\ UNCHANGED <<system, calls, options, errors, queue, halves, link, ended>>

-----------------------------------------------------------------------------
(* The peer and the kernel (external).                                     *)

Arrive ==
  /\ live # {} /\ peer /\ "read" \notin shut
  /\ arrived' \in arrived + 1 .. MaxBytes
  /\ UNCHANGED <<system, live, calls, options, errors, consumed, taken, seen,
                 halves, link, ended>>

PeerReads ==
  /\ live # {} /\ peer /\ unread > 0
  /\ unread' = unread - 1
  /\ UNCHANGED <<system, live, calls, options, errors, queue, halves, peer,
                 ended>>

PeerCloses ==
  /\ live # {} /\ peer
  /\ peer' = FALSE
  /\ unread' = 0
  /\ UNCHANGED <<system, live, calls, options, errors, queue, halves, ended>>

Break ==
  /\ live # {} /\ peer
  /\ peer' = FALSE
  /\ unread' = 0
  /\ pending' = TRUE /\ broken' = TRUE
  /\ UNCHANGED <<system, live, calls, options, told, queue, halves, ended>>

Returning(t) ==
  Receive(t) \/ ReturnPending(t) \/ ReadEnd(t) \/ Send(t) \/ WouldBlock(t)

Next ==
  \/ \E t \in Threads :
       \/ \E h \in Handles, c \in {"recv", "peek", "send"} : MakeCall(t, h, c)
       \/ Returning(t)
       \/ Interrupted(t)
  \/ \E how \in {"Read", "Write", "Both"} : Shutdown(how)
  \/ TakeError \/ SetNonblocking
  \/ \E c \in {"recv", "send"} : SetReadOrWriteTimeout(c)
  \/ \E h, new \in Handles : TryClone(h, new)
  \/ \E h \in Handles : DropHandle(h)
  \/ Arrive \/ PeerReads \/ PeerCloses \/ Break

Spec == Init /\ [][Next]_vars

(* A call that can return does.                                            *)
FairSpec == Spec /\ \A t \in Threads : WF_vars(Returning(t))

-----------------------------------------------------------------------------
(* Properties.                                                             *)

(* Whoever reads, on whichever handle: no byte is received twice, and none *)
(* leaves the queue without being received.                                *)
DeliveredOnce == \A b \in Bytes : taken[b] = IF b <= consumed THEN 1 ELSE 0

(* "Successive calls return the same data": what a peek returned is next   *)
(* in the queue until some thread receives it.                             *)
PeekedIsNext == seen # 0 => seen = consumed + 1

(* recv and peek return Ok(0) only for a cause: the peer is gone, or this  *)
(* side has been asked to shut down - not because a call would block or    *)
(* was interrupted, nor because some clone of the stream was dropped.      *)
EndHasCause == ended => ~peer \/ stopped # {}

(* And it is the end: no thread receives anything after any thread was     *)
(* told so.                                                                *)
EndIsFinal == [][ended => UNCHANGED <<consumed, taken, seen>>]_vars

(* The error of a connection that broke is told exactly once, by           *)
(* take_error, recv, peek or send, whichever thread comes first.           *)
ErrorToldOnce ==
  live # {} => told + (IF pending THEN 1 ELSE 0) = (IF broken THEN 1 ELSE 0)

(* What the socket has to give is given once, to one thread, on whichever  *)
(* handle: bytes and the error; and a peek takes nothing.                  *)
GivenOnce == DeliveredOnce /\ PeekedIsNext /\ ErrorToldOnce

(* Shutting down the write half stops the sends of every thread and clone. *)
NothingSentAfterShutdown == [][ "write" \in stopped => unread' <= unread ]_vars

(* Either direction, once ended, stays so, for all threads and clones.     *)
EndsAreFinal == EndIsFinal /\ NothingSentAfterShutdown

(* shutdown "will cause all pending and future I/O on the specified        *)
(* portions to return immediately" (on unix, see ReadEnd), and so does the *)
(* end of the connection: no reader is left waiting.                       *)
ReadersReleased ==
  \A t \in Threads :
    call[t] \in Reading /\ (~peer \/ (system = "unix" /\ "read" \in stopped))
      ~> call[t] = "idle"

=============================================================================
