---------------------------- MODULE Connections ----------------------------
(***************************************************************************)
(* How a program comes by its streams and what it is told about the other  *)
(* ends: BtListener::bind, accept from several threads through several     *)
(* handles of one listener, and connect.  Devices connect and go away      *)
(* between any two system calls.                                           *)
(*                                                                         *)
(* A target says which platform, protocol and kernel the program runs on.  *)
(* Connections from devices are numbered in the order they come in.        *)
(***************************************************************************)
EXTENDS Address, Sequences, FiniteSetsExt, TLC

CONSTANTS
  Threads, Handles,
  Devices,    (* addresses of the devices that connect                     *)
  Local,      (* the address of the adapter, passed to bind                *)
  MaxConns,   (* bound on the connections that come in                     *)
  Backlog,    (* connections the kernel keeps for accept                   *)
  Port,       (* channel or psm of the devices' ends                       *)
  Targets,    (* records of platform, protocol and accept4                 *)
  None        (* no handle, no connection                                  *)

ASSUME DevicesAssumption == Devices \subseteq BtAddr /\ Local \in BtAddr
ASSUME PortAssumption == Port \in Octet
ASSUME BoundsAssumption == MaxConns \in Nat /\ Backlog \in Nat \ {0}
ASSUME NoneAssumption == None \notin Handles \cup Nat /\ None \notin BtAddr
ASSUME TargetsAssumption ==
  Targets \subseteq [platform : {"unix", "windows"},
                     protocol : {"RFCOMM", "L2CAP"}, accept4 : BOOLEAN,
                     linux : BOOLEAN]

VARIABLES
  target,
  bound,        (* the address the listener is bound to, or None           *)
  live,         (* handles of the listener                                 *)
  nonblocking,  (* its FIONBIO flag                                        *)
  pc,           (* pc[t]: where thread t is in accept                      *)
  handle,       (* handle[t]: the handle it borrows                        *)
  sockaddr,     (* sockaddr[t]: its local address storage                  *)
  fetched,      (* fetched[t]: the connection in its hands, or None        *)
  device,       (* device[c]: address of the device that made connection c *)
  fate,         (* fate[c]: what has become of it                          *)
  told,         (* told[c]: the address accept returned with it            *)
  dialled       (* pairs of an address passed to connect and the one the   *)
                (* kernel was asked for                                    *)

locals   == <<pc, handle, sockaddr, fetched>>
listener == <<bound, live, nonblocking>>
vars == <<target, listener, locals, device, fate, told, dialled>>

Connects == 1 .. Len(device)
Waiting  == {c \in Connects : fate[c] = "waiting"}
Streams  == {c \in Connects : fate[c] = "stream"}

Read(s)     == KernelReads(target.platform, target.protocol, s)
Written(a)  == KernelWrites(target.platform, target.protocol, a, Port)
Empty       == EmptySockaddr(target.platform)
AddrIn(s)   == FromSockaddr(target.platform, s)
Sockaddr(a) == ToSockaddr(target.platform, a)

TypeOK ==
  /\ target \in Targets
  /\ bound \in BtAddr \cup {None}
  /\ live \in SUBSET Handles
  /\ nonblocking \in BOOLEAN
  /\ \A t \in Threads :
       /\ pc[t] \in {"idle", "accept4", "asleep4", "accept", "asleep", "mark"}
       /\ handle[t] \in IF pc[t] = "idle" THEN {None} ELSE live
       /\ fetched[t] \in IF pc[t] = "mark" THEN Connects ELSE {None}
  /\ device \in Seq(Devices) /\ Len(device) <= MaxConns
  /\ Len(fate) = Len(device) /\ Len(told) = Len(device)
  /\ \A c \in Connects :
       /\ fate[c] \in {"waiting", "fetched", "stream", "closed", "gone"}
       /\ told[c] \in IF fate[c] = "stream" THEN BtAddr ELSE {None}
  /\ Cardinality(Waiting) <= Backlog

Init ==
  /\ target \in Targets
  /\ bound = None
  /\ live = {}
  /\ nonblocking = FALSE
  /\ pc = [t \in Threads |-> "idle"]
  /\ handle = [t \in Threads |-> None]
  /\ sockaddr = [t \in Threads |-> Empty]
  /\ fetched = [t \in Threads |-> None]
  /\ device = << >>
  /\ fate = << >>
  /\ told = << >>
  /\ dialled = {}

-----------------------------------------------------------------------------
(* The life of the listener.                                               *)

Bind(h) ==
  /\ bound = None
  /\ bound' = Read(Sockaddr(Local))
  /\ live' = {h}
  /\ UNCHANGED <<target, nonblocking, locals, device, fate, told, dialled>>

TryClone(h, new) ==
  /\ h \in live
  /\ new \notin live
  /\ live' = live \cup {new}
  /\ UNCHANGED <<target, bound, nonblocking, locals, device, fate, told,
                 dialled>>

(* A handle cannot be dropped while a call borrows it.  With the last one  *)
(* the kernel closes the listener and what waits for accept.               *)
DropHandle(h) ==
  /\ h \in live
  /\ \A t \in Threads : handle[t] # h
  /\ live' = live \ {h}
  /\ fate' = [c \in Connects |->
                IF c \in Waiting /\ live' = {} THEN "gone" ELSE fate[c]]
  /\ UNCHANGED <<target, bound, nonblocking, locals, device, told, dialled>>

SetNonblocking(h, value) ==
  /\ h \in live
  /\ nonblocking' = value
  /\ UNCHANGED <<target, bound, live, locals, device, fate, told, dialled>>

-----------------------------------------------------------------------------
(* accept.                                                                 *)

CallAcceptPlain(t, h) ==             \* mutant: accept4 is not tried
  /\ pc[t] = "idle"
  /\ h \in live
  /\ pc' = [pc EXCEPT ![t] = "accept"]
  /\ handle' = [handle EXCEPT ![t] = h]
  /\ sockaddr' = [sockaddr EXCEPT ![t] = Empty]
  /\ UNCHANGED <<target, listener, fetched, device, fate, told, dialled>>

CallAccept(t, h) ==
  /\ pc[t] = "idle"
  /\ h \in live
  /\ pc' = [pc EXCEPT ![t] = IF target.linux THEN "accept4" ELSE "accept"]
  /\ handle' = [handle EXCEPT ![t] = h]
  /\ sockaddr' = [sockaddr EXCEPT ![t] = Empty]
  /\ UNCHANGED <<target, listener, fetched, device, fate, told, dialled>>

Return(t) ==
  /\ pc' = [pc EXCEPT ![t] = "idle"]
  /\ handle' = [handle EXCEPT ![t] = None]

(* The system call thread t is in, or about to make.                       *)
InAccept4(t) == pc[t] \in {"accept4", "asleep4"}
InAccept(t)  == pc[t] \in {"accept", "asleep"}

FallBackNever(t) ==                  \* mutant: ENOSYS is retried
  /\ pc[t] = "accept4" /\ ~target.accept4
  /\ UNCHANGED vars

(* ENOSYS: the kernel has no accept4.                                      *)
FallBack(t) ==
  /\ pc[t] = "accept4" /\ ~target.accept4
  /\ pc' = [pc EXCEPT ![t] = "accept"]
  /\ UNCHANGED <<target, listener, handle, sockaddr, fetched, device, fate,
                 told, dialled>>

(* accept4 found the oldest connection that waits: the stream is complete. *)
TakeMarked(t) ==
  /\ InAccept4(t) /\ target.accept4
  /\ Waiting # {}
  /\ LET c == Min(Waiting)
         s == Written(device[c])
     IN  /\ sockaddr' = [sockaddr EXCEPT ![t] = s]
         /\ fate' = [fate EXCEPT ![c] = "stream"]
         /\ told' = [told EXCEPT ![c] = AddrIn(s)]
  /\ Return(t)
  /\ UNCHANGED <<target, listener, fetched, device, dialled>>

TakeShared(t) ==                     \* mutant: one storage for all threads
  /\ InAccept(t)
  /\ Waiting # {}
  /\ LET c == Min(Waiting)
     IN  /\ sockaddr' = [u \in Threads |-> Written(device[c])]
         /\ fate' = [fate EXCEPT ![c] = "fetched"]
         /\ fetched' = [fetched EXCEPT ![t] = c]
  /\ pc' = [pc EXCEPT ![t] = "mark"]
  /\ UNCHANGED <<target, listener, handle, device, told, dialled>>

(* accept found it: the new socket has still to be marked.                 *)
Take(t) ==
  /\ InAccept(t)
  /\ Waiting # {}
  /\ LET c == Min(Waiting)
     IN  /\ sockaddr' = [sockaddr EXCEPT ![t] = Written(device[c])]
         /\ fate' = [fate EXCEPT ![c] = "fetched"]
         /\ fetched' = [fetched EXCEPT ![t] = c]
  /\ pc' = [pc EXCEPT ![t] = "mark"]
  /\ UNCHANGED <<target, listener, handle, device, told, dialled>>

MarkForgetting(t) ==                 \* mutant: on failure nobody closes it
  /\ pc[t] = "mark"
  /\ LET c == fetched[t]
     IN  \/ /\ fate' = [fate EXCEPT ![c] = "stream"]
            /\ told' = [told EXCEPT ![c] = AddrIn(sockaddr[t])]
         \/ UNCHANGED <<fate, told>>
  /\ fetched' = [fetched EXCEPT ![t] = None]
  /\ Return(t)
  /\ UNCHANGED <<target, listener, sockaddr, device, dialled>>

(* set_cloexec or set_no_inherit, then the return of the stream with the   *)
(* address; when it fails the new socket is dropped.                       *)
Mark(t) ==
  /\ pc[t] = "mark"
  /\ LET c == fetched[t]
     IN  \/ /\ fate' = [fate EXCEPT ![c] = "stream"]
            /\ told' = [told EXCEPT ![c] = AddrIn(sockaddr[t])]
         \/ /\ fate' = [fate EXCEPT ![c] = "closed"]
            /\ UNCHANGED told
  /\ fetched' = [fetched EXCEPT ![t] = None]
  /\ Return(t)
  /\ UNCHANGED <<target, listener, sockaddr, device, dialled>>

(* The system call is about to be made and nothing waits: it sleeps, or    *)
(* fails with EAGAIN on a listener that is nonblocking at that moment.     *)
NothingWaits(t) ==
  /\ pc[t] = "accept" \/ (pc[t] = "accept4" /\ target.accept4)
  /\ Waiting = {}

Sleep(t) ==
  /\ NothingWaits(t) /\ ~nonblocking
  /\ pc' = [pc EXCEPT ![t] = IF @ = "accept4" THEN "asleep4" ELSE "asleep"]
  /\ UNCHANGED <<target, listener, handle, sockaddr, fetched, device, fate,
                 told, dialled>>

WouldBlockRetried(t) ==              \* mutant: EAGAIN is retried like EINTR
  /\ NothingWaits(t) /\ nonblocking
  /\ UNCHANGED vars

WouldBlock(t) ==
  /\ NothingWaits(t) /\ nonblocking
  /\ Return(t)
  /\ UNCHANGED <<target, listener, sockaddr, fetched, device, fate, told,
                 dialled>>

(* A signal ends the sleep and cvt_r makes the call again; there is no     *)
(* such thing on windows.                                                  *)
Interrupted(t) ==
  /\ pc[t] \in {"asleep4", "asleep"}
  /\ target.platform = "unix"
  /\ Waiting = {}
  /\ pc' = [pc EXCEPT ![t] = IF @ = "asleep4" THEN "accept4" ELSE "accept"]
  /\ UNCHANGED <<target, listener, handle, sockaddr, fetched, device, fate,
                 told, dialled>>

(* Every other error, one that has nothing to do with what waits, such as  *)
(* EMFILE.                                                                 *)
AcceptFails(t) ==
  /\ InAccept4(t) \/ InAccept(t)
  /\ Return(t)
  /\ UNCHANGED <<target, listener, sockaddr, fetched, device, fate, told,
                 dialled>>

-----------------------------------------------------------------------------
(* connect to a device: the address passed and the one asked for.          *)
Dial(a) ==
  /\ dialled = {}
  /\ dialled' = {<<a, Read(Sockaddr(a))>>}
  /\ UNCHANGED <<target, listener, locals, device, fate, told>>

(* Devices that connect, and that go away before they are accepted.        *)
Arrive(d) ==
  /\ bound # None
  /\ Len(device) < MaxConns
  /\ device' = Append(device, d)
  /\ fate' = Append(fate, IF live # {} /\ Cardinality(Waiting) < Backlog
                          THEN "waiting" ELSE "gone")
  /\ told' = Append(told, None)
  /\ UNCHANGED <<target, listener, locals, dialled>>

Withdraw(c) ==
  /\ c \in Waiting
  /\ fate' = [fate EXCEPT ![c] = "gone"]
  /\ UNCHANGED <<target, listener, locals, device, told, dialled>>

(* The steps of a running accept; signals and other errors are not its own.*)
Accepting(t) ==
  \/ FallBack(t) \/ TakeMarked(t) \/ Take(t) \/ Mark(t) \/ Sleep(t)
  \/ WouldBlock(t)

Next ==
  \/ \E h \in Handles :
       \/ Bind(h) \/ DropHandle(h)
       \/ \E new \in Handles : TryClone(h, new)
       \/ \E value \in BOOLEAN : SetNonblocking(h, value)
       \/ \E t \in Threads : CallAccept(t, h)
  \/ \E t \in Threads : Accepting(t) \/ Interrupted(t) \/ AcceptFails(t)
  \/ \E d \in Devices : Dial(d) \/ Arrive(d)
  \/ \E c \in Connects : Withdraw(c)

Spec == Init /\ [][Next]_vars

(* A thread in accept is run.                                              *)
FairSpec == Spec /\ \A t \in Threads : WF_vars(Accepting(t))

-----------------------------------------------------------------------------
(* Properties.                                                             *)

(* The docs of accept: each connection is given to one caller at most,     *)
(* whichever threads and handles accept, interrupted or not, and with the  *)
(* address of the device that made it.                                     *)
Promise == INSTANCE AcceptSpec
             WITH waiting <- Waiting \cup {c \in Connects : fate[c] = "fetched"},
                  given <- [c \in Streams |-> told[c]]

Implements == Promise!Spec

(* A connection taken from the kernel but not returned yet is in the hands *)
(* of exactly one thread, so that an accept that fails half-way closes it. *)
HeldByOne ==
  \A c \in Connects :
    fate[c] = "fetched" <=> Cardinality({t \in Threads : fetched[t] = c}) = 1

(* accept loses a connection only where it cannot mark the descriptor in   *)
(* the call that creates it: never on a Linux that has accept4.            *)
OnlyMarkingLoses ==
  (\E c \in Connects : fate[c] = "closed") => ~(target.linux /\ target.accept4)

(* Connections that were taken end as streams or are closed, and the latter *)
(* only where the code cannot help it.                                     *)
ConnectionsAreKept == HeldByOne /\ OnlyMarkingLoses

(* peer_addr of an accepted stream is the address accept returned with it, *)
(* local_addr of the listener is the address it was bound to, and both are *)
(* true.                                                                   *)
NamesAreTrue ==
  /\ \A c \in Streams :
       AddrIn(Written(device[c])) = told[c] /\ told[c] = device[c]
  /\ bound # None => AddrIn(Written(bound)) = Local /\ bound = Local

(* "Opens a Bluetooth connection to a remote host" (the doc of connect):   *)
(* the kernel is asked for the device whose address was passed.            *)
DialsWhatWasAsked == \A d \in dialled : d[2] = d[1]

(* An address means the same device to the program and to the kernel, on   *)
(* the way out and on the way back.                                        *)
AddressesAreTrue == NamesAreTrue /\ DialsWhatWasAsked

(* A connection that waits does not keep waiting next to an accept that    *)
(* does: the call returns, or somebody else takes the connection.          *)
AcceptServes ==
  \A t \in Threads :
    (pc[t] # "idle" /\ Waiting # {}) ~> (pc[t] = "idle" \/ Waiting = {})

(* On a listener that stays nonblocking no accept goes on for ever, except *)
(* one that slept before the mode was set, through whichever handle.       *)
NonblockingReturns ==
  \A t \in Threads :
    pc[t] \in {"accept4", "accept"} /\ nonblocking
      ~> (pc[t] = "idle" \/ ~nonblocking)

(* accept returns when it has to, through ENOSYS and EINTR, on every       *)
(* handle: with a connection, or with EAGAIN.                              *)
AcceptReturns == AcceptServes /\ NonblockingReturns

=============================================================================
