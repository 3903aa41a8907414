---------------------------- MODULE Descriptors ----------------------------
(***************************************************************************)
(* Who owns which operating-system descriptor.                             *)
(*                                                                         *)
(* A socket of the crate is a FileDesc (unix) or a SOCKET (windows) that   *)
(* closes its descriptor when it is dropped.  Threads of the program       *)
(* create them with Socket::new, Socket::accept and duplicate, drop them,  *)
(* and turn them into bare integers and back (into_raw, from_inner).  The  *)
(* rest of the program opens and closes descriptors of its own, and the    *)
(* kernel hands a number out again as soon as it is closed.                *)
(*                                                                         *)
(* A thread performs one system call or one access of TRY_CLOEXEC per      *)
(* step.  A call that is interrupted and made again by cvt_r (accept)      *)
(* changes nothing and is a stuttering step.                               *)
(***************************************************************************)
EXTENDS Integers, FiniteSets

CONSTANTS
  Threads,   (* threads that call the crate                                *)
  Handles,   (* places in the program where a FileDesc value can live      *)
  Fds,       (* descriptor numbers                                         *)
  Files,     (* open file descriptions, the sockets the numbers stand for  *)
  Targets,   (* the [platform, features] pairs the program may run on      *)
  None

Platforms == {"linux", "android", "haiku", "apple", "windows"}

(* What a kernel may know: the three flags that create a descriptor that   *)
(* is already close-on-exec, and that F_DUPFD_CLOEXEC really sets the mark *)
(* it reports to have set.                                                 *)
AllFeatures == {"SOCK_CLOEXEC", "accept4", "F_DUPFD_CLOEXEC", "dup_marks"}

ASSUME NoneAssumption == None \notin Threads \cup Handles \cup Fds \cup Files
ASSUME TargetsAssumption ==
  Targets \subseteq [platform : Platforms, features : SUBSET AllFeatures]

(* A real F_DUPFD_CLOEXEC only reports a mark it has not set on Linux.     *)
ASSUME MarksAssumption ==
  \A x \in Targets : "F_DUPFD_CLOEXEC" \in x.features
                       => x.platform = "linux" \/ "dup_marks" \in x.features

VARIABLES
  target,     (* the platform and kernel this program runs on, fixed       *)
  table,      (* the kernel's table: the file each open descriptor is of   *)
  marked,     (* open descriptors a child process will not inherit         *)
  handle,     (* the descriptor in each live FileDesc                      *)
  raw,        (* descriptors owned by other code, with the file it expects *)
  tryCloexec, (* the static TRY_CLOEXEC                                    *)
  pc,         (* the next system call of each thread                       *)
  src,        (* the FileDesc a call borrows with &self                    *)
  dst,        (* the place its result will be moved to                     *)
  fd,         (* the descriptor a call holds in a local FileDesc           *)
  view,       (* the newest value of TRY_CLOEXEC each thread has seen      *)
  want,       (* ghost: the file the local FileDesc was made for           *)
  of,         (* ghost: the file each live FileDesc was made for           *)
  lost,       (* ghost: left open by a close that failed                   *)
  probed      (* ghost: threads the kernel refused F_DUPFD_CLOEXEC to      *)

kernelVars == <<table, marked>>
ghostVars  == <<want, of, lost, probed>>
localVars  == <<pc, src, dst, fd>>
flagVars   == <<tryCloexec, view>>
vars == <<target, kernelVars, handle, raw, flagVars, localVars, ghostVars>>

ProgramPoints ==
  {"idle", "socket_cloexec", "socket", "accept4", "accept", "load",
   "dupfd_cloexec", "store", "dupfd", "mark", "nosigpipe", "return", "close"}

TypeOK ==
  /\ target \in Targets
  /\ table \in [Fds -> Files \cup {None}]
  /\ marked \in SUBSET Fds
  /\ handle \in [Handles -> Fds \cup {None}]
  /\ raw \in [Fds -> Files \cup {None}]
  /\ tryCloexec \in BOOLEAN
  /\ pc \in [Threads -> ProgramPoints]
  /\ src \in [Threads -> Handles \cup {None}]
  /\ dst \in [Threads -> Handles \cup {None}]
  /\ fd \in [Threads -> Fds \cup {None}]
  /\ view \in [Threads -> BOOLEAN]
  /\ want \in [Threads -> Files \cup {None}]
  /\ of \in [Handles -> Files \cup {None}]
  /\ lost \in SUBSET Fds
  /\ probed \in SUBSET Threads

On(platform)    == target.platform = platform
Knows(feature)  == feature \in target.features

(* What duplicate calls F_DUPFD_CLOEXEC is F_DUPFD on Android and haiku:   *)
(* every kernel knows that command, and it marks nothing.                  *)
IsPlainDupFd    == On("android") \/ On("haiku")
KnowsDupCloexec == IsPlainDupFd \/ Knows("F_DUPFD_CLOEXEC")
DupMarks        == ~IsPlainDupFd /\ Knows("dup_marks")

FreeFds         == {d \in Fds : table[d] = None}
FreshFiles      == {f \in Files : \A d \in Fds : table[d] # f}
Vacant(h)       == handle[h] = None /\ \A t \in Threads : dst[t] # h
Borrowed(h)     == \E t \in Threads : src[t] = h

Init ==
  /\ target \in Targets
  /\ table = [d \in Fds |-> None]
  /\ marked = {}
  /\ handle = [h \in Handles |-> None]
  /\ raw = [d \in Fds |-> None]
  /\ tryCloexec = ~On("android")
  /\ pc = [t \in Threads |-> "idle"]
  /\ src = [t \in Threads |-> None]
  /\ dst = [t \in Threads |-> None]
  /\ fd = [t \in Threads |-> None]
  /\ view = [t \in Threads |-> tryCloexec]
  /\ want = [t \in Threads |-> None]
  /\ of = [h \in Handles |-> None]
  /\ lost = {}
  /\ probed = {}

-----------------------------------------------------------------------------
(* Steps shared by the calls.                                              *)

Goto(t, point) == pc' = [pc EXCEPT ![t] = point]

(* The call of t returns: it no longer borrows or reserves anything.       *)
Finish(t) ==
  /\ Goto(t, "idle")
  /\ src' = [src EXCEPT ![t] = None]
  /\ dst' = [dst EXCEPT ![t] = None]
  /\ fd' = [fd EXCEPT ![t] = None]
  /\ want' = [want EXCEPT ![t] = None]

(* The system call failed and there is nothing to clean up.                *)
ReturnError(t) ==
  /\ Finish(t)
  /\ UNCHANGED <<kernelVars, of, lost, probed>>

(* The kernel opens a new descriptor of file f; FileDesc::new wraps it.    *)
Open(t, f, mark, next) ==
  \E d \in FreeFds :
    /\ table' = [table EXCEPT ![d] = f]
    /\ marked' = IF mark THEN marked \cup {d} ELSE marked
    /\ fd' = [fd EXCEPT ![t] = d]
    /\ want' = [want EXCEPT ![t] = f]
    /\ Goto(t, next)
    /\ UNCHANGED <<src, dst, of, lost, probed>>

(* A thread enters a call that borrows g (or None) and returns a FileDesc. *)
Enter(t, g, h, point) ==
  /\ pc[t] = "idle"
  /\ Vacant(h)
  /\ Goto(t, point)
  /\ src' = [src EXCEPT ![t] = g]
  /\ dst' = [dst EXCEPT ![t] = h]
  /\ UNCHANGED <<target, kernelVars, handle, raw, flagVars, fd, ghostVars>>

-----------------------------------------------------------------------------
(* Socket::new                                                             *)

CallNewPlain(t, h) == Enter(t, None, h, "socket")  \* mutant: flag never tried

CallNew(t, h) ==
  Enter(t, None, h, IF On("linux") THEN "socket_cloexec" ELSE "socket")

(* socket(SOCK_STREAM | SOCK_CLOEXEC): EINVAL falls through to plain       *)
(* socket, any other error is returned.                                    *)
SocketCloexec(t) ==
  /\ pc[t] = "socket_cloexec"
  /\ \/ /\ Knows("SOCK_CLOEXEC")
        /\ \E f \in FreshFiles : Open(t, f, TRUE, "return")
     \/ /\ ~Knows("SOCK_CLOEXEC")
        /\ Goto(t, "socket")
        /\ UNCHANGED <<kernelVars, src, dst, fd, ghostVars>>
     \/ ReturnError(t)
  /\ UNCHANGED <<target, handle, raw, flagVars>>

PlainSocketUnchecked(t) ==           \* mutant: FileDesc::new(-1), no cvt
  /\ pc[t] = "socket"
  /\ Goto(t, "mark")
  /\ fd' = [fd EXCEPT ![t] = -1]
  /\ UNCHANGED <<target, kernelVars, handle, raw, flagVars, src, dst, ghostVars>>

PlainSocket(t) ==
  /\ pc[t] = "socket"
  /\ \/ \E f \in FreshFiles : Open(t, f, FALSE, "mark")
     \/ ReturnError(t)
  /\ UNCHANGED <<target, handle, raw, flagVars>>

-----------------------------------------------------------------------------
(* Socket::accept                                                          *)

CallAccept(t, g, h) ==
  /\ handle[g] # None
  /\ Enter(t, g, h, IF On("linux") THEN "accept4" ELSE "accept")

(* accept4(SOCK_CLOEXEC): ENOSYS falls through to plain accept.            *)
AcceptCloexec(t) ==
  /\ pc[t] = "accept4"
  /\ \/ /\ Knows("accept4")
        /\ \E f \in FreshFiles : Open(t, f, TRUE, "return")
     \/ /\ ~Knows("accept4")
        /\ Goto(t, "accept")
        /\ UNCHANGED <<kernelVars, src, dst, fd, ghostVars>>
     \/ ReturnError(t)
  /\ UNCHANGED <<target, handle, raw, flagVars>>

PlainAccept(t) ==
  /\ pc[t] = "accept"
  /\ \/ \E f \in FreshFiles : Open(t, f, FALSE, "mark")
     \/ ReturnError(t)
  /\ UNCHANGED <<target, handle, raw, flagVars>>

-----------------------------------------------------------------------------
(* duplicate.  Windows has no flag to try: WSADuplicateSocketW and         *)
(* WSASocketW take the place of F_DUPFD.                                   *)

CallDuplicate(t, g, h) ==
  /\ handle[g] # None
  /\ Enter(t, g, h, IF On("windows") THEN "dupfd" ELSE "load")

(* TRY_CLOEXEC.load(Relaxed): a thread may read an old value, but never    *)
(* one older than it has already seen.                                     *)
LoadTryCloexec(t) ==
  /\ pc[t] = "load"
  /\ \E seen \in {tryCloexec, view[t]} :
       /\ view' = [view EXCEPT ![t] = seen]
       /\ Goto(t, IF seen THEN "dupfd_cloexec" ELSE "dupfd")
  /\ UNCHANGED <<target, kernelVars, handle, raw, tryCloexec, src, dst, fd,
                 ghostVars>>

DupFdTrusting(t) ==                  \* mutant: the kernel's word is taken
  /\ pc[t] = "dupfd_cloexec"
  /\ KnowsDupCloexec
  /\ Open(t, table[handle[src[t]]], DupMarks, "return")
  /\ UNCHANGED <<target, handle, raw, flagVars>>

(* fcntl(F_DUPFD_CLOEXEC).  Linux marks the result once more, because some *)
(* kernels only report to have marked it; the others return it as it is.   *)
DupFdCloexec(t) ==
  /\ pc[t] = "dupfd_cloexec"
  /\ \/ /\ KnowsDupCloexec
        /\ Open(t, table[handle[src[t]]], DupMarks,
                IF On("linux") THEN "mark" ELSE "return")
     \/ /\ ~KnowsDupCloexec
        /\ Goto(t, "store")
        /\ probed' = probed \cup {t}
        /\ UNCHANGED <<kernelVars, src, dst, fd, want, of, lost>>
     \/ ReturnError(t)
  /\ UNCHANGED <<target, handle, raw, flagVars>>

StoreForgotten(t) ==                 \* mutant: the flag is not cleared
  /\ pc[t] = "store"
  /\ Goto(t, "dupfd")
  /\ UNCHANGED <<target, kernelVars, handle, raw, flagVars, src, dst, fd,
                 ghostVars>>

StoreTryCloexec(t) ==
  /\ pc[t] = "store"
  /\ tryCloexec' = FALSE
  /\ view' = [view EXCEPT ![t] = FALSE]
  /\ Goto(t, "dupfd")
  /\ UNCHANGED <<target, kernelVars, handle, raw, src, dst, fd, ghostVars>>

DupFd(t) ==
  /\ pc[t] = "dupfd"
  /\ \/ Open(t, table[handle[src[t]]], FALSE, "mark")
     \/ ReturnError(t)
  /\ UNCHANGED <<target, handle, raw, flagVars>>

-----------------------------------------------------------------------------
(* The common end of the three calls.                                      *)

SetCloexecForgetting(t) ==           \* mutant: an error skips the drop
  /\ pc[t] = "mark"
  /\ ReturnError(t)
  /\ UNCHANGED <<target, handle, raw, flagVars>>

(* set_cloexec (ioctl FIOCLEX, or F_GETFD and F_SETFD) and                 *)
(* set_no_inherit; when it fails the local FileDesc is dropped.            *)
SetCloexec(t) ==
  /\ pc[t] = "mark"
  /\ \/ /\ marked' = marked \cup {fd[t]}
        /\ Goto(t, IF On("apple") /\ src[t] = None THEN "nosigpipe"
                                                   ELSE "return")
     \/ /\ Goto(t, "close")
        /\ UNCHANGED marked
  /\ UNCHANGED <<target, table, handle, raw, flagVars, src, dst, fd,
                 ghostVars>>

(* Socket::new on Apple targets sets SO_NOSIGPIPE last.                    *)
SetNoSigpipe(t) ==
  /\ pc[t] = "nosigpipe"
  /\ \/ Goto(t, "return")
     \/ Goto(t, "close")
  /\ UNCHANGED <<target, kernelVars, handle, raw, flagVars, src, dst, fd,
                 ghostVars>>

(* The result moves out of the call into the caller's place.               *)
ReturnHandle(t) ==
  /\ pc[t] = "return"
  /\ handle' = [handle EXCEPT ![dst[t]] = fd[t]]
  /\ of' = [of EXCEPT ![dst[t]] = want[t]]
  /\ Finish(t)
  /\ UNCHANGED <<target, kernelVars, raw, flagVars, lost, probed>>

-----------------------------------------------------------------------------
(* Ends of life.  Rust lets a value be dropped or moved only while nothing *)
(* borrows it.                                                             *)

CallDrop(t, g) ==
  /\ pc[t] = "idle"
  /\ handle[g] # None
  /\ ~Borrowed(g)
  /\ handle' = [handle EXCEPT ![g] = None]
  /\ fd' = [fd EXCEPT ![t] = handle[g]]
  /\ want' = [want EXCEPT ![t] = of[g]]
  /\ of' = [of EXCEPT ![g] = None]
  /\ Goto(t, "close")
  /\ UNCHANGED <<target, kernelVars, raw, flagVars, src, dst, lost, probed>>

CloseRetried(t) ==                   \* mutant: close is called again on EINTR
  /\ pc[t] = "close"
  /\ table' = [table EXCEPT ![fd[t]] = None]
  /\ marked' = marked \ {fd[t]}
  /\ Finish(t) \/ UNCHANGED <<localVars, want>>
  /\ UNCHANGED <<target, handle, raw, flagVars, of, lost, probed>>

(* Drop for FileDesc and for Socket: close or closesocket, result ignored. *)
(* Off Linux kernels an error may also mean that it is still open.         *)
Close(t) ==
  /\ pc[t] = "close"
  /\ \/ /\ table' = [table EXCEPT ![fd[t]] = None]
        /\ marked' = marked \ {fd[t]}
        /\ UNCHANGED lost
     \/ /\ target.platform \notin {"linux", "android"}
        /\ lost' = lost \cup {fd[t]}
        /\ UNCHANGED kernelVars
  /\ Finish(t)
  /\ UNCHANGED <<target, handle, raw, flagVars, of, probed>>

IntoRawKept(h) ==                    \* mutant: no mem::forget
  /\ handle[h] # None
  /\ ~Borrowed(h)
  /\ raw' = [raw EXCEPT ![handle[h]] = of[h]]
  /\ UNCHANGED <<target, kernelVars, handle, flagVars, localVars, ghostVars>>

(* into_raw: the descriptor leaves the FileDesc, which is forgotten.       *)
IntoRaw(h) ==
  /\ handle[h] # None
  /\ ~Borrowed(h)
  /\ raw' = [raw EXCEPT ![handle[h]] = of[h]]
  /\ handle' = [handle EXCEPT ![h] = None]
  /\ of' = [of EXCEPT ![h] = None]
  /\ UNCHANGED <<target, kernelVars, flagVars, localVars, want, lost, probed>>

(* from_inner: a FileDesc takes over a descriptor its caller owns.         *)
FromInner(h, d) ==
  /\ raw[d] # None
  /\ Vacant(h)
  /\ handle' = [handle EXCEPT ![h] = d]
  /\ of' = [of EXCEPT ![h] = raw[d]]
  /\ raw' = [raw EXCEPT ![d] = None]
  /\ UNCHANGED <<target, kernelVars, flagVars, localVars, want, lost, probed>>

-----------------------------------------------------------------------------
(* The rest of the program.                                                *)

OtherOpen(d) ==
  /\ d \in FreeFds
  /\ \E f \in FreshFiles :
       /\ table' = [table EXCEPT ![d] = f]
       /\ raw' = [raw EXCEPT ![d] = f]
  /\ UNCHANGED <<target, marked, handle, flagVars, localVars, ghostVars>>

OtherClose(d) ==
  /\ raw[d] # None
  /\ table' = [table EXCEPT ![d] = None]
  /\ marked' = marked \ {d}
  /\ raw' = [raw EXCEPT ![d] = None]
  /\ UNCHANGED <<target, handle, flagVars, localVars, ghostVars>>

-----------------------------------------------------------------------------
Step(t) ==
  \/ SocketCloexec(t) \/ PlainSocket(t)
  \/ AcceptCloexec(t) \/ PlainAccept(t)
  \/ LoadTryCloexec(t) \/ DupFdCloexec(t) \/ StoreTryCloexec(t) \/ DupFd(t)
  \/ SetCloexec(t) \/ SetNoSigpipe(t) \/ ReturnHandle(t) \/ Close(t)

Call(t) ==
  \/ \E h \in Handles : CallNew(t, h)
  \/ \E g, h \in Handles : CallAccept(t, g, h)
  \/ \E g, h \in Handles : CallDuplicate(t, g, h)
  \/ \E g \in Handles : CallDrop(t, g)

Next ==
  \/ \E t \in Threads : Call(t) \/ Step(t)
  \/ \E h \in Handles : IntoRaw(h)
  \/ \E h \in Handles, d \in Fds : FromInner(h, d)
  \/ \E d \in Fds : OtherOpen(d) \/ OtherClose(d)

Spec == Init /\ [][Next]_vars

-----------------------------------------------------------------------------
(* Properties.                                                             *)

(* A descriptor never has two owners that would each close it: two live    *)
(* FileDesc values, the local FileDesc of a call, the other code that      *)
(* holds it as an integer, or nobody after a failed close.  This is what   *)
(* mem::forget in into_raw and the single close in Drop are for.           *)
NoSharedOwnership ==
  /\ \A g, h \in Handles : handle[g] # None /\ handle[g] = handle[h] => g = h
  /\ \A t, u \in Threads : fd[t] # None /\ fd[t] = fd[u] => t = u
  /\ \A h \in Handles, t \in Threads : handle[h] # None => handle[h] # fd[t]
  /\ \A d \in Fds : (\/ \E h \in Handles : handle[h] = d
                     \/ \E t \in Threads : fd[t] = d)
                    => raw[d] = None /\ d \notin lost
  /\ \A d \in lost : raw[d] = None

(* Whoever holds a descriptor number holds the file it was opened for,     *)
(* although numbers are reused: no live FileDesc, no running call and no   *)
(* other code ever finds its number closed or reopened for another file    *)
(* by a drop in this crate ("we might close another valid file             *)
(* descriptor", Drop for FileDesc).                                        *)
HeldDescriptorsAreValid ==
  /\ \A h \in Handles : handle[h] # None
                          => of[h] # None /\ table[handle[h]] = of[h]
  /\ \A t \in Threads : fd[t] # None
                          => want[t] # None /\ table[fd[t]] = want[t]
  /\ \A d \in Fds : raw[d] # None => table[d] = raw[d]
  /\ \A d \in lost : table[d] # None

(* Nothing leaks: an open descriptor has an owner that will close it, in   *)
(* particular after set_cloexec, set_no_inherit or setsockopt failed       *)
(* half-way through Socket::new, accept and duplicate.  Only a close that  *)
(* failed may leave one behind.                                            *)
NoLeak ==
  \A d \in Fds : table[d] # None =>
    \/ \E h \in Handles : handle[h] = d
    \/ \E t \in Threads : fd[t] = d
    \/ raw[d] # None
    \/ d \in lost

(* Ownership of descriptors: one owner each, valid in its hands, closed in *)
(* the end.  All three bear on every step that creates, moves or closes    *)
(* one: an owner too many closes a number twice, one too few leaks it.     *)
OwnershipIsSound == NoSharedOwnership /\ HeldDescriptorsAreValid /\ NoLeak

(* The call of t is about to return the descriptor it has made.            *)
Returning(t) == pc[t] \in {"nosigpipe", "return"}

(* It is one of the file t has borrowed: only duplicate makes such.        *)
IsDuplicate(t) == src[t] # None /\ want[t] = of[src[t]]

(* No call returns a descriptor a child process would inherit, whichever   *)
(* fallback the kernel forced it into ("ensure that CLOEXEC is still       *)
(* set").  The exception is duplicate on haiku, where F_DUPFD_CLOEXEC is   *)
(* F_DUPFD, is tried nevertheless, and nothing is marked afterwards.       *)
ReturnedIsMarked ==
  \A t \in Threads :
    Returning(t) => fd[t] \in marked \/ (On("haiku") /\ IsDuplicate(t))

(* "We want to atomically duplicate this file descriptor and set the       *)
(* CLOEXEC flag": on a Linux kernel with all three flags no descriptor of  *)
(* a running call can be inherited by a child that another thread starts.  *)
AtomicWhereSupported ==
  target.platform = "linux" /\ target.features = AllFeatures =>
    \A t \in Threads : fd[t] # None /\ pc[t] # "close" => fd[t] \in marked

(* Inheritance by children: nothing but a duplicate on haiku is returned   *)
(* unmarked, and with the kernel's help nothing is unmarked even before it *)
(* is returned.                                                            *)
NothingIsInherited == ReturnedIsMarked /\ AtomicWhereSupported

(* "so we stop trying that": a thread the kernel refused F_DUPFD_CLOEXEC   *)
(* once never asks for it again, although TRY_CLOEXEC is Relaxed.          *)
NoSecondProbe ==
  [][\A t \in probed : pc'[t] # "dupfd_cloexec"]_vars

=============================================================================
