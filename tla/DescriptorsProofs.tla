------------------------- MODULE DescriptorsProofs -------------------------
(***************************************************************************)
(* Proofs about Descriptors, for any number of threads, handles,           *)
(* descriptors and targets.                                                *)
(***************************************************************************)
EXTENDS Descriptors, TLAPS

(* What a thread holds at each program point.                              *)
Shape ==
  \A t \in Threads :
    /\ pc[t] \in {"mark", "nosigpipe", "return", "close"} <=> fd[t] # None
    /\ pc[t] = "idle" => src[t] = None /\ dst[t] = None
    /\ pc[t] \notin {"idle", "close"} => dst[t] # None
    /\ pc[t] \in {"accept4", "accept", "load", "dupfd_cloexec", "store", "dupfd"}
         => src[t] # None

(* A borrowed FileDesc is live: Rust drops and moves nothing borrowed.     *)
BorrowsAreLive ==
  \A t \in Threads : src[t] # None => handle[src[t]] # None

(* The place a result will be moved to is empty and reserved once.         *)
PlacesAreReserved ==
  /\ \A t \in Threads : dst[t] # None => handle[dst[t]] = None
  /\ \A t, u \in Threads : dst[t] # None /\ dst[t] = dst[u] => t = u

(* TRY_CLOEXEC and the views of it only ever go from TRUE to FALSE, and a  *)
(* refused thread is about to record or has recorded the refusal.  On      *)
(* Android it is never TRUE.                                               *)
FlagIsMonotone ==
  /\ \A t \in Threads : ~view[t] => ~tryCloexec
  /\ \A t \in Threads : pc[t] = "dupfd_cloexec" => view[t]
  /\ \A t \in probed : pc[t] = "store" \/ ~view[t]
  /\ target.platform = "android" => \A t \in Threads : ~view[t]

(* On a Linux kernel with every feature no thread needs a fallback.        *)
NoFallback ==
  target.platform = "linux" /\ target.features = AllFeatures =>
    /\ tryCloexec
    /\ \A t \in Threads : view[t] /\ pc[t] \notin {"socket", "accept", "store", "dupfd"}
    /\ \A t \in Threads : pc[t] = "mark" => fd[t] \in marked

IInv ==
  /\ TypeOK
  /\ Shape
  /\ BorrowsAreLive
  /\ PlacesAreReserved
  /\ FlagIsMonotone
  /\ NoFallback
  /\ NoSharedOwnership
  /\ HeldDescriptorsAreValid
  /\ NoLeak
  /\ ReturnedIsMarked

-----------------------------------------------------------------------------
(* One lemma for each kind of step.                                        *)

(* The first step of a call that will return a FileDesc: its place is      *)
(* reserved and the FileDesc it borrows is live.                           *)
LEMMA EnterStep ==
  ASSUME IInv, NEW t \in Threads,
         NEW g \in Handles \cup {None}, NEW h \in Handles,
         NEW point \in {"socket_cloexec", "socket", "accept4", "accept",
                        "load", "dupfd"},
         Enter(t, g, h, point),
         g # None => handle[g] # None,
         point \notin {"socket_cloexec", "socket"} => g # None,
         target.platform = "linux" => point \notin {"socket", "accept", "dupfd"}
  PROVE  IInv'
  <1> USE DEF Returning, IsDuplicate, On
  <1> USE DEF IInv, Enter, Goto, kernelVars, ghostVars, localVars, flagVars
  <1>1. (BorrowsAreLive /\ FlagIsMonotone /\ NoFallback /\
         NoSharedOwnership /\ HeldDescriptorsAreValid /\ NoLeak /\
         ReturnedIsMarked)'
    BY DEF BorrowsAreLive, FlagIsMonotone, NoFallback, NoSharedOwnership,
           HeldDescriptorsAreValid, NoLeak, ReturnedIsMarked
  <1>2. TypeOK'
    BY DEF TypeOK, ProgramPoints
  <1>3. Shape'
    BY NoneAssumption DEF Shape, TypeOK
  <1>4. PlacesAreReserved'
    BY DEF PlacesAreReserved, Vacant
  <1>5. QED
    BY <1>1, <1>2, <1>3, <1>4

(* A system call that opens a descriptor failed: nothing was opened.       *)
LEMMA ErrorStep ==
  ASSUME IInv, NEW t \in Threads, ReturnError(t),
         pc[t] \in {"socket_cloexec", "socket", "accept4", "accept",
                    "dupfd_cloexec", "dupfd"},
         UNCHANGED <<target, handle, raw, flagVars>>
  PROVE  IInv'
  <1> USE DEF Returning, IsDuplicate, On
  <1> USE DEF IInv, ReturnError, Finish, Goto, kernelVars, ghostVars, localVars, flagVars
  <1>1. (BorrowsAreLive /\ PlacesAreReserved /\ FlagIsMonotone /\
         NoFallback /\ ReturnedIsMarked)'
    BY DEF BorrowsAreLive, PlacesAreReserved, FlagIsMonotone, NoFallback,
           ReturnedIsMarked
  <1>2. TypeOK'
    BY DEF TypeOK, ProgramPoints
  <1>3. Shape'
    BY DEF Shape, TypeOK
  <1>4. NoSharedOwnership'
    BY DEF NoSharedOwnership, Shape
  <1>5. HeldDescriptorsAreValid'
    BY DEF HeldDescriptorsAreValid, TypeOK
  <1>6. NoLeak'
    BY DEF NoLeak, Shape
  <1>7. QED
    BY <1>1, <1>2, <1>3, <1>4, <1>5, <1>6

(* A system call opened a descriptor for a call that held none.  A call    *)
(* that returns it at once must have had it marked, or is duplicate on     *)
(* haiku.                                                                  *)
LEMMA OpenStep ==
  ASSUME IInv, NEW t \in Threads, NEW f \in Files, NEW mark \in BOOLEAN,
         NEW next \in {"mark", "return"}, Open(t, f, mark, next),
         pc[t] \in {"socket_cloexec", "socket", "accept4", "accept",
                    "dupfd_cloexec", "dupfd"},
         next = "return" => \/ mark
                            \/ /\ On("haiku") /\ src[t] # None
                               /\ f = of[src[t]],
         target.platform = "linux" /\ target.features = AllFeatures => mark,
         UNCHANGED <<target, handle, raw, flagVars>>
  PROVE  IInv'
  <1> USE DEF Returning, IsDuplicate, On
  <1> USE DEF IInv, Open, Goto, kernelVars, ghostVars, localVars, flagVars
  <1>1. (BorrowsAreLive /\ PlacesAreReserved /\ FlagIsMonotone)'
    BY DEF BorrowsAreLive, PlacesAreReserved, FlagIsMonotone
  <1>2. TypeOK'
    BY DEF TypeOK, ProgramPoints, FreeFds
  <1>3. Shape'
    BY NoneAssumption DEF Shape, TypeOK, FreeFds
  <1>4. NoFallback'
    BY DEF NoFallback, TypeOK
  <1>5. NoSharedOwnership'
    BY DEF NoSharedOwnership, HeldDescriptorsAreValid, FreeFds
  <1>6. HeldDescriptorsAreValid'
    BY NoneAssumption DEF HeldDescriptorsAreValid, TypeOK, FreeFds
  <1>7. NoLeak'
    BY NoneAssumption DEF NoLeak, TypeOK, Shape
  <1>8. ReturnedIsMarked'
    BY DEF ReturnedIsMarked, TypeOK
  <1>9. QED
    BY <1>1, <1>2, <1>3, <1>4, <1>5, <1>6, <1>7, <1>8

(* A failed flag, and SO_NOSIGPIPE: a thread only moves on.                *)
LEMMA MoveStep ==
  ASSUME IInv, NEW t \in Threads, NEW point, Goto(t, point),
         \/ pc[t] = "socket_cloexec" /\ point = "socket" /\ ~Knows("SOCK_CLOEXEC")
         \/ pc[t] = "accept4" /\ point = "accept" /\ ~Knows("accept4")
         \/ pc[t] = "nosigpipe" /\ point \in {"return", "close"},
         UNCHANGED <<target, kernelVars, handle, raw, flagVars, src, dst, fd,
                     ghostVars>>
  PROVE  IInv'
  <1> USE DEF Returning, IsDuplicate, On
  <1> USE DEF IInv, Goto, kernelVars, ghostVars, localVars, flagVars
  <1>1. (Shape /\ BorrowsAreLive /\ PlacesAreReserved /\ FlagIsMonotone /\
         NoSharedOwnership /\ HeldDescriptorsAreValid /\ NoLeak /\
         ReturnedIsMarked)'
    BY DEF Shape, BorrowsAreLive, PlacesAreReserved, FlagIsMonotone,
           NoSharedOwnership, HeldDescriptorsAreValid, NoLeak,
           ReturnedIsMarked
  <1>2. TypeOK'
    BY DEF TypeOK, ProgramPoints
  <1>3. NoFallback'
    BY DEF NoFallback, Knows, AllFeatures
  <1>4. QED
    BY <1>1, <1>2, <1>3

(* The kernel refused F_DUPFD_CLOEXEC: the thread is about to record it.   *)
LEMMA RefusedStep ==
  ASSUME IInv, NEW t \in Threads, DupFdCloexec(t),
         ~KnowsDupCloexec, Goto(t, "store"),
         probed' = probed \cup {t},
         UNCHANGED <<kernelVars, src, dst, fd, want, of, lost>>
  PROVE  IInv'
  <1> USE DEF Returning, IsDuplicate, On
  <1> USE DEF IInv, Goto, kernelVars
  <1>1. pc[t] = "dupfd_cloexec" /\ UNCHANGED <<target, handle, raw, flagVars>>
    BY DEF DupFdCloexec
  <1>2. (PlacesAreReserved /\ BorrowsAreLive)'
    BY <1>1 DEF PlacesAreReserved, BorrowsAreLive
  <1>3. TypeOK'
    BY <1>1 DEF TypeOK, ProgramPoints, flagVars
  <1>4. Shape'
    BY <1>1 DEF Shape
  <1>5. FlagIsMonotone'
    BY <1>1 DEF FlagIsMonotone, TypeOK, flagVars
  <1>6. NoFallback'
    BY <1>1 DEF NoFallback, KnowsDupCloexec, Knows, AllFeatures, flagVars
  <1>7. (NoSharedOwnership /\ HeldDescriptorsAreValid /\ NoLeak)'
    BY <1>1 DEF NoSharedOwnership, HeldDescriptorsAreValid, NoLeak
  <1>8. ReturnedIsMarked'
    BY <1>1 DEF ReturnedIsMarked
  <1>9. QED
    BY <1>2, <1>3, <1>4, <1>5, <1>6, <1>7, <1>8

(* Reading the flag, perhaps an old value of it, shows no more than what   *)
(* the thread may rely on.                                                 *)
LEMMA LoadTryCloexecStep ==
  ASSUME IInv, NEW t \in Threads, LoadTryCloexec(t)
  PROVE  IInv'
  <1> USE DEF Returning, IsDuplicate, On
  <1> USE DEF IInv, LoadTryCloexec, Goto, kernelVars, ghostVars, localVars, flagVars
  <1>1. (Shape /\ BorrowsAreLive /\ PlacesAreReserved /\ FlagIsMonotone /\
         NoSharedOwnership /\ HeldDescriptorsAreValid /\ NoLeak /\
         ReturnedIsMarked)'
    BY DEF Shape, BorrowsAreLive, PlacesAreReserved, FlagIsMonotone,
           NoSharedOwnership, HeldDescriptorsAreValid, NoLeak,
           ReturnedIsMarked
  <1>2. TypeOK'
    BY DEF TypeOK, ProgramPoints
  <1>3. NoFallback'
    <2>1. PICK seen \in {tryCloexec, view[t]} :
            /\ view' = [view EXCEPT ![t] = seen]
            /\ Goto(t, IF seen THEN "dupfd_cloexec" ELSE "dupfd")
      BY DEF LoadTryCloexec
    <2>2. CASE seen = tryCloexec
      BY <2>1, <2>2 DEF NoFallback, TypeOK
    <2>3. CASE seen = view[t]
      BY <2>1, <2>3 DEF NoFallback, TypeOK
    <2>4. QED
      BY <2>1, <2>2, <2>3
  <1>4. QED
    BY <1>1, <1>2, <1>3

(* The refusal is recorded before the thread forgets it.                   *)
LEMMA StoreTryCloexecStep ==
  ASSUME IInv, NEW t \in Threads, StoreTryCloexec(t)
  PROVE  IInv'
  <1> USE DEF Returning, IsDuplicate, On
  <1> USE DEF IInv, StoreTryCloexec, Goto, kernelVars, ghostVars, localVars, flagVars
  <1>1. (Shape /\ BorrowsAreLive /\ PlacesAreReserved /\ NoFallback /\
         NoSharedOwnership /\ HeldDescriptorsAreValid /\ NoLeak /\
         ReturnedIsMarked)'
    BY DEF Shape, BorrowsAreLive, PlacesAreReserved, NoFallback,
           NoSharedOwnership, HeldDescriptorsAreValid, NoLeak,
           ReturnedIsMarked
  <1>2. TypeOK'
    BY DEF TypeOK, ProgramPoints
  <1>3. FlagIsMonotone'
    BY DEF FlagIsMonotone, TypeOK
  <1>4. QED
    BY <1>1, <1>2, <1>3

(* From here on the descriptor is marked, or about to be closed.           *)
LEMMA SetCloexecStep ==
  ASSUME IInv, NEW t \in Threads, SetCloexec(t)
  PROVE  IInv'
  <1> USE DEF Returning, IsDuplicate, On
  <1> USE DEF IInv, SetCloexec, Goto, kernelVars, ghostVars, localVars, flagVars
  <1>1. (BorrowsAreLive /\ PlacesAreReserved /\ NoSharedOwnership /\
         HeldDescriptorsAreValid /\ NoLeak)'
    BY DEF BorrowsAreLive, PlacesAreReserved, NoSharedOwnership,
           HeldDescriptorsAreValid, NoLeak
  <1>2. TypeOK'
    BY DEF TypeOK, Shape, ProgramPoints
  <1>3. Shape'
    BY DEF Shape, TypeOK
  <1>4. FlagIsMonotone'
    BY DEF FlagIsMonotone, TypeOK
  <1>5. NoFallback'
    BY DEF NoFallback, TypeOK
  <1>6. ReturnedIsMarked'
    BY DEF ReturnedIsMarked, TypeOK
  <1>7. QED
    BY <1>1, <1>2, <1>3, <1>4, <1>5, <1>6

(* Ownership moves from the call to the caller.                            *)
LEMMA ReturnHandleStep ==
  ASSUME IInv, NEW t \in Threads, ReturnHandle(t)
  PROVE  IInv'
  <1> USE DEF Returning, IsDuplicate, On
  <1> USE DEF IInv, ReturnHandle, Finish, Goto, kernelVars, ghostVars, localVars, flagVars
  <1>1. (FlagIsMonotone /\ NoFallback)'
    BY DEF FlagIsMonotone, NoFallback
  <1>2. TypeOK'
    BY DEF TypeOK, ProgramPoints
  <1>3. Shape'
    BY DEF Shape, TypeOK
  <1>4. BorrowsAreLive'
    BY DEF BorrowsAreLive, Shape
  <1>5. PlacesAreReserved'
    BY DEF PlacesAreReserved, TypeOK
  <1>6. NoSharedOwnership'
    BY NoneAssumption DEF NoSharedOwnership, TypeOK
  <1>7. HeldDescriptorsAreValid'
    BY DEF HeldDescriptorsAreValid, TypeOK
  <1>8. NoLeak'
    BY DEF NoLeak, TypeOK, Shape, PlacesAreReserved
  <1>9. ReturnedIsMarked'
    <2>1. \A u \in Threads : src[u] # None => dst[t] # src[u]
      BY DEF PlacesAreReserved, BorrowsAreLive, Shape
    <2>2. QED
      BY <2>1 DEF ReturnedIsMarked, TypeOK
  <1>10. QED
    BY <1>1, <1>2, <1>3, <1>4, <1>5, <1>6, <1>7, <1>8, <1>9

(* Ownership moves from a live FileDesc to drop.                           *)
LEMMA CallDropStep ==
  ASSUME IInv, NEW t \in Threads, NEW g \in Handles, CallDrop(t, g)
  PROVE  IInv'
  <1> USE DEF Returning, IsDuplicate, On
  <1> USE DEF IInv, CallDrop, Goto, kernelVars, ghostVars, localVars, flagVars
  <1>1. (PlacesAreReserved /\ FlagIsMonotone /\ NoFallback)'
    BY DEF PlacesAreReserved, FlagIsMonotone, NoFallback
  <1>2. TypeOK'
    BY DEF TypeOK, ProgramPoints
  <1>3. Shape'
    BY DEF Shape, TypeOK
  <1>4. BorrowsAreLive'
    BY DEF BorrowsAreLive, Borrowed
  <1>5. NoSharedOwnership'
    BY DEF NoSharedOwnership, TypeOK, Shape, ProgramPoints
  <1>6. HeldDescriptorsAreValid'
    BY DEF HeldDescriptorsAreValid, TypeOK
  <1>7. NoLeak'
    BY DEF NoLeak, TypeOK, Shape
  <1>8. ReturnedIsMarked'
    BY DEF ReturnedIsMarked, TypeOK, Borrowed
  <1>9. QED
    BY <1>1, <1>2, <1>3, <1>4, <1>5, <1>6, <1>7, <1>8

(* The number is given back to the kernel: nobody else may hold it.        *)
LEMMA CloseStep ==
  ASSUME IInv, NEW t \in Threads, Close(t)
  PROVE  IInv'
  <1> USE DEF Returning, IsDuplicate, On
  <1> USE DEF IInv, Close, Finish, Goto, kernelVars, ghostVars, localVars, flagVars
  <1>1. (BorrowsAreLive /\ PlacesAreReserved /\ FlagIsMonotone)'
    BY DEF BorrowsAreLive, PlacesAreReserved, FlagIsMonotone
  <1>2. TypeOK'
    BY DEF TypeOK, Shape, ProgramPoints
  <1>3. Shape'
    BY DEF Shape, TypeOK
  <1>4. NoFallback'
    BY DEF NoFallback, Shape, NoSharedOwnership
  <1>5. NoSharedOwnership'
    BY NoneAssumption DEF NoSharedOwnership, TypeOK, Shape
  <1>6. HeldDescriptorsAreValid'
    BY DEF HeldDescriptorsAreValid, TypeOK, Shape, NoSharedOwnership
  <1>7. NoLeak'
    BY DEF NoLeak, TypeOK
  <1>8. ReturnedIsMarked'
    BY DEF ReturnedIsMarked, Shape, NoSharedOwnership
  <1>9. QED
    BY <1>1, <1>2, <1>3, <1>4, <1>5, <1>6, <1>7, <1>8

(* Ownership moves to code outside, and back.                              *)
LEMMA IntoRawStep ==
  ASSUME IInv, NEW h \in Handles, IntoRaw(h)
  PROVE  IInv'
  <1> USE DEF Returning, IsDuplicate, On
  <1> USE DEF IInv, IntoRaw, kernelVars, ghostVars, localVars, flagVars
  <1>1. (TypeOK /\ Shape /\ PlacesAreReserved /\ FlagIsMonotone /\
         NoFallback)'
    BY DEF TypeOK, Shape, PlacesAreReserved, FlagIsMonotone, NoFallback
  <1>2. BorrowsAreLive'
    BY DEF BorrowsAreLive, Borrowed
  <1>3. NoSharedOwnership'
    BY NoneAssumption DEF NoSharedOwnership, TypeOK
  <1>4. HeldDescriptorsAreValid'
    BY DEF HeldDescriptorsAreValid, TypeOK
  <1>5. NoLeak'
    BY DEF NoLeak, TypeOK, HeldDescriptorsAreValid
  <1>6. ReturnedIsMarked'
    BY DEF ReturnedIsMarked, TypeOK, Borrowed
  <1>7. QED
    BY <1>1, <1>2, <1>3, <1>4, <1>5, <1>6

LEMMA FromInnerStep ==
  ASSUME IInv, NEW h \in Handles, NEW d \in Fds, FromInner(h, d)
  PROVE  IInv'
  <1> USE DEF Returning, IsDuplicate, On
  <1> USE DEF IInv, FromInner, kernelVars, ghostVars, localVars, flagVars
  <1>1. (TypeOK /\ Shape /\ FlagIsMonotone /\ NoFallback)'
    BY DEF TypeOK, Shape, FlagIsMonotone, NoFallback
  <1>2. BorrowsAreLive'
    BY NoneAssumption DEF BorrowsAreLive
  <1>3. PlacesAreReserved'
    BY DEF PlacesAreReserved, Vacant
  <1>4. NoSharedOwnership'
    BY DEF NoSharedOwnership, TypeOK
  <1>5. HeldDescriptorsAreValid'
    BY DEF HeldDescriptorsAreValid, TypeOK
  <1>6. NoLeak'
    BY NoneAssumption DEF NoLeak, TypeOK, Vacant
  <1>7. ReturnedIsMarked'
    BY DEF ReturnedIsMarked, TypeOK, BorrowsAreLive, Vacant
  <1>8. QED
    BY <1>1, <1>2, <1>3, <1>4, <1>5, <1>6, <1>7

(* The kernel hands the rest of the program numbers nobody holds, and the  *)
(* rest of the program closes only what it holds.                          *)
LEMMA OtherOpenStep ==
  ASSUME IInv, NEW d \in Fds, OtherOpen(d)
  PROVE  IInv'
  <1> USE DEF Returning, IsDuplicate, On
  <1> USE DEF IInv, OtherOpen, kernelVars, ghostVars, localVars, flagVars
  <1>1. (Shape /\ BorrowsAreLive /\ PlacesAreReserved /\ FlagIsMonotone /\
         NoFallback /\ ReturnedIsMarked)'
    BY DEF Shape, BorrowsAreLive, PlacesAreReserved, FlagIsMonotone,
           NoFallback, ReturnedIsMarked
  <1>2. TypeOK'
    BY DEF TypeOK, FreshFiles
  <1>3. NoSharedOwnership'
    BY NoneAssumption DEF NoSharedOwnership, HeldDescriptorsAreValid, FreeFds
  <1>4. HeldDescriptorsAreValid'
    BY DEF HeldDescriptorsAreValid, TypeOK, FreeFds
  <1>5. NoLeak'
    BY DEF NoLeak, TypeOK
  <1>6. QED
    BY <1>1, <1>2, <1>3, <1>4, <1>5

LEMMA OtherCloseStep ==
  ASSUME IInv, NEW d \in Fds, OtherClose(d)
  PROVE  IInv'
  <1> USE DEF Returning, IsDuplicate, On
  <1> USE DEF IInv, OtherClose, kernelVars, ghostVars, localVars, flagVars
  <1>1. (TypeOK /\ Shape /\ BorrowsAreLive /\ PlacesAreReserved /\
         FlagIsMonotone /\ NoSharedOwnership)'
    BY DEF TypeOK, Shape, BorrowsAreLive, PlacesAreReserved, FlagIsMonotone,
           NoSharedOwnership
  <1>2. NoFallback'
    BY DEF NoFallback, NoSharedOwnership
  <1>3. HeldDescriptorsAreValid'
    BY DEF HeldDescriptorsAreValid, TypeOK, NoSharedOwnership
  <1>4. NoLeak'
    BY DEF NoLeak, TypeOK
  <1>5. ReturnedIsMarked'
    BY DEF ReturnedIsMarked, NoSharedOwnership
  <1>6. QED
    BY <1>1, <1>2, <1>3, <1>4, <1>5

(* Stuttering steps.                                                       *)
LEMMA StutterStep ==
  ASSUME IInv, UNCHANGED vars
  PROVE  IInv'
  <1> USE DEF Returning, IsDuplicate, On
  <1> USE DEF IInv, vars, kernelVars, ghostVars, localVars, flagVars
  <1>1. (TypeOK /\ Shape /\ BorrowsAreLive /\ PlacesAreReserved /\
         FlagIsMonotone /\ NoFallback /\ NoSharedOwnership /\
         HeldDescriptorsAreValid /\ NoLeak /\ ReturnedIsMarked)'
    BY DEF TypeOK, Shape, BorrowsAreLive, PlacesAreReserved, FlagIsMonotone,
           NoFallback, NoSharedOwnership, HeldDescriptorsAreValid, NoLeak,
           ReturnedIsMarked
  <1>2. QED
    BY <1>1

-----------------------------------------------------------------------------
(* The actions of the module, one lemma for each call.                     *)

LEMMA CallStep ==
  ASSUME IInv, NEW t \in Threads, Call(t)
  PROVE  IInv'
  <1>1. ASSUME NEW h \in Handles, CallNew(t, h)
        PROVE  IInv'
    <2>1. CASE On("linux")
      <3>1. Enter(t, None, h, "socket_cloexec")
        BY <1>1, <2>1 DEF CallNew
      <3>2. QED
        BY <3>1, EnterStep
    <2>2. CASE ~On("linux")
      <3>1. Enter(t, None, h, "socket")
        BY <1>1, <2>2 DEF CallNew
      <3>2. QED
        BY <2>2, <3>1, EnterStep DEF On
    <2>3. QED
      BY <2>1, <2>2
  <1>2. ASSUME NEW g \in Handles, NEW h \in Handles, CallAccept(t, g, h)
        PROVE  IInv'
    <2>1. handle[g] # None /\ g # None
      BY <1>2, NoneAssumption DEF CallAccept
    <2>2. CASE On("linux")
      <3>1. Enter(t, g, h, "accept4")
        BY <1>2, <2>2 DEF CallAccept
      <3>2. QED
        BY <2>1, <3>1, EnterStep
    <2>3. CASE ~On("linux")
      <3>1. Enter(t, g, h, "accept")
        BY <1>2, <2>3 DEF CallAccept
      <3>2. QED
        BY <2>1, <2>3, <3>1, EnterStep DEF On
    <2>4. QED
      BY <2>2, <2>3
  <1>3. ASSUME NEW g \in Handles, NEW h \in Handles, CallDuplicate(t, g, h)
        PROVE  IInv'
    <2>1. handle[g] # None /\ g # None
      BY <1>3, NoneAssumption DEF CallDuplicate
    <2>2. CASE On("windows")
      <3>1. Enter(t, g, h, "dupfd")
        BY <1>3, <2>2 DEF CallDuplicate
      <3>2. target.platform # "linux"
        BY <2>2 DEF On
      <3>3. QED
        BY <2>1, <3>1, <3>2, EnterStep
    <2>3. CASE ~On("windows")
      <3>1. Enter(t, g, h, "load")
        BY <1>3, <2>3 DEF CallDuplicate
      <3>2. QED
        BY <2>1, <3>1, EnterStep
    <2>4. QED
      BY <2>2, <2>3
  <1>4. ASSUME NEW g \in Handles, CallDrop(t, g)
        PROVE  IInv'
    BY <1>4, CallDropStep
  <1>5. QED
    BY <1>1, <1>2, <1>3, <1>4 DEF Call

LEMMA SocketStep ==
  ASSUME IInv, NEW t \in Threads, SocketCloexec(t) \/ PlainSocket(t)
  PROVE  IInv'
  <1>1. CASE SocketCloexec(t)
    <2>1. pc[t] = "socket_cloexec" /\ UNCHANGED <<target, handle, raw, flagVars>>
      BY <1>1 DEF SocketCloexec
    <2>2. CASE \E f \in FreshFiles : Open(t, f, TRUE, "return")
      BY <2>1, <2>2, OpenStep DEF FreshFiles
    <2>3. CASE /\ ~Knows("SOCK_CLOEXEC")
               /\ Goto(t, "socket")
               /\ UNCHANGED <<kernelVars, src, dst, fd, ghostVars>>
      BY <2>1, <2>3, MoveStep
    <2>4. CASE ReturnError(t)
      BY <2>1, <2>4, ErrorStep
    <2>5. QED
      BY <1>1, <2>2, <2>3, <2>4 DEF SocketCloexec
  <1>2. CASE PlainSocket(t)
    <2>1. pc[t] = "socket" /\ UNCHANGED <<target, handle, raw, flagVars>>
      BY <1>2 DEF PlainSocket
    <2>2. ~(target.platform = "linux" /\ target.features = AllFeatures)
      BY <2>1 DEF IInv, NoFallback
    <2>3. CASE \E f \in FreshFiles : Open(t, f, FALSE, "mark")
      BY <2>1, <2>2, <2>3, OpenStep DEF FreshFiles
    <2>4. CASE ReturnError(t)
      BY <2>1, <2>4, ErrorStep
    <2>5. QED
      BY <1>2, <2>3, <2>4 DEF PlainSocket
  <1>3. QED
    BY <1>1, <1>2

LEMMA AcceptStep ==
  ASSUME IInv, NEW t \in Threads, AcceptCloexec(t) \/ PlainAccept(t)
  PROVE  IInv'
  <1>1. CASE AcceptCloexec(t)
    <2>1. pc[t] = "accept4" /\ UNCHANGED <<target, handle, raw, flagVars>>
      BY <1>1 DEF AcceptCloexec
    <2>2. CASE \E f \in FreshFiles : Open(t, f, TRUE, "return")
      BY <2>1, <2>2, OpenStep DEF FreshFiles
    <2>3. CASE /\ ~Knows("accept4")
               /\ Goto(t, "accept")
               /\ UNCHANGED <<kernelVars, src, dst, fd, ghostVars>>
      BY <2>1, <2>3, MoveStep
    <2>4. CASE ReturnError(t)
      BY <2>1, <2>4, ErrorStep
    <2>5. QED
      BY <1>1, <2>2, <2>3, <2>4 DEF AcceptCloexec
  <1>2. CASE PlainAccept(t)
    <2>1. pc[t] = "accept" /\ UNCHANGED <<target, handle, raw, flagVars>>
      BY <1>2 DEF PlainAccept
    <2>2. ~(target.platform = "linux" /\ target.features = AllFeatures)
      BY <2>1 DEF IInv, NoFallback
    <2>3. CASE \E f \in FreshFiles : Open(t, f, FALSE, "mark")
      BY <2>1, <2>2, <2>3, OpenStep DEF FreshFiles
    <2>4. CASE ReturnError(t)
      BY <2>1, <2>4, ErrorStep
    <2>5. QED
      BY <1>2, <2>3, <2>4 DEF PlainAccept
  <1>3. QED
    BY <1>1, <1>2

(* A duplicate is of the file its live, borrowed original is of.           *)
LEMMA BorrowedFile ==
  ASSUME IInv, NEW t \in Threads, pc[t] \in {"dupfd_cloexec", "dupfd"}
  PROVE  /\ src[t] # None
         /\ table[handle[src[t]]] \in Files
         /\ table[handle[src[t]]] = of[src[t]]
  BY NoneAssumption
  DEF IInv, TypeOK, Shape, BorrowsAreLive, HeldDescriptorsAreValid

LEMMA DuplicateStep ==
  ASSUME IInv, NEW t \in Threads, DupFdCloexec(t) \/ DupFd(t)
  PROVE  IInv'
  <1>1. CASE DupFdCloexec(t)
    <2>1. pc[t] = "dupfd_cloexec" /\ UNCHANGED <<target, handle, raw, flagVars>>
      BY <1>1 DEF DupFdCloexec
    <2>2. CASE /\ KnowsDupCloexec
               /\ Open(t, table[handle[src[t]]], DupMarks,
                       IF On("linux") THEN "mark" ELSE "return")
      <3>1. table[handle[src[t]]] \in Files
        BY <2>1, BorrowedFile
      <3>2. DupMarks \in BOOLEAN
        BY DEF DupMarks, Knows, IsPlainDupFd, On
      <3>3. On("linux") /\ target.features = AllFeatures => DupMarks
        BY DEF DupMarks, IsPlainDupFd, On, Knows, AllFeatures
      <3>4. CASE On("linux")
        <4>1. Open(t, table[handle[src[t]]], DupMarks, "mark")
          BY <2>2, <3>4
        <4>2. QED
          BY <2>1, <3>1, <3>2, <3>3, <3>4, <4>1, OpenStep
      <3>5. CASE ~On("linux")
        <4>1. Open(t, table[handle[src[t]]], DupMarks, "return")
          BY <2>2, <3>5
        <4>2. DupMarks \/ On("haiku")
          BY <2>1, <2>2, <3>5, MarksAssumption
          DEF IInv, TypeOK, FlagIsMonotone, On, Knows,
              DupMarks, KnowsDupCloexec, IsPlainDupFd
        <4>3. src[t] # None /\ table[handle[src[t]]] = of[src[t]]
          BY <2>1, BorrowedFile
        <4>4. ~(target.platform = "linux" /\ target.features = AllFeatures)
          BY <3>5 DEF On
        <4>5. QED
          BY <2>1, <3>1, <3>2, <4>1, <4>2, <4>3, <4>4, OpenStep
      <3>6. QED
        BY <3>4, <3>5
    <2>3. CASE /\ ~KnowsDupCloexec
               /\ Goto(t, "store")
               /\ probed' = probed \cup {t}
               /\ UNCHANGED <<kernelVars, src, dst, fd, want, of, lost>>
      BY <1>1, <2>3, RefusedStep
    <2>4. CASE ReturnError(t)
      BY <2>1, <2>4, ErrorStep
    <2>5. QED
      BY <1>1, <2>2, <2>3, <2>4 DEF DupFdCloexec
  <1>2. CASE DupFd(t)
    <2>1. pc[t] = "dupfd" /\ UNCHANGED <<target, handle, raw, flagVars>>
      BY <1>2 DEF DupFd
    <2>2. ~(target.platform = "linux" /\ target.features = AllFeatures)
      BY <2>1 DEF IInv, NoFallback
    <2>3. CASE Open(t, table[handle[src[t]]], FALSE, "mark")
      <3>1. table[handle[src[t]]] \in Files
        BY <2>1, BorrowedFile
      <3>2. QED
        BY <2>1, <2>2, <2>3, <3>1, OpenStep
    <2>4. CASE ReturnError(t)
      BY <2>1, <2>4, ErrorStep
    <2>5. QED
      BY <1>2, <2>3, <2>4 DEF DupFd
  <1>3. QED
    BY <1>1, <1>2

LEMMA SetNoSigpipeStep ==
  ASSUME IInv, NEW t \in Threads, SetNoSigpipe(t)
  PROVE  IInv'
  BY MoveStep DEF SetNoSigpipe

LEMMA ThreadStep ==
  ASSUME IInv, NEW t \in Threads, Step(t)
  PROVE  IInv'
  BY SocketStep, AcceptStep, LoadTryCloexecStep, DuplicateStep,
     StoreTryCloexecStep, SetCloexecStep, SetNoSigpipeStep, ReturnHandleStep,
     CloseStep
  DEF Step

-----------------------------------------------------------------------------
(* The program starts with no descriptors: the invariant holds at first.   *)
LEMMA Initially == Init => IInv
  <1> SUFFICES ASSUME Init PROVE IInv
    OBVIOUS
  <1> USE DEF Init
  <1>1. TypeOK
    BY DEF TypeOK, ProgramPoints, On
  <1>2. Shape /\ BorrowsAreLive /\ PlacesAreReserved
    BY DEF Shape, BorrowsAreLive, PlacesAreReserved
  <1>3. FlagIsMonotone /\ NoFallback
    BY DEF FlagIsMonotone, NoFallback, On
  <1>4. NoSharedOwnership /\ HeldDescriptorsAreValid /\ NoLeak
    BY DEF NoSharedOwnership, HeldDescriptorsAreValid, NoLeak
  <1>5. ReturnedIsMarked
    BY DEF ReturnedIsMarked, Returning
  <1>6. QED
    BY <1>1, <1>2, <1>3, <1>4, <1>5 DEF IInv

(* Every step keeps it.                                                    *)
LEMMA Inductive == IInv /\ [Next]_vars => IInv'
  <1> SUFFICES ASSUME IInv, [Next]_vars PROVE IInv'
    OBVIOUS
  <1>1. ASSUME NEW t \in Threads, Call(t) \/ Step(t)
        PROVE  IInv'
    BY <1>1, CallStep, ThreadStep
  <1>2. ASSUME NEW h \in Handles, IntoRaw(h)
        PROVE  IInv'
    BY <1>2, IntoRawStep
  <1>3. ASSUME NEW h \in Handles, NEW d \in Fds, FromInner(h, d)
        PROVE  IInv'
    BY <1>3, FromInnerStep
  <1>4. ASSUME NEW d \in Fds, OtherOpen(d) \/ OtherClose(d)
        PROVE  IInv'
    BY <1>4, OtherOpenStep, OtherCloseStep
  <1>5. CASE UNCHANGED vars
    BY <1>5, StutterStep
  <1>6. QED
    BY <1>1, <1>2, <1>3, <1>4, <1>5 DEF Next

(* The inductive invariant of the ownership of descriptors.                *)
THEOREM Invariance == Spec => []IInv
  BY Initially, Inductive, PTL DEF Spec

(* Every variable keeps its type, on every platform.                       *)
THEOREM TypeCorrect == Spec => []TypeOK
  <1>1. IInv => TypeOK
    BY DEF IInv
  <1>2. QED
    BY <1>1, Invariance, PTL

(* No descriptor has two owners: mem::forget in into_raw and the single    *)
(* close of Drop are enough, for any number of threads.                    *)
THEOREM OwnershipIsExclusive == Spec => []NoSharedOwnership
  <1>1. IInv => NoSharedOwnership
    BY DEF IInv
  <1>2. QED
    BY <1>1, Invariance, PTL

(* Nobody holds a number that was closed or reopened behind their back.    *)
THEOREM HeldIsValid == Spec => []HeldDescriptorsAreValid
  <1>1. IInv => HeldDescriptorsAreValid
    BY DEF IInv
  <1>2. QED
    BY <1>1, Invariance, PTL

(* No error path of Socket::new, accept and duplicate leaks a descriptor.  *)
THEOREM NothingLeaks == Spec => []NoLeak
  <1>1. IInv => NoLeak
    BY DEF IInv
  <1>2. QED
    BY <1>1, Invariance, PTL

(* Whichever fallback was taken, what a call returns is close-on-exec,     *)
(* unless it is duplicate on haiku.                                        *)
THEOREM ReturnedMarked == Spec => []ReturnedIsMarked
  <1>1. IInv => ReturnedIsMarked
    BY DEF IInv
  <1>2. QED
    BY <1>1, Invariance, PTL

(* On a Linux kernel with all the flags there is no window in which a      *)
(* child could inherit a descriptor of this crate.                         *)
THEOREM AtomicOnLinux == Spec => []AtomicWhereSupported
  <1>1. IInv => AtomicWhereSupported
    BY DEF IInv, AtomicWhereSupported, NoFallback, Shape, ReturnedIsMarked,
           Returning, On
  <1>2. QED
    BY <1>1, Invariance, PTL

(* All of ownership, for any numbers of threads, handles and descriptors.  *)
THEOREM OwnershipHolds == Spec => []OwnershipIsSound
  <1>1. NoSharedOwnership /\ HeldDescriptorsAreValid /\ NoLeak
          => OwnershipIsSound
    BY DEF OwnershipIsSound
  <1>2. QED
    BY <1>1, OwnershipIsExclusive, HeldIsValid, NothingLeaks, PTL

(* A child inherits no descriptor of this crate but a duplicate on haiku:  *)
(* none that was returned, and with the kernel's help none that is still   *)
(* in a call.                                                              *)
THEOREM InheritanceHolds == Spec => []NothingIsInherited
  <1>1. ReturnedIsMarked /\ AtomicWhereSupported => NothingIsInherited
    BY DEF NothingIsInherited
  <1>2. QED
    BY <1>1, ReturnedMarked, AtomicOnLinux, PTL

(* A refusal of F_DUPFD_CLOEXEC is remembered.                             *)
LEMMA RefusalsStay == [Next]_vars => probed \subseteq probed'
  BY DEF Next, vars, Call, Step, CallNew, CallAccept, CallDuplicate, CallDrop,
         Enter, SocketCloexec, PlainSocket, AcceptCloexec, PlainAccept,
         LoadTryCloexec, DupFdCloexec, StoreTryCloexec, DupFd, SetCloexec,
         SetNoSigpipe, ReturnHandle, Close, IntoRaw, FromInner, OtherOpen,
         OtherClose, Open, ReturnError, ghostVars

(* The Relaxed accesses of TRY_CLOEXEC are enough for a thread to stop     *)
(* trying after the first refusal.                                         *)
THEOREM NeverTriedAgain == Spec => NoSecondProbe
  <1>1. IInv /\ [Next]_vars => [\A t \in probed : pc'[t] # "dupfd_cloexec"]_vars
    <2> SUFFICES ASSUME IInv, [Next]_vars, NEW t \in probed
                 PROVE  pc'[t] # "dupfd_cloexec"
      OBVIOUS
    <2>1. IInv'
      BY Inductive
    <2>2. t \in probed' /\ t \in Threads
      BY RefusalsStay DEF IInv, TypeOK
    <2>3. QED
      BY <2>1, <2>2 DEF IInv, FlagIsMonotone
  <1>2. QED
    BY <1>1, Invariance, PTL DEF Spec, NoSecondProbe

=============================================================================
