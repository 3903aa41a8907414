----------------------------- MODULE StreamProofs -----------------------------
(***************************************************************************)
(* What a connected stream keeps, for any number of threads, handles,      *)
(* buffers, bytes and sends: bytes and the error are given once, and an    *)
(* end has a cause and is final.  And what its timeouts keep, for any      *)
(* Durations, units and widths.                                            *)
(***************************************************************************)
EXTENDS Stream, Timeouts, WellFoundedInduction, TLAPS

(* Handles: what a call borrows is alive.                                  *)
CallShape ==
  /\ system \in Systems
  /\ live \in SUBSET Handles
  /\ call \in [Threads -> {"idle", "recv", "peek", "send"}]
  /\ handle \in [Threads -> Handles \cup {None}]
  /\ \A t \in Threads : IF call[t] = "idle" THEN handle[t] = None
                                            ELSE handle[t] \in live
  /\ patience \in [Threads -> {"none", "timeout", "forever"}]
  /\ nonblocking \in BOOLEAN
  /\ timeouts \in SUBSET {"recv", "send"}

(* The receive queue.                                                      *)
QueueTypes ==
  /\ arrived \in 0 .. MaxBytes
  /\ consumed \in 0 .. arrived
  /\ taken \in [Bytes -> {0, 1}]
  /\ seen \in Nat

QueueShape ==
  /\ QueueTypes
  /\ DeliveredOnce
  /\ seen # 0 => seen = consumed + 1 /\ HasData

(* The error of the connection, which breaks once.                         *)
FaultShape ==
  /\ pending \in BOOLEAN
  /\ broken \in BOOLEAN
  /\ told \in {0, 1}
  /\ told = 1 => broken /\ ~pending
  /\ told = 0 => (broken <=> pending)
  /\ peer \in BOOLEAN
  /\ broken => ~peer

(* The ends: what callers asked to shut down the kernel has shut down, and *)
(* a stream that was said to have ended has nothing left and gets nothing. *)
EndShape ==
  /\ shut \in SUBSET Halves
  /\ stopped \subseteq shut
  /\ shut # {} => stopped # {}
  /\ unread \in 0 .. Window
  /\ ended \in BOOLEAN
  /\ ended => LocallyShut \/ (~HasData /\ (~peer \/ "read" \in shut))

IInv == CallShape /\ QueueShape /\ FaultShape /\ EndShape

-----------------------------------------------------------------------------
(* What each step may change.                                              *)

LEMMA QueueMoves ==
  ASSUME Next
  PROVE  (\E t \in Threads : Receive(t)) \/ Arrive \/ UNCHANGED queue
  BY DEF Next, Returning, MakeCall, ReturnPending, ReadEnd, Send, WouldBlock,
         Interrupted, Shutdown, TakeError, SetNonblocking,
         SetReadOrWriteTimeout, TryClone, DropHandle, PeerReads, PeerCloses,
         Break, queue

LEMMA FaultMoves ==
  ASSUME Next
  PROVE  \/ \E t \in Threads : ReturnPending(t)
         \/ TakeError \/ PeerCloses \/ Break
         \/ UNCHANGED <<errors, peer>>
  BY DEF Next, Returning, MakeCall, Receive, ReadEnd, Send, WouldBlock,
         Interrupted, Shutdown, SetNonblocking, SetReadOrWriteTimeout, TryClone,
         DropHandle, Arrive, PeerReads, errors, link

-----------------------------------------------------------------------------
(* The error.                                                              *)

LEMMA FaultStep == ASSUME IInv, Next PROVE FaultShape'
<1> DEFINE Told == pending /\ pending' = FALSE /\ told' = told + 1
                   /\ UNCHANGED <<broken, peer>>
<1>0. CASE Told
  <2>1. told = 0 /\ broken = TRUE /\ ~peer
    BY <1>0, Zenon DEF IInv, FaultShape
  <2>2. told' = 1
    BY <1>0, <2>1
  <2>3. QED
    BY <1>0, <2>1, <2>2, Zenon DEF FaultShape, IInv
<1>1. CASE \E t \in Threads : ReturnPending(t)
  BY <1>0, <1>1 DEF ReturnPending, link
<1>2. CASE TakeError
  BY <1>0, <1>2 DEF TakeError, link
<1>3. CASE PeerCloses
  BY <1>3 DEF IInv, FaultShape, PeerCloses, errors
<1>4. CASE Break
  BY <1>4 DEF IInv, FaultShape, Break
<1>5. CASE UNCHANGED <<errors, peer>>
  BY <1>5 DEF IInv, FaultShape, errors
<1>6. QED
  BY <1>1, <1>2, <1>3, <1>4, <1>5, FaultMoves

-----------------------------------------------------------------------------
(* The queue.                                                              *)

LEMMA BytesAreNumbers ==
  ASSUME QueueTypes
  PROVE  /\ arrived \in Nat /\ consumed \in Nat /\ consumed <= arrived
         /\ \A b \in Bytes : b \in Nat
  BY BoundsAssumption DEF QueueTypes, Bytes

(* The least of a finite set of numbers.                                   *)
LEMMA Leastness ==
  ASSUME NEW S \in SUBSET Nat, S # {}
  PROVE  Min(S) \in S /\ \A m \in S : Min(S) <= m
<1>1. PICK x \in S : \A m \in S : ~(<<m, x>> \in OpToRel(<, Nat))
  BY WFMin, NatLessThanWellFounded
<1>3. ASSUME NEW m \in S PROVE x <= m
  <2>1. m \in Nat /\ x \in Nat
    OBVIOUS
  <2>2. m < x => <<m, x>> \in OpToRel(<, Nat)
    BY <2>1, Zenon DEF OpToRel
  <2>3. ~(m < x)
    BY <1>1, <2>2, Zenon
  <2>4. QED
    BY <2>1, <2>3
<1>2. QED
  BY <1>3 DEF Min

LEMMA LeastOfTwo ==
  ASSUME NEW a \in Nat, NEW b \in Nat
  PROVE  Min({a, b}) = IF a <= b THEN a ELSE b
<1>1. Min({a, b}) \in {a, b} /\ Min({a, b}) <= a /\ Min({a, b}) <= b
  BY Leastness
<1>2. QED
  BY <1>1

(* What a receive may take: from the byte after the last on, never past    *)
(* what has arrived.                                                       *)
LEMMA ReadableBounds ==
  ASSUME QueueTypes, HasData, NEW length \in Buffers,
         NEW last \in Readable(length)
  PROVE  last \in Nat /\ consumed < last /\ last <= arrived
<1>1. arrived \in Nat /\ consumed \in Nat /\ consumed < arrived
  BY BytesAreNumbers DEF HasData
<1>2. length \in Nat /\ length >= 1 /\ consumed + length \in Nat
  BY <1>1, BoundsAssumption
<1>3. Min({consumed + length, arrived}) =
        IF consumed + length <= arrived THEN consumed + length ELSE arrived
  BY <1>1, <1>2, LeastOfTwo
<1>4. QED
  BY <1>1, <1>2, <1>3 DEF Readable

(* A peek takes nothing.                                                   *)
LEMMA PeekKeeps ==
  ASSUME IInv, NEW t \in Threads, Receive(t), call[t] = "peek"
  PROVE  QueueShape'
<1>1. UNCHANGED <<arrived, consumed, taken>>
  BY DEF Receive, Flags
<1>2. seen' = IF seen = 0 THEN consumed + 1 ELSE seen
  BY DEF Receive
<1>3. HasData /\ QueueTypes /\ consumed \in Nat
  BY BytesAreNumbers DEF Receive, IInv, QueueShape
<1>4. QueueTypes'
  BY <1>1, <1>2, <1>3 DEF QueueTypes
<1>5. DeliveredOnce'
  BY <1>1 DEF IInv, QueueShape, DeliveredOnce
<1>6. (seen # 0 => seen = consumed + 1 /\ HasData)'
  BY <1>1, <1>2, <1>3 DEF IInv, QueueShape, HasData
<1>7. QED
  BY <1>4, <1>5, <1>6 DEF QueueShape

(* A recv takes bytes nobody has taken, the next one among them.           *)
LEMMA RecvKeeps ==
  ASSUME IInv, NEW t \in Threads, Receive(t), call[t] = "recv"
  PROVE  QueueShape'
<1>0. HasData /\ QueueTypes /\ DeliveredOnce
  <2>1. HasData
    BY DEF Receive
  <2>2. QueueTypes /\ DeliveredOnce
    BY DEF IInv, QueueShape
  <2>3. QED
    BY <2>1, <2>2
<1> DEFINE Takes(last) ==
             /\ consumed' = last
             /\ taken' = [b \in Bytes |-> IF b \in consumed + 1 .. last
                                            THEN taken[b] + 1 ELSE taken[b]]
<1>a. PICK length \in Buffers : \E last \in Readable(length) : Takes(last)
  <2>1. Flags(call[t]) # "MSG_PEEK"
    BY DEF Flags
  <2>2. \E length \in Buffers : \E last \in Readable(length) :
          /\ consumed' = IF Flags(call[t]) = "MSG_PEEK" THEN consumed ELSE last
          /\ IF call[t] = "recv"
             THEN /\ taken' = [b \in Bytes |->
                                 IF b \in consumed + 1 .. last
                                 THEN taken[b] + 1 ELSE taken[b]]
                  /\ seen' = 0
             ELSE /\ seen' = IF seen = 0 THEN consumed + 1 ELSE seen
                  /\ UNCHANGED taken
    BY Zenon DEF Receive
  <2>3. QED
    BY <2>1, <2>2, Zenon
<1>1. PICK last \in Readable(length) : Takes(last)
  BY <1>a
<1>2. UNCHANGED arrived /\ seen' = 0
  BY DEF Receive
<1>3. last \in Nat /\ consumed < last /\ last <= arrived
  BY <1>0, ReadableBounds
<1>4. arrived \in Nat /\ consumed \in Nat /\ \A b \in Bytes : b \in Nat
  BY <1>0, BytesAreNumbers
<1>5. \A b \in Bytes : taken'[b] = IF b <= last THEN 1 ELSE 0
  BY <1>0, <1>1, <1>3, <1>4 DEF DeliveredOnce
<1>6. QueueTypes'
  <2>1. consumed' \in 0 .. arrived'
    BY <1>1, <1>2, <1>3, <1>4
  <2>2. taken' \in [Bytes -> {0, 1}]
    BY <1>1, <1>5
  <2>3. QED
    BY <1>0, <1>2, <2>1, <2>2 DEF QueueTypes
<1>7. DeliveredOnce'
  BY <1>1, <1>5 DEF DeliveredOnce
<1>8. QED
  BY <1>2, <1>6, <1>7 DEF QueueShape

(* What arrives comes after everything that was there.                     *)
LEMMA ArriveKeeps == ASSUME IInv, Arrive PROVE QueueShape'
<1>0. QueueTypes /\ DeliveredOnce
  BY DEF IInv, QueueShape
<1>1. /\ arrived' \in arrived + 1 .. MaxBytes
      /\ UNCHANGED <<consumed, taken, seen>>
  BY DEF Arrive
<1>2. arrived \in Nat /\ consumed \in Nat /\ consumed <= arrived
  BY <1>0, BytesAreNumbers
<1>3. arrived' \in Nat /\ arrived < arrived' /\ arrived' <= MaxBytes
  BY <1>1, <1>2, BoundsAssumption
<1>4. QueueTypes'
  BY <1>0, <1>1, <1>2, <1>3 DEF QueueTypes
<1>5. DeliveredOnce'
  BY <1>0, <1>1 DEF DeliveredOnce
<1>6. (seen # 0 => seen = consumed + 1 /\ HasData)'
  BY <1>1, <1>2, <1>3 DEF IInv, QueueShape, HasData
<1>7. QED
  BY <1>4, <1>5, <1>6 DEF QueueShape

LEMMA QueueStep == ASSUME IInv, Next PROVE QueueShape'
<1>1. CASE \E t \in Threads : Receive(t)
  BY <1>1, PeekKeeps, RecvKeeps DEF Receive, Reading
<1>2. CASE Arrive
  BY <1>2, ArriveKeeps
<1>3. CASE UNCHANGED queue
  BY <1>3 DEF IInv, QueueShape, QueueTypes, DeliveredOnce, HasData, queue
<1>4. QED
  BY <1>1, <1>2, <1>3, QueueMoves

-----------------------------------------------------------------------------
(* The handles.                                                            *)

(* A call begins on a live handle, and returns.                            *)
LEMMA MakeCallKeeps ==
  ASSUME CallShape, NEW t \in Threads, NEW h \in Handles,
         NEW c \in {"recv", "peek", "send"}, MakeCall(t, h, c)
  PROVE  CallShape'
  BY DEF CallShape, MakeCall, options

LEMMA ReturnKeeps ==
  ASSUME CallShape, NEW t \in Threads, Return(t),
         UNCHANGED <<system, live, options>>
  PROVE  CallShape'
  BY DEF CallShape, Return, options

(* A handle that is borrowed cannot be dropped.                            *)
LEMMA DropHandleKeeps ==
  ASSUME CallShape, NEW h \in Handles, DropHandle(h)
  PROVE  CallShape'
  BY DEF CallShape, DropHandle, calls, options

LEMMA TryCloneKeeps ==
  ASSUME CallShape, NEW h \in Handles, NEW new \in Handles, TryClone(h, new)
  PROVE  CallShape'
  BY DEF CallShape, TryClone, calls, options

LEMMA OptionsKeep ==
  ASSUME CallShape, UNCHANGED <<system, live, calls>>,
         nonblocking' \in BOOLEAN, timeouts' \in SUBSET {"recv", "send"}
  PROVE  CallShape'
  BY DEF CallShape, calls

LEMMA CallMoves ==
  ASSUME Next
  PROVE  \/ \E t \in Threads, h \in Handles, c \in {"recv", "peek", "send"} :
              MakeCall(t, h, c)
         \/ \E t \in Threads : Return(t) /\ UNCHANGED <<system, live, options>>
         \/ \E h \in Handles : DropHandle(h)
         \/ \E h, new \in Handles : TryClone(h, new)
         \/ SetNonblocking
         \/ \E c \in {"recv", "send"} : SetReadOrWriteTimeout(c)
         \/ UNCHANGED <<system, live, calls, options>>
  BY DEF Next, Returning, Receive, ReturnPending, ReadEnd, ReturnNoData, Send,
         WouldBlock, Interrupted, Shutdown, TakeError, Arrive, PeerReads,
         PeerCloses, Break

LEMMA CallStep == ASSUME IInv, Next PROVE CallShape'
<1>0. CallShape
  BY DEF IInv
<1>1. CASE SetNonblocking
  BY <1>0, <1>1, OptionsKeep DEF SetNonblocking, CallShape
<1>2. CASE \E c \in {"recv", "send"} : SetReadOrWriteTimeout(c)
  BY <1>0, <1>2, OptionsKeep DEF SetReadOrWriteTimeout, CallShape
<1>3. CASE UNCHANGED <<system, live, calls, options>>
  BY <1>0, <1>3, OptionsKeep DEF options, CallShape
<1>4. QED
  BY <1>0, <1>1, <1>2, <1>3, CallMoves, MakeCallKeeps, ReturnKeeps,
     DropHandleKeeps, TryCloneKeeps

-----------------------------------------------------------------------------
(* The ends.                                                               *)

LEMMA WindowIsNumber == Window \in Nat \ {0}
  BY BoundsAssumption

(* Only a read with nothing to give says that the stream has ended.        *)
LEMMA ReadEndKeeps ==
  ASSUME IInv, NEW t \in Threads, ReadEnd(t)
  PROVE  EndShape'
<1>1. /\ LocallyShut \/ (~HasData /\ (~peer \/ "read" \in shut))
      /\ ended' \in BOOLEAN
      /\ UNCHANGED <<system, arrived, consumed, shut, stopped, peer, unread>>
  BY DEF ReadEnd, ReturnNoData, queue, halves, link, IInv, EndShape
<1>2. QED
  BY <1>1 DEF IInv, EndShape, LocallyShut, HasData

(* Errors, interruptions and calls that would block are never an end.      *)
LEMMA ErrorIsNoEnd ==
  ASSUME EndShape, NEW t \in Threads, NEW ret \in {"error", "EAGAIN", "EINTR"},
         ReturnNoData(t, ret)
  PROVE  ended' = ended
  BY DEF EndShape, ReturnNoData, RecvResult

LEMMA ShutdownKeeps ==
  ASSUME EndShape, NEW how \in {"Read", "Write", "Both"}, Shutdown(how)
  PROVE  EndShape'
<1>1. /\ Asked(how) = HalvesOf(how)
      /\ Asked(how) # {} /\ Asked(how) \subseteq Halves
  <2>1. CASE how = "Read"
    BY <2>1 DEF Asked, HalvesOf, Halves
  <2>2. CASE how = "Write"
    BY <2>2 DEF Asked, HalvesOf, Halves
  <2>3. CASE how = "Both"
    BY <2>3 DEF Asked, HalvesOf, Halves
  <2>4. QED
    BY <2>1, <2>2, <2>3
<1>2. stopped' = stopped \cup Asked(how) /\ shut \subseteq shut'
      /\ shut' \in SUBSET Halves /\ stopped' \subseteq shut'
  BY <1>1 DEF EndShape, Shutdown
<1>3. UNCHANGED <<system, arrived, consumed, peer, unread, ended>>
  BY DEF Shutdown, queue, link
<1>4. QED
  BY <1>1, <1>2, <1>3 DEF EndShape, LocallyShut, HasData

(* Nothing arrives after an end, and nothing is received.                  *)
LEMMA EndedIsQuiet ==
  ASSUME IInv, ended
  PROVE  ~Arrive /\ \A t \in Threads : ~Receive(t)
  BY DEF IInv, EndShape, Arrive, Receive, HasData, LocallyShut

(* Steps that leave the ends as they are, the queue and sends apart.       *)
LEMMA SteadyKeeps ==
  ASSUME EndShape, UNCHANGED <<system, shut, stopped, ended, peer>>,
         unread' \in 0 .. Window, ended => UNCHANGED <<arrived, consumed>>
  PROVE  EndShape'
  BY DEF EndShape, LocallyShut, HasData

LEMMA SendKeeps ==
  ASSUME IInv, NEW t \in Threads, Send(t)
  PROVE  EndShape'
<1>1. unread' \in 0 .. Window
  BY WindowIsNumber DEF IInv, EndShape, Send
<1>2. QED
  BY <1>1, SteadyKeeps DEF IInv, Send, queue, halves

LEMMA ReceiveKeeps ==
  ASSUME IInv, NEW t \in Threads, Receive(t)
  PROVE  EndShape'
<1>1. ~ended
  BY EndedIsQuiet
<1>2. UNCHANGED <<system, shut, stopped, ended, peer, unread>>
  BY DEF Receive, halves
<1>3. QED
  BY <1>1, <1>2, SteadyKeeps DEF IInv, EndShape

LEMMA ArriveEndsKeep == ASSUME IInv, Arrive PROVE EndShape'
<1>1. ~ended
  BY EndedIsQuiet
<1>2. UNCHANGED <<system, shut, stopped, ended, peer, unread>>
  BY DEF Arrive, halves, link
<1>3. QED
  BY <1>1, <1>2, SteadyKeeps DEF IInv, EndShape

LEMMA PeerKeeps == ASSUME IInv, PeerReads \/ PeerCloses \/ Break PROVE EndShape'
<1>1. CASE PeerReads
  <2>1. unread' \in 0 .. Window
    BY <1>1, WindowIsNumber DEF IInv, EndShape, PeerReads
  <2>2. QED
    BY <1>1, <2>1, SteadyKeeps DEF IInv, PeerReads, queue, halves
<1>2. CASE PeerCloses \/ Break
  <2>1. unread' \in 0 .. Window /\ peer' = FALSE
    BY <1>2, WindowIsNumber DEF PeerCloses, Break
  <2>2. UNCHANGED <<system, shut, stopped, ended, arrived, consumed>>
    BY <1>2 DEF PeerCloses, Break, queue, halves
  <2>3. QED
    BY <2>1, <2>2 DEF IInv, EndShape, LocallyShut, HasData
<1>3. QED
  BY <1>1, <1>2

(* A return with an error, a timeout or an interruption.                   *)
LEMMA NoDataKeeps ==
  ASSUME IInv, NEW t \in Threads,
         ReturnPending(t) \/ WouldBlock(t) \/ Interrupted(t)
  PROVE  EndShape'
<1>1. ended' = ended
  BY ErrorIsNoEnd DEF IInv, ReturnPending, WouldBlock, Interrupted
<1>2. UNCHANGED <<system, arrived, consumed, shut, stopped, peer, unread>>
  BY DEF ReturnPending, WouldBlock, Interrupted, queue, halves, link
<1>3. QED
  BY <1>1, <1>2, SteadyKeeps DEF IInv, EndShape

LEMMA EndMoves ==
  ASSUME Next
  PROVE  \/ \E t \in Threads : Returning(t) \/ Interrupted(t)
         \/ \E how \in {"Read", "Write", "Both"} : Shutdown(how)
         \/ Arrive \/ PeerReads \/ PeerCloses \/ Break
         \/ UNCHANGED <<system, queue, halves, link, ended>>
  BY DEF Next, MakeCall, TakeError, SetNonblocking,
         SetReadOrWriteTimeout, TryClone, DropHandle

LEMMA StayKeeps ==
  ASSUME IInv, UNCHANGED <<system, queue, halves, link, ended>>
  PROVE  EndShape'
  BY SteadyKeeps DEF IInv, EndShape, queue, halves, link

LEMMA EndStep == ASSUME IInv, Next PROVE EndShape'
<1>1. CASE \E t \in Threads : Returning(t) \/ Interrupted(t)
  BY <1>1, ReceiveKeeps, NoDataKeeps, ReadEndKeeps, SendKeeps DEF Returning
<1>2. CASE \E how \in {"Read", "Write", "Both"} : Shutdown(how)
  BY <1>2, ShutdownKeeps DEF IInv
<1>3. CASE Arrive \/ PeerReads \/ PeerCloses \/ Break
  BY <1>3, ArriveEndsKeep, PeerKeeps
<1>4. CASE UNCHANGED <<system, queue, halves, link, ended>>
  BY <1>4, StayKeeps
<1>5. QED
  BY <1>1, <1>2, <1>3, <1>4, EndMoves

-----------------------------------------------------------------------------
(* The invariant and the theorems.                                         *)

LEMMA Initially == Init => IInv
<1> SUFFICES ASSUME Init PROVE IInv
  OBVIOUS
<1>1. CallShape
  BY DEF Init, CallShape
<1>2. QueueShape
  <2>1. \A b \in Bytes : b \in Nat /\ ~(b <= 0)
    BY DEF Bytes
  <2>2. QueueTypes
    BY BoundsAssumption DEF Init, QueueTypes
  <2>3. DeliveredOnce
    BY <2>1 DEF Init, DeliveredOnce
  <2>4. QED
    BY <2>2, <2>3 DEF Init, QueueShape
<1>3. FaultShape
  <2>1. told = 0 /\ pending = FALSE /\ broken = FALSE /\ peer = TRUE
    BY DEF Init
  <2>2. told # 1
    BY <2>1
  <2>3. QED
    BY <2>1, <2>2, Zenon DEF FaultShape
<1>4. EndShape
  <2>1. shut = {} /\ stopped = {} /\ unread = 0 /\ ended = FALSE
    BY DEF Init
  <2>2. 0 \in 0 .. Window
    BY WindowIsNumber
  <2>3. QED
    BY <2>1, <2>2 DEF EndShape
<1>5. QED
  BY <1>1, <1>2, <1>3, <1>4 DEF IInv

LEMMA Stutter == ASSUME IInv, UNCHANGED vars PROVE IInv'
<1>1. CallShape'
  BY OptionsKeep DEF vars, options, IInv, CallShape
<1>2. QueueShape'
  BY DEF vars, queue, IInv, QueueShape, QueueTypes, DeliveredOnce, HasData
<1>3. FaultShape'
  BY DEF vars, errors, link, IInv, FaultShape
<1>4. EndShape'
  BY StayKeeps DEF vars
<1>5. QED
  BY <1>1, <1>2, <1>3, <1>4 DEF IInv

LEMMA Inductive == IInv /\ [Next]_vars => IInv'
<1>1. IInv /\ Next => IInv'
  BY CallStep, QueueStep, FaultStep, EndStep DEF IInv
<1>2. QED
  BY <1>1, Stutter

LEMMA Invariance == Spec => []IInv
  BY Initially, Inductive, PTL DEF Spec

(* The type invariant, for any number of threads, handles and bytes.       *)
THEOREM TypeCorrect == Spec => []TypeOK
<1>1. IInv => TypeOK
  <2> SUFFICES ASSUME IInv PROVE TypeOK
    OBVIOUS
  <2>1. /\ arrived \in 0 .. MaxBytes /\ consumed \in 0 .. arrived
        /\ taken \in [Bytes -> 0 .. 2]
    BY DEF IInv, QueueShape, QueueTypes
  <2>2. seen \in 0 .. arrived
    <3>1. arrived \in Nat /\ consumed \in Nat
      BY BytesAreNumbers DEF IInv, QueueShape
    <3>2. QED
      BY <3>1 DEF IInv, QueueShape, QueueTypes, HasData
  <2>3. pending \in BOOLEAN /\ broken \in BOOLEAN /\ told \in 0 .. 2
        /\ peer \in BOOLEAN
    BY DEF IInv, FaultShape
  <2>4. /\ shut \in SUBSET Halves /\ stopped \in SUBSET Halves
        /\ unread \in 0 .. Window /\ ended \in BOOLEAN
    BY DEF IInv, EndShape
  <2>5. QED
    BY <2>1, <2>2, <2>3, <2>4 DEF IInv, CallShape, TypeOK
<1>2. QED
  BY <1>1, Invariance, PTL

(* However many threads and clones receive, every byte and the error is    *)
(* given once, and a peek takes nothing.                                   *)
THEOREM GivenHolds == Spec => []GivenOnce
<1>1. IInv => DeliveredOnce /\ PeekedIsNext
  BY DEF IInv, QueueShape, PeekedIsNext
<1>2. IInv => ErrorToldOnce
  <2> SUFFICES ASSUME IInv PROVE ErrorToldOnce
    OBVIOUS
  <2>1. CASE told = 1
    BY <2>1 DEF IInv, FaultShape, ErrorToldOnce
  <2>2. CASE told = 0
    BY <2>2 DEF IInv, FaultShape, ErrorToldOnce
  <2>3. QED
    BY <2>1, <2>2 DEF IInv, FaultShape
<1>3. QED
  BY <1>1, <1>2, Invariance, PTL DEF GivenOnce

(* Ok(0) has a cause: the peer is gone or this side has shut down.         *)
THEOREM CauseHolds == Spec => []EndHasCause
<1>1. IInv => EndHasCause
  BY DEF IInv, EndShape, EndHasCause, LocallyShut
<1>2. QED
  BY <1>1, Invariance, PTL

(* An end, once told, is final for every thread, and so is a shutdown of   *)
(* the write half.                                                         *)
THEOREM EndsHold == Spec => EndsAreFinal
<1>1. IInv /\ [Next]_vars => [ended => UNCHANGED <<consumed, taken, seen>>]_vars
  <2> SUFFICES ASSUME IInv, Next, ended
               PROVE  UNCHANGED <<consumed, taken, seen>>
    OBVIOUS
  <2>1. UNCHANGED queue
    BY EndedIsQuiet, QueueMoves
  <2>2. QED
    BY <2>1 DEF queue
<1>2. IInv /\ [Next]_vars => ["write" \in stopped => unread' <= unread]_vars
  <2> SUFFICES ASSUME IInv, Next, "write" \in stopped
               PROVE  unread' <= unread
    OBVIOUS
  <2>1. unread \in Nat /\ "write" \in shut
    BY WindowIsNumber DEF IInv, EndShape
  <2>2. CASE unread' = unread
    BY <2>1, <2>2
  <2>3. CASE PeerReads \/ PeerCloses \/ Break
    BY <2>1, <2>3 DEF PeerReads, PeerCloses, Break
  <2>4. \/ unread' = unread
        \/ PeerReads \/ PeerCloses \/ Break
    BY <2>1, EndMoves
    DEF Returning, Receive, ReturnPending, ReadEnd, Send, WouldBlock,
        Interrupted, Shutdown, Arrive, CanSend, link
  <2>5. QED
    BY <2>2, <2>3, <2>4
<1>3. QED
  BY <1>1, <1>2, Invariance, PTL
  DEF Spec, EndsAreFinal, EndIsFinal, NothingSentAfterShutdown

-----------------------------------------------------------------------------
(* The length of the timeouts: what set_timeout keeps for a Duration, in   *)
(* any units and widths that meet the assumptions of Timeouts.             *)

(* Dividing, rounded down and up.                                          *)
LEMMA Quotient ==
  ASSUME NEW n \in Nat, NEW d \in Nat \ {0}
  PROVE  n \div d \in Nat /\ (n \div d) * d <= n /\ n < (n \div d) * d + d
  OBVIOUS

LEMMA Unique ==
  ASSUME NEW n \in Nat, NEW d \in Nat \ {0}, NEW k \in Nat,
         k * d <= n, n < k * d + d
  PROVE  n \div d = k
  OBVIOUS

LEMMA Rem ==
  ASSUME NEW n \in Nat, NEW d \in Nat \ {0}
  PROVE  n % d = n - (n \div d) * d
  OBVIOUS

LEMMA Steps ==
  ASSUME NEW d \in Nat \ {0}, NEW j \in Nat, NEW k \in Nat, j < k
  PROVE  j * d \in Nat /\ k * d \in Nat /\ j * d + d <= k * d
<1>1. PICK i \in Nat : k = j + 1 + i
  <2>1. k - j - 1 \in Nat /\ k = j + 1 + (k - j - 1)
    OBVIOUS
  <2>2. QED
    BY <2>1
<1>2. k * d = j * d + d + i * d /\ i * d \in Nat /\ j * d \in Nat
  BY <1>1
<1>3. QED
  BY <1>2

LEMMA Product ==
  ASSUME NEW j \in Nat \ {0}, NEW k \in Nat \ {0}
  PROVE  j * k \in Nat \ {0}
  OBVIOUS

LEMMA Scale ==
  ASSUME NEW s \in Nat, NEW r \in Nat, NEW m \in Nat, NEW c \in Nat
  PROVE  /\ (s * r + c) * m = s * (r * m) + c * m
         /\ s * (r * m) \in Nat /\ c * m \in Nat
  OBVIOUS

LEMMA Ceil ==
  ASSUME NEW n \in Nat, NEW d \in Nat \ {0}
  PROVE  /\ CeilDiv(n, d) \in Nat
         /\ n <= CeilDiv(n, d) * d /\ CeilDiv(n, d) * d < n + d
<1>1. PICK m \in Nat : m = n + d - 1
  OBVIOUS
<1>2. PICK q \in Nat : q = m \div d
  BY Quotient
<1>3. q * d \in Nat /\ q * d <= m /\ m < q * d + d
  BY <1>2, Quotient
<1>4. n <= q * d /\ q * d < n + d
  BY <1>1, <1>3
<1>5. QED
  BY <1>1, <1>2, <1>4 DEF CeilDiv

LEMMA CeilUnique ==
  ASSUME NEW n \in Nat, NEW d \in Nat \ {0}, NEW k \in Nat,
         n <= k * d, k * d < n + d
  PROVE  CeilDiv(n, d) = k
<1>1. PICK m \in Nat : m = n + d - 1
  OBVIOUS
<1>2. k * d \in Nat
  OBVIOUS
<1>3. k * d <= m /\ m < k * d + d
  BY <1>1, <1>2
<1>4. m \div d = k
  BY <1>3, Unique
<1>5. QED
  BY <1>1, <1>4 DEF CeilDiv

(* The least k with n <= k * d.                                            *)
LEMMA CeilLeast ==
  ASSUME NEW n \in Nat, NEW d \in Nat \ {0}, NEW k \in Nat, n <= k * d
  PROVE  CeilDiv(n, d) <= k
<1>1. PICK c \in Nat : c = CeilDiv(n, d) /\ c * d < n + d
  BY Ceil
<1>2. c * d \in Nat /\ k * d \in Nat
  BY <1>1
<1>3. ~(k < c)
  BY <1>1, <1>2, Steps
<1>4. QED
  BY <1>1, <1>3

LEMMA CeilGrows ==
  ASSUME NEW d \in Nat \ {0}, NEW n \in Nat, NEW k \in Nat, n <= k
  PROVE  CeilDiv(n, d) <= CeilDiv(k, d)
<1>1. PICK c \in Nat : c = CeilDiv(k, d) /\ k <= c * d
  BY Ceil
<1>2. c * d \in Nat
  BY <1>1
<1>3. n <= c * d
  BY <1>1, <1>2
<1>4. QED
  BY <1>1, <1>3, CeilLeast

LEMMA QuotientGrows ==
  ASSUME NEW d \in Nat \ {0}, NEW n \in Nat, NEW k \in Nat, n <= k
  PROVE  n \div d <= k \div d
<1>1. PICK p \in Nat, q \in Nat : p = n \div d /\ q = k \div d
  BY Quotient
<1>2. p * d <= n /\ k < q * d + d /\ p * d \in Nat /\ q * d \in Nat
  BY <1>1, Quotient
<1>3. ~(q < p)
  BY <1>2, Steps
<1>4. QED
  BY <1>1, <1>3

(* The units and the widths.                                               *)
LEMMA Units ==
  /\ NanosPerMicro \in Nat \ {0} /\ MillisPerSec \in Nat \ {0}
  /\ MicrosPerTick \in Nat \ {0}
  /\ NanosPerMilli \in Nat \ {0} /\ NanosPerSec \in Nat \ {0}
  /\ NanosPerTick \in Nat \ {0} /\ TicksPerSec \in Nat \ {0}
  /\ NanosPerTick = MicrosPerTick * NanosPerMicro
  /\ NanosPerSec = MillisPerSec * NanosPerMilli
  /\ NanosPerSec = TicksPerSec * NanosPerTick
<1>1. /\ NanosPerMicro \in Nat \ {0} /\ MicrosPerMilli \in Nat \ {0}
      /\ MillisPerSec \in Nat \ {0} /\ MicrosPerTick \in Nat \ {0}
      /\ NanosPerSec % NanosPerTick = 0
  BY UnitsAssumption
<1>2. NanosPerMilli \in Nat \ {0}
  BY <1>1, Product DEF NanosPerMilli
<1>3. /\ NanosPerSec \in Nat \ {0}
      /\ NanosPerSec = MillisPerSec * NanosPerMilli
  BY <1>1, <1>2, Product DEF NanosPerSec
<1>4. /\ NanosPerTick \in Nat \ {0}
      /\ NanosPerTick = MicrosPerTick * NanosPerMicro
  BY <1>1, Product DEF NanosPerTick
<1>5. PICK q \in Nat : q = TicksPerSec
                     /\ NanosPerSec = q * NanosPerTick
  <2>1. PICK q \in Nat : q = NanosPerSec \div NanosPerTick
    BY <1>3, <1>4, Quotient
  <2>2. NanosPerSec % NanosPerTick = NanosPerSec - q * NanosPerTick
    BY <1>3, <1>4, <2>1, Rem
  <2>3. q * NanosPerTick \in Nat
    BY <1>4, <2>1
  <2>4. QED
    BY <1>1, <1>3, <2>1, <2>2, <2>3 DEF TicksPerSec
<1>6. q # 0
  BY <1>3, <1>4, <1>5
<1>7. QED
  BY <1>1, <1>2, <1>3, <1>4, <1>5, <1>6

LEMMA Widths ==
  /\ U64Max \in Nat \ {0} /\ TimeMax \in Nat \ {0}
  /\ KernelMax \in Nat \ {0} /\ UlongMax \in Nat \ {0}
  /\ KernelMax <= TimeMax /\ TimeMax < U64Max /\ UlongMax < U64Max
  /\ Never \notin Int /\ Platforms \subseteq {"unix", "windows"}
  BY WidthsAssumption, NeverAssumption, PlatformsAssumption

(* A Duration is its seconds and the nanoseconds that remain.              *)
LEMMA Split ==
  ASSUME NEW d \in Durations
  PROVE  /\ d \in Nat /\ AsSecs(d) \in 0 .. U64Max
         /\ SubsecNanos(d) \in 0 .. NanosPerSec - 1
         /\ d = AsSecs(d) * NanosPerSec + SubsecNanos(d)
<1>1. PICK S \in Nat \ {0} : S = NanosPerSec
  BY Units
<1>2. U64Max \in Nat /\ U64Max * S \in Nat /\ d \in 0 .. U64Max * S + S - 1
  BY <1>1, Widths DEF Durations
<1>3. d \in Nat /\ d < U64Max * S + S
  BY <1>1, <1>2
<1>4. PICK s \in Nat : s = d \div S
  BY <1>3, Quotient
<1>5. s * S \in Nat /\ s * S <= d /\ d < s * S + S
  BY <1>3, <1>4, Quotient
<1>6. d % S = d - s * S
  BY <1>3, <1>4, Rem
<1>7. ~(U64Max < s)
  BY <1>2, <1>3, <1>5, Steps
<1>8. PICK n \in 0 .. S - 1 : n = d % S /\ d = s * S + n
  <2>1. d - s * S \in 0 .. S - 1 /\ d = s * S + (d - s * S)
    BY <1>1, <1>3, <1>5
  <2>2. QED
    BY <1>6, <2>1
<1>9. s \in 0 .. U64Max
  BY <1>2, <1>4, <1>7
<1>10. QED
  BY <1>1, <1>3, <1>4, <1>8, <1>9 DEF AsSecs, SubsecNanos

LEMMA Together ==
  ASSUME NEW s \in Nat, NEW n \in 0 .. NanosPerSec - 1, NEW d,
         d = s * NanosPerSec + n
  PROVE  /\ AsSecs(d) = s /\ SubsecNanos(d) = n /\ d \in Nat
         /\ s <= U64Max => d \in Durations
<1>1. PICK S \in Nat \ {0} : S = NanosPerSec
  BY Units
<1>2. /\ s * S \in Nat /\ d \in Nat /\ n \in Nat /\ n < S /\ d = s * S + n
      /\ s * S <= d /\ d < s * S + S
  BY <1>1
<1>3. d \div S = s
  BY <1>2, Unique
<1>4. d % S = n
  <2>1. d % S = d - s * S
    BY <1>2, <1>3, Rem
  <2>2. QED
    BY <1>2, <2>1
<1>5. ASSUME s <= U64Max PROVE d \in 0 .. U64Max * S + S - 1
  <2>1. U64Max \in Nat /\ U64Max * S \in Nat
    BY Widths
  <2>2. s * S <= U64Max * S
    BY <1>2, <1>5, <2>1, Steps
  <2>3. QED
    BY <1>2, <2>1, <2>2
<1>6. QED
  BY <1>1, <1>2, <1>3, <1>4, <1>5
  DEF AsSecs, SubsecNanos, Durations

-----------------------------------------------------------------------------
(* windows.                                                                *)

(* Seconds and nanoseconds, added up in milliseconds, are the Duration     *)
(* rounded up.                                                             *)
LEMMA MillisAreCeil ==
  ASSUME NEW d \in Durations
  PROVE  Millis(d) = CeilDiv(d, NanosPerMilli)
<1>1. PICK s \in Nat, n \in Nat, S \in Nat \ {0} :
        /\ s = AsSecs(d) /\ n = SubsecNanos(d) /\ S = NanosPerSec
        /\ d \in Nat /\ d = s * S + n
  BY Split, Units
<1>2. PICK m \in Nat \ {0}, r \in Nat \ {0} :
        m = NanosPerMilli /\ r = MillisPerSec /\ S = r * m
  BY <1>1, Units
<1>3. PICK c \in Nat : c = CeilDiv(n, m) /\ n <= c * m /\ c * m < n + m
  BY <1>1, <1>2, Ceil
<1>4. PICK k \in Nat : k = s * r + c
  BY <1>1, <1>2, <1>3
<1>5. k * m = s * S + c * m /\ s * S \in Nat /\ c * m \in Nat
  BY <1>2, <1>4, Scale
<1>6. d <= k * m /\ k * m < d + m
  BY <1>1, <1>2, <1>3, <1>5
<1>7. CeilDiv(d, m) = k
  BY <1>1, <1>2, <1>4, <1>6, CeilUnique
<1>8. QED
  BY <1>1, <1>2, <1>3, <1>4, <1>7 DEF Millis

(* What windows keeps, and how long it waits.                              *)
LEMMA WindowsKeeps ==
  ASSUME platform = "windows", NEW d \in Durations \ {0}
  PROVE  /\ Millis(d) \in Nat \ {0}
         /\ d <= Millis(d) * NanosPerMilli
         /\ Millis(d) * NanosPerMilli < d + NanosPerMilli
         /\ Keep(d) = IF Millis(d) > UlongMax THEN UlongMax ELSE Millis(d)
         /\ Dur2timeout(d) # 0
<1>1. d \in Nat \ {0} /\ d # Never
  BY Split, Widths
<1>2. PICK m \in Nat \ {0} : m = NanosPerMilli
  BY Units
<1>3. PICK c \in Nat : c = Millis(d) /\ d <= c * m /\ c * m < d + m
  BY <1>1, <1>2, MillisAreCeil, Ceil
<1>4. c # 0
  BY <1>1, <1>2, <1>3
<1>5. Dur2timeout(d) = IF c > UlongMax THEN UlongMax ELSE c
  BY <1>3 DEF Dur2timeout
<1>6. Dur2timeout(d) # 0
  BY <1>4, <1>5, Widths
<1>7. Keep(d) = Dur2timeout(d)
  BY <1>1, <1>6 DEF Keep
<1>8. QED
  BY <1>2, <1>3, <1>4, <1>5, <1>6, <1>7

LEMMA WindowsGrows ==
  ASSUME platform = "windows", NEW d \in Durations \ {0},
         NEW e \in Durations \ {0}, d <= e
  PROVE  /\ Keep(d) \in 1 .. UlongMax /\ Keep(e) \in 1 .. UlongMax
         /\ Keep(d) <= Keep(e)
<1>1. d \in Nat /\ e \in Nat /\ NanosPerMilli \in Nat \ {0}
  BY Split, Units
<1>2. Millis(d) <= Millis(e)
  BY <1>1, MillisAreCeil, CeilGrows
<1>3. PICK i \in Nat \ {0}, j \in Nat \ {0} :
        /\ i = Millis(d) /\ j = Millis(e)
        /\ Keep(d) = IF i > UlongMax THEN UlongMax ELSE i
        /\ Keep(e) = IF j > UlongMax THEN UlongMax ELSE j
  BY WindowsKeeps
<1>4. QED
  BY <1>2, <1>3, Widths

(* The milliseconds read_timeout returns are kept as they were.            *)
LEMMA WindowsRestores ==
  ASSUME platform = "windows", NEW r \in 1 .. UlongMax
  PROVE  /\ FromMillis(r) \in Durations \ {0}
         /\ Keep(FromMillis(r)) = r
<1>1. PICK m \in Nat \ {0}, k \in Nat \ {0}, S \in Nat \ {0} :
        /\ m = NanosPerMilli /\ k = MillisPerSec /\ S = NanosPerSec
        /\ S = k * m
  BY Units
<1>2. r \in Nat \ {0} /\ r # Never /\ UlongMax \in Nat /\ U64Max \in Nat
      /\ r <= UlongMax /\ UlongMax < U64Max
  BY Widths
<1>3. PICK d \in Nat \ {0} : d = r * m
  BY <1>1, <1>2, Product
<1>4. FromMillis(r) = d
  BY <1>1, <1>2, <1>3 DEF FromMillis
<1>5. d \in Durations
  <2>1. m <= S
    BY <1>1
  <2>2. r * m \in Nat /\ U64Max * S \in Nat /\ r * m <= U64Max * m
        /\ U64Max * m <= U64Max * S /\ U64Max * m \in Nat
    <3>1. r * m <= U64Max * m
      BY <1>1, <1>2, Steps
    <3>2. U64Max * m <= U64Max * S
      BY <1>1, <1>2, <2>1
    <3>3. QED
      BY <1>1, <1>2, <3>1, <3>2
  <2>3. QED
    BY <1>1, <1>3, <2>2 DEF Durations
<1>6. Millis(d) = r
  <2>1. d <= r * m /\ r * m < d + m
    BY <1>1, <1>3
  <2>2. QED
    BY <1>1, <1>2, <1>3, <1>5, <2>1, MillisAreCeil, CeilUnique
<1>7. Keep(d) = r
  BY <1>2, <1>3, <1>5, <1>6, WindowsKeeps
<1>8. QED
  BY <1>3, <1>4, <1>5, <1>7

-----------------------------------------------------------------------------
(* unix.                                                                   *)

(* The microseconds of a timeval and the ticks the kernel makes of them,   *)
(* for s seconds and n nanoseconds.                                        *)
Micros(s, n) == IF s = 0 /\ n \div NanosPerMicro = 0
                THEN 1 ELSE n \div NanosPerMicro
Ticks(s, n) == CeilDiv(Micros(s, n), MicrosPerTick)

(* Ticks never make a second more, are short by less than a microsecond    *)
(* and long by less than a tick.                                           *)
LEMMA TicksRound ==
  ASSUME NEW s \in Nat, NEW n \in 0 .. NanosPerSec - 1
  PROVE  /\ Micros(s, n) \in Nat
         /\ Ticks(s, n) \in 0 .. TicksPerSec
         /\ s = 0 => Ticks(s, n) # 0
         /\ n < Ticks(s, n) * NanosPerTick + NanosPerMicro
         /\ s # 0 \/ n # 0
              => Ticks(s, n) * NanosPerTick < n + NanosPerTick
<1>1. PICK u \in Nat \ {0}, m \in Nat \ {0}, t \in Nat \ {0},
           p \in Nat \ {0} :
        /\ u = NanosPerMicro /\ m = MicrosPerTick /\ t = NanosPerTick
        /\ p = TicksPerSec /\ t = m * u /\ NanosPerSec = p * t
  BY Units
<1>2. PICK q \in Nat : q = n \div u /\ q * u <= n /\ n < q * u + u
  BY <1>1, Quotient
<1>3. PICK v \in Nat : /\ v = Micros(s, n)
                       /\ v = IF s = 0 /\ q = 0 THEN 1 ELSE q
  BY <1>1, <1>2 DEF Micros
<1>4. PICK c \in Nat : c = CeilDiv(v, m) /\ v <= c * m /\ c * m < v + m
  BY <1>1, Ceil
<1>5. Ticks(s, n) = c
  BY <1>1, <1>3, <1>4 DEF Ticks
<1>6. s = 0 => c # 0
  BY <1>1, <1>3, <1>4
<1>7. c * t = (c * m) * u /\ c * m \in Nat
  BY <1>1
<1>8. q * u <= c * t /\ n < c * t + u
  <2>1. q <= c * m
    BY <1>3, <1>4, <1>7
  <2>2. q * u <= (c * m) * u /\ q * u \in Nat /\ (c * m) * u \in Nat
    BY <1>1, <1>7, <2>1, Steps
  <2>3. QED
    BY <1>1, <1>2, <1>7, <2>2
<1>9. ASSUME s # 0 \/ n # 0 PROVE c * t < n + t
  <2>1. CASE v = q
    <3>1. c * m < q + m /\ q + m \in Nat
      BY <1>1, <1>4, <2>1
    <3>2. (c * m) * u + u <= (q + m) * u /\ (c * m) * u \in Nat
      BY <1>1, <1>7, <3>1, Steps
    <3>3. (q + m) * u = q * u + m * u /\ q * u \in Nat /\ m * u \in Nat
      BY <1>1
    <3>4. QED
      BY <1>1, <1>2, <1>7, <3>2, <3>3
  <2>2. CASE v # q
    <3>1. v = 1 /\ q = 0 /\ n # 0
      BY <1>3, <1>9, <2>2
    <3>2. c <= 1
      BY <1>1, <1>4, <3>1, CeilLeast
    <3>3. QED
      BY <1>1, <3>1, <3>2
  <2>3. QED
    BY <2>1, <2>2
<1>10. c <= p
  <2>1. v <= p * m /\ p * m \in Nat
    <3>1. p * m \in Nat \ {0} /\ p * t = (p * m) * u
      BY <1>1, Product
    <3>2. q * u < (p * m) * u
      BY <1>1, <1>2, <3>1
    <3>3. q < p * m
      BY <1>1, <3>1, <3>2
    <3>4. QED
      BY <1>3, <3>1, <3>3
  <2>2. QED
    BY <1>1, <1>4, <2>1, CeilLeast
<1>11. QED
  BY <1>1, <1>3, <1>5, <1>6, <1>8, <1>9, <1>10

(* What the kernel keeps: ticks, or nothing from KernelMax seconds on.     *)
LEMMA UnixKeeps ==
  ASSUME platform = "unix", NEW d \in Durations \ {0}
  PROVE  /\ AsSecs(d) >= KernelMax => Keep(d) = Never
         /\ AsSecs(d) < KernelMax
              => Keep(d) = AsSecs(d) * TicksPerSec
                             + Ticks(AsSecs(d), SubsecNanos(d))
<1>1. PICK s \in Nat, n \in 0 .. NanosPerSec - 1 :
        /\ s = AsSecs(d) /\ n = SubsecNanos(d) /\ d \in Nat
        /\ d = s * NanosPerSec + n
  BY Split
<1>2. d # Never /\ Keep(d) = KernelKeeps(Timeval(d))
  BY <1>1, Widths DEF Keep
<1>3. /\ Clamp(s) \in Nat /\ (Clamp(s) >= KernelMax <=> s >= KernelMax)
      /\ Clamp(s) < KernelMax => Clamp(s) = s
      /\ Clamp(s) = 0 <=> s = 0
  BY Widths DEF Clamp
<1>4. PICK v \in Nat : v = Micros(s, n)
  BY TicksRound
<1>5. Timeval(d) = [sec |-> Clamp(s), usec |-> v]
  BY <1>1, <1>3, <1>4
  DEF Timeval, Micros, SubsecMicros
<1>6. ~(Clamp(s) = 0 /\ v = 0)
  BY <1>3, <1>4 DEF Micros
<1>7. KernelKeeps(Timeval(d)) =
        IF Clamp(s) >= KernelMax THEN Never
        ELSE Clamp(s) * TicksPerSec + CeilDiv(v, MicrosPerTick)
  BY <1>3, <1>5, <1>6 DEF KernelKeeps
<1>8. s >= KernelMax => Keep(d) = Never
  BY <1>2, <1>3, <1>7
<1>9. ASSUME s < KernelMax PROVE Keep(d) = s * TicksPerSec + Ticks(s, n)
  <2>1. Clamp(s) = s /\ ~(s >= KernelMax)
    BY <1>9, Widths DEF Clamp
  <2>2. QED
    BY <1>2, <1>4, <1>7, <2>1 DEF Ticks
<1>10. QED
  BY <1>1, <1>8, <1>9

(* A timeout that is kept, from 1 tick to KernelMax seconds.               *)
LEMMA UnixRange ==
  ASSUME platform = "unix", NEW d \in Durations \ {0},
         AsSecs(d) < KernelMax
  PROVE  /\ Keep(d) \in 1 .. KernelMax * TicksPerSec
         /\ d < Keep(d) * NanosPerTick + NanosPerMicro
         /\ Keep(d) * NanosPerTick < d + NanosPerTick
<1>1. PICK p \in Nat \ {0}, t \in Nat \ {0}, S \in Nat \ {0}, u \in Nat \ {0} :
        /\ p = TicksPerSec /\ t = NanosPerTick /\ S = NanosPerSec
        /\ u = NanosPerMicro /\ S = p * t
  BY Units
<1>2. PICK s \in Nat, n \in Nat :
        /\ s = AsSecs(d) /\ n = SubsecNanos(d) /\ n \in 0 .. S - 1
        /\ d \in Nat \ {0} /\ d = s * S + n
  BY <1>1, Split
<1>3. PICK c \in 0 .. p : /\ c = Ticks(s, n) /\ (s = 0 => c # 0)
                          /\ n < c * t + u
                          /\ s # 0 \/ n # 0 => c * t < n + t
  BY <1>1, <1>2, TicksRound
<1>4. PICK k \in Nat : k = s * p + c /\ k = Keep(d)
  <2>1. s < KernelMax /\ KernelMax \in Nat
    BY <1>2, Widths
  <2>2. Keep(d) = s * p + c
    <3>1. Keep(d) = AsSecs(d) * TicksPerSec
                      + Ticks(AsSecs(d), SubsecNanos(d))
      BY <1>2, <2>1, UnixKeeps
    <3>2. QED
      BY <1>1, <1>2, <1>3, <3>1
  <2>3. s * p + c \in Nat
    BY <1>1, <1>2, <1>3
  <2>4. QED
    BY <2>2, <2>3
<1>5. k * t = s * S + c * t /\ s * S \in Nat /\ c * t \in Nat
  <2>1. c \in Nat
    BY <1>1, <1>3
  <2>2. /\ (s * p + c) * t = s * (p * t) + c * t
        /\ s * (p * t) \in Nat /\ c * t \in Nat
    BY <1>1, <1>2, <2>1, Scale
  <2>3. QED
    BY <1>1, <1>4, <2>2
<1>6. s # 0 \/ n # 0
  BY <1>1, <1>2
<1>7. d < k * t + u /\ k * t < d + t
  BY <1>1, <1>2, <1>3, <1>5, <1>6
<1>8. k >= 1
  <2>1. s * p \in Nat /\ (s # 0 => s * p # 0) /\ c \in Nat
    BY <1>1, <1>2, <1>3, Product
  <2>2. QED
    BY <1>3, <1>4, <2>1
<1>9. k <= KernelMax * p
  <2>1. KernelMax \in Nat /\ s < KernelMax
    BY <1>2, Widths
  <2>2. s * p + p <= KernelMax * p /\ s * p \in Nat /\ KernelMax * p \in Nat
    BY <1>1, <2>1, Steps
  <2>3. QED
    BY <1>1, <1>3, <1>4, <2>2
<1>10. QED
  BY <1>1, <1>4, <1>7, <1>8, <1>9, Widths

LEMMA UnixGrows ==
  ASSUME platform = "unix", NEW d \in Durations \ {0},
         NEW e \in Durations \ {0}, d <= e, AsSecs(e) < KernelMax
  PROVE  AsSecs(d) < KernelMax /\ Keep(d) <= Keep(e)
<1>1. PICK p \in Nat \ {0}, S \in Nat \ {0} :
        p = TicksPerSec /\ S = NanosPerSec
  BY Units
<1>2. PICK s \in Nat, n \in Nat :
        /\ s = AsSecs(d) /\ n = SubsecNanos(d) /\ n \in 0 .. S - 1
        /\ d \in Nat /\ d = s * S + n
  BY <1>1, Split
<1>3. PICK z \in Nat, o \in Nat :
        /\ z = AsSecs(e) /\ o = SubsecNanos(e) /\ o \in 0 .. S - 1
        /\ e \in Nat /\ e = z * S + o
  BY <1>1, Split
<1>4. s <= z
  <2>1. s = d \div S /\ z = e \div S
    BY <1>1, <1>2, <1>3 DEF AsSecs
  <2>2. QED
    BY <1>1, <1>2, <1>3, <2>1, QuotientGrows
<1>5. s < KernelMax /\ z < KernelMax
  BY <1>3, <1>4, Widths
<1>6. PICK b \in 0 .. p, c \in 0 .. p : b = Ticks(s, n) /\ c = Ticks(z, o)
  BY <1>1, <1>2, <1>3, TicksRound
<1>7. Keep(d) = s * p + b /\ Keep(e) = z * p + c
  <2>1. /\ Keep(d) = AsSecs(d) * TicksPerSec
                        + Ticks(AsSecs(d), SubsecNanos(d))
        /\ Keep(e) = AsSecs(e) * TicksPerSec
                        + Ticks(AsSecs(e), SubsecNanos(e))
    BY <1>2, <1>3, <1>5, UnixKeeps
  <2>2. QED
    BY <1>1, <1>2, <1>3, <1>6, <2>1
<1>8. CASE s = z
  <2>1. n <= o
    <3>1. s * S \in Nat /\ z * S = s * S
      BY <1>1, <1>8
    <3>2. QED
      BY <1>2, <1>3, <3>1
  <2>2. PICK v \in Nat, w \in Nat : v = Micros(s, n) /\ w = Micros(z, o)
    BY <1>1, <1>2, <1>3, TicksRound
  <2>3. v <= w
    <3>1. NanosPerMicro \in Nat \ {0}
      BY Units
    <3>2. PICK i \in Nat, j \in Nat :
            i = n \div NanosPerMicro /\ j = o \div NanosPerMicro /\ i <= j
      BY <2>1, <3>1, Quotient, QuotientGrows
    <3>3. QED
      BY <1>8, <2>2, <3>2 DEF Micros
  <2>4. b <= c
    BY <1>6, <2>2, <2>3, CeilGrows, Units DEF Ticks
  <2>5. s * p \in Nat /\ z * p = s * p
    BY <1>1, <1>8
  <2>6. QED
    BY <1>5, <1>2, <1>6, <1>7, <2>4, <2>5
<1>9. CASE s < z
  <2>1. s * p + p <= z * p /\ s * p \in Nat /\ z * p \in Nat
    BY <1>1, <1>9, Steps
  <2>2. QED
    BY <1>1, <1>2, <1>5, <1>6, <1>7, <2>1
<1>10. QED
  BY <1>4, <1>8, <1>9

(* The ticks the kernel tells are whole microseconds: they are kept as     *)
(* they were, unless they are KernelMax seconds.                           *)
LEMMA UnixRestores ==
  ASSUME platform = "unix", NEW r \in 1 .. KernelMax * TicksPerSec
  PROVE  LET d == FromTimeval(KernelTells(r))
         IN  /\ d \in Durations \ {0}
             /\ IF AsSecs(d) >= KernelMax THEN Keep(d) = Never
                                           ELSE Keep(d) = r
<1>1. PICK p \in Nat \ {0}, t \in Nat \ {0}, S \in Nat \ {0}, u \in Nat \ {0},
           m \in Nat \ {0} :
        /\ p = TicksPerSec /\ t = NanosPerTick /\ S = NanosPerSec
        /\ u = NanosPerMicro /\ m = MicrosPerTick /\ S = p * t /\ t = m * u
  BY Units
<1>2. /\ KernelMax \in Nat /\ U64Max \in Nat /\ KernelMax <= U64Max
      /\ r \in Nat \ {0} /\ r # Never
  BY Widths
<1>3. r <= KernelMax * p /\ KernelMax * p \in Nat
  BY <1>1, <1>2
<1>4. PICK s \in Nat : s = r \div p
  BY <1>1, <1>2, Quotient
<1>5. s * p \in Nat /\ s * p <= r /\ r < s * p + p
  BY <1>1, <1>2, <1>4, Quotient
<1>6. PICK x \in 0 .. p - 1 : x = r % p /\ r = s * p + x
  <2>1. r % p = r - s * p
    BY <1>1, <1>2, <1>4, Rem
  <2>2. r - s * p \in 0 .. p - 1 /\ r = s * p + (r - s * p)
    BY <1>1, <1>2, <1>5
  <2>3. QED
    BY <2>1, <2>2
<1>7. s <= U64Max
  <2>1. ~(KernelMax < s)
    <3>1. ASSUME KernelMax < s PROVE FALSE
      <4>1. KernelMax * p + p <= s * p
        BY <1>1, <1>2, <3>1, Steps
      <4>2. QED
        BY <1>1, <1>2, <1>3, <1>5, <4>1
    <3>2. QED
      BY <3>1
  <2>2. QED
    BY <1>2, <2>1
<1>8. x * m \in Nat /\ (x * m) * u = x * t /\ x * t \in Nat
  BY <1>1, <1>6
<1>9. x * t \in 0 .. S - 1
  <2>1. x * t + t <= p * t
    BY <1>1, <1>6, Steps
  <2>2. QED
    BY <1>1, <1>8, <2>1
<1>10. ~(s = 0 /\ x * m = 0)
  <2>1. x = 0 \/ x * m # 0
    BY <1>1, <1>6, Product
  <2>2. QED
    BY <1>1, <1>2, <1>6, <2>1
<1>11. PICK d \in Nat : d = s * S + x * t
  BY <1>1, <1>8
<1>12. FromTimeval(KernelTells(r)) = d
  <2>1. KernelTells(r) = [sec |-> s, usec |-> x * m]
    BY <1>1, <1>2, <1>4, <1>6 DEF KernelTells
  <2>2. FromTimeval(KernelTells(r)) = s * S + (x * m) * u
    BY <1>1, <1>10, <2>1 DEF FromTimeval
  <2>3. QED
    BY <1>8, <1>11, <2>2
<1>13. AsSecs(d) = s /\ SubsecNanos(d) = x * t /\ d \in Durations
  BY <1>1, <1>7, <1>9, <1>11, Together
<1>14. d # 0
  <2>1. s = 0 \/ s * S # 0
    BY <1>1, Product
  <2>2. x = 0 \/ x * t # 0
    BY <1>1, <1>6, Product
  <2>3. s # 0 \/ x # 0
    BY <1>1, <1>2, <1>6
  <2>4. s * S \in Nat
    BY <1>1
  <2>5. QED
    BY <1>8, <1>11, <2>1, <2>2, <2>3, <2>4
<1>15. CASE s >= KernelMax
  BY <1>12, <1>13, <1>14, <1>15, UnixKeeps
<1>16. CASE ~(s >= KernelMax)
  <2>1. (x * t) \div u = x * m
    <3>1. (x * m) * u <= x * t /\ x * t < (x * m) * u + u
      BY <1>1, <1>8
    <3>2. QED
      BY <1>1, <1>8, <3>1, Unique
  <2>2. Micros(s, x * t) = x * m
    BY <1>1, <1>10, <2>1 DEF Micros
  <2>3. Ticks(s, x * t) = x
    <3>1. x \in Nat /\ x * m <= x * m /\ x * m < x * m + m
      BY <1>1, <1>6, <1>8
    <3>2. CeilDiv(x * m, m) = x
      BY <1>1, <1>8, <3>1, CeilUnique
    <3>3. QED
      BY <1>1, <2>2, <3>2 DEF Ticks
  <2>4. Keep(d) = r
    <3>1. s < KernelMax
      BY <1>2, <1>16
    <3>2. Keep(d) = AsSecs(d) * TicksPerSec
                      + Ticks(AsSecs(d), SubsecNanos(d))
      BY <1>13, <1>14, <3>1, UnixKeeps
    <3>3. QED
      BY <1>1, <1>6, <1>13, <2>3, <3>2
  <2>5. QED
    BY <1>12, <1>13, <1>14, <1>16, <2>4
<1>17. QED
  BY <1>15, <1>16

-----------------------------------------------------------------------------
(* The invariant of the timeouts: the option is what the last argument     *)
(* that was taken comes to, which is never zero.                           *)

Lengths == Durations \ {0}

Kept ==
  /\ platform \in Platforms
  /\ option \in [TimeoutKinds -> (1 .. Longest) \cup {Never}]
  /\ asked \in [TimeoutKinds -> Lengths \cup {Never}]
  /\ refused \in SUBSET {0}
  /\ \A k \in TimeoutKinds : option[k] = Keep(asked[k])

(* Both platforms round before they compare with zero; rounding up makes   *)
(* that the same as comparing with zero.                                   *)
LEMMA ZeroIsZero ==
  ASSUME platform \in Platforms, NEW d \in Durations
  PROVE  IsZero(d) <=> d = 0
<1>1. CASE platform = "unix"
  <2>1. PICK s \in Nat, n \in Nat, S \in Nat \ {0} :
          s = AsSecs(d) /\ n = SubsecNanos(d) /\ d = s * S + n
    <3>1. NanosPerSec \in Nat \ {0}
      BY Units
    <3>2. /\ AsSecs(d) \in Nat /\ SubsecNanos(d) \in Nat
          /\ d = AsSecs(d) * NanosPerSec + SubsecNanos(d)
      BY <3>1, Split
    <3>3. QED
      BY <3>1, <3>2
  <2>2. PICK x \in Nat : x = s * S /\ (x = 0 <=> s = 0)
    <3>1. s * S \in Nat /\ (s # 0 => s * S # 0) /\ (s = 0 => s * S = 0)
      BY <2>1, Product
    <3>2. QED
      BY <3>1
  <2>3. d = 0 <=> s = 0 /\ n = 0
    <3>1. d = x + n
      BY <2>1, <2>2
    <3>2. x + n = 0 <=> x = 0 /\ n = 0
      OBVIOUS
    <3>3. QED
      BY <2>2, <3>1, <3>2
  <2>4. QED
    BY <1>1, <2>1, <2>3 DEF IsZero
<1>2. CASE platform = "windows"
  <2>1. CASE d = 0
    <3>1. NanosPerMilli \in Nat \ {0}
      BY Units
    <3>2. CeilDiv(0, NanosPerMilli) = 0
      BY <3>1, CeilUnique
    <3>3. Millis(d) = 0
      BY <2>1, <3>2, MillisAreCeil
    <3>4. QED
      BY <1>2, <2>1, <3>3, Widths DEF IsZero, Dur2timeout
  <2>2. CASE d # 0
    BY <1>2, <2>2, WindowsKeeps DEF IsZero
  <2>3. QED
    BY <2>1, <2>2
<1>3. QED
  BY <1>1, <1>2, Widths

LEMMA KeepsRange ==
  ASSUME platform \in Platforms, NEW d \in Lengths \cup {Never}
  PROVE  Keep(d) \in (1 .. Longest) \cup {Never}
<1>1. CASE d = Never
  BY <1>1 DEF Keep
<1>2. CASE d \in Lengths /\ platform = "windows"
  <2>1. d \in Nat
    BY <1>2, Split DEF Lengths
  <2>2. Keep(d) \in 1 .. UlongMax
    BY <1>2, <2>1, WindowsGrows DEF Lengths
  <2>3. QED
    BY <1>2, <2>2 DEF Longest
<1>3. CASE d \in Lengths /\ platform = "unix"
  <2>1. AsSecs(d) \in Nat /\ KernelMax \in Nat
    BY <1>3, Split, Widths DEF Lengths
  <2>2. CASE AsSecs(d) >= KernelMax
    BY <1>3, <2>2, UnixKeeps DEF Lengths
  <2>3. CASE AsSecs(d) < KernelMax
    BY <1>3, <2>3, UnixRange DEF Lengths, Longest
  <2>4. QED
    BY <2>1, <2>2, <2>3
<1>4. QED
  BY <1>1, <1>2, <1>3, Widths

(* What read_timeout and write_timeout return.                             *)
LEMMA TimeoutRange ==
  ASSUME Kept, NEW k \in TimeoutKinds
  PROVE  Timeout(k) \in Lengths \cup {Never}
<1>1. platform \in {"unix", "windows"}
      /\ option[k] \in (1 .. Longest) \cup {Never}
  BY Widths DEF Kept
<1>2. CASE option[k] = Never
  BY <1>1, <1>2
  DEF Timeout, KernelTells, FromTimeval, FromMillis
<1>3. CASE option[k] # Never /\ platform = "unix"
  <2>1. option[k] \in 1 .. KernelMax * TicksPerSec
    BY <1>1, <1>3 DEF Longest
  <2>2. QED
    BY <1>1, <1>3, <2>1, UnixRestores DEF Lengths, Timeout
<1>4. CASE option[k] # Never /\ platform = "windows"
  <2>1. option[k] \in 1 .. UlongMax
    BY <1>1, <1>4 DEF Longest
  <2>2. QED
    BY <1>1, <1>4, <2>1, WindowsRestores DEF Lengths, Timeout
<1>5. QED
  BY <1>1, <1>2, <1>3, <1>4

LEMMA KeptInitially == TimeoutInit => Kept
<1> SUFFICES ASSUME TimeoutInit PROVE Kept
  OBVIOUS
<1>1. Keep(Never) = Never
  BY DEF Keep
<1>2. QED
  BY <1>1 DEF Kept, TimeoutInit

(* The whole of the option and the argument depends on the platform, which *)
(* stays.                                                                  *)
LEMMA Stays ==
  ASSUME UNCHANGED platform, NEW k \in TimeoutKinds
  PROVE  Longest' = Longest /\ Keep(asked[k])' = Keep(asked'[k])
  BY DEF Longest, Keep

LEMMA SetKeeps ==
  ASSUME Kept, NEW k \in TimeoutKinds, NEW dur \in Durations \cup {Never},
         SetTimeout(k, dur)
  PROVE  Kept'
<1>1. platform \in Platforms /\ UNCHANGED platform /\ platform' \in Platforms
  BY DEF Kept, SetTimeout
<1>2. ASSUME UNCHANGED <<option, asked>>, refused' \in SUBSET {0}
      PROVE  Kept'
  <2>1. \A j \in TimeoutKinds : option'[j] = Keep(asked[j])'
    BY <1>1, <1>2, Stays DEF Kept
  <2>2. Longest' = Longest
    BY <1>1 DEF Longest
  <2>3. QED
    BY <1>1, <1>2, <2>1, <2>2 DEF Kept, TimeoutKinds
<1>3. CASE /\ dur # Never /\ IsZero(dur)
           /\ refused' = refused \cup {dur}
           /\ UNCHANGED <<option, asked>>
  <2>1. dur = 0
    BY <1>1, <1>3, ZeroIsZero
  <2>2. QED
    BY <1>2, <1>3, <2>1 DEF Kept
<1>4. CASE /\ dur # Never => ~IsZero(dur)
           /\ option' = [option EXCEPT ![k] = Keep(dur)]
           /\ asked' = [asked EXCEPT ![k] = dur]
           /\ UNCHANGED refused
  <2>1. dur \in Lengths \cup {Never}
    BY <1>1, <1>4, ZeroIsZero DEF Lengths
  <2>2. Keep(dur) \in (1 .. Longest) \cup {Never}
    BY <1>1, <2>1, KeepsRange
  <2>3. /\ option' \in [TimeoutKinds -> (1 .. Longest) \cup {Never}]
        /\ asked' \in [TimeoutKinds -> Lengths \cup {Never}]
    BY <1>4, <2>1, <2>2 DEF Kept
  <2>4. \A j \in TimeoutKinds : option'[j] = Keep(asked'[j])
    BY <1>4 DEF Kept
  <2>5. \A j \in TimeoutKinds : option'[j] = Keep(asked[j])'
    BY <1>1, <2>4, Stays
  <2>6. Longest' = Longest
    BY <1>1 DEF Longest
  <2>7. QED
    BY <1>1, <1>4, <2>3, <2>5, <2>6 DEF Kept
<1>5. CASE UNCHANGED <<option, asked, refused>>
  BY <1>2, <1>5 DEF Kept
<1>6. QED
  BY <1>3, <1>4, <1>5 DEF SetTimeout

LEMMA KeptInductive == Kept /\ [TimeoutNext]_(timeoutVars) => Kept'
<1> SUFFICES ASSUME Kept, [TimeoutNext]_(timeoutVars) PROVE Kept'
  OBVIOUS
<1>1. CASE UNCHANGED timeoutVars
  BY <1>1 DEF timeoutVars, Kept, Longest, Keep
<1>2. ASSUME NEW k \in TimeoutKinds, Restore(k) PROVE Kept'
  <2>1. Timeout(k) \in Durations \cup {Never}
    BY TimeoutRange DEF Lengths
  <2>2. QED
    BY <1>2, <2>1, SetKeeps DEF Restore
<1>3. QED
  BY <1>1, <1>2, SetKeeps DEF TimeoutNext

LEMMA KeptAlways == TimeoutSpec => []Kept
<1>1. TimeoutInit => Kept
  BY KeptInitially
<1>2. Kept /\ [TimeoutNext]_(timeoutVars) => Kept'
  BY KeptInductive
<1>3. QED
  BY <1>1, <1>2, PTL DEF TimeoutSpec

-----------------------------------------------------------------------------
(* What follows for the timeouts.                                          *)

(* The kernel's option stays in its range, whatever the Durations.         *)
THEOREM TimeoutTypes == TimeoutSpec => []TimeoutTypeOK
<1>1. ASSUME Kept PROVE TimeoutTypeOK
  <2>1. 0 \in Durations
    <3>1. /\ NanosPerSec \in Nat \ {0} /\ U64Max \in Nat
          /\ U64Max * NanosPerSec \in Nat
      BY <1>1, Units, Widths DEF Kept
    <3>2. QED
      BY <3>1 DEF Durations
  <2>2. QED
    BY <1>1, <2>1 DEF Kept, Lengths, TimeoutTypeOK
<1>2. QED
  BY <1>1, KeptAlways, PTL

(* How long the socket waits, against the Duration it was asked for.       *)
LEMMA WaitsEnough ==
  ASSUME Kept, NEW k \in TimeoutKinds
  PROVE  CASE asked[k] = Never -> Waits(k) = Never
           [] asked[k] # Never /\ Waits(k) = Never -> TooLong(asked[k])
           [] asked[k] # Never /\ Waits(k) # Never ->
                LET late == Waits(k) - asked[k]
                IN  IF platform = "unix"
                    THEN /\ -NanosPerMicro < late
                         /\ late < NanosPerMicro + NanosPerTick
                    ELSE 0 <= late /\ late < NanosPerMilli
<1>1. /\ platform \in {"unix", "windows"}
      /\ asked[k] \in Lengths \cup {Never} /\ option[k] = Keep(asked[k])
  BY Widths DEF Kept
<1>2. CASE asked[k] = Never
  BY <1>1, <1>2 DEF Keep, Waits
<1>3. CASE asked[k] # Never /\ platform = "windows"
  <2>1. PICK d \in Lengths : d = asked[k]
    BY <1>1, <1>3
  <2>2. PICK m \in Nat \ {0}, c \in Nat \ {0} :
          /\ m = NanosPerMilli /\ c = Millis(d) /\ d \in Nat
          /\ d <= c * m /\ c * m < d + m /\ c * m \in Nat
          /\ option[k] = IF c > UlongMax THEN UlongMax ELSE c
    <3>1. PICK m \in Nat \ {0} : m = NanosPerMilli
      BY <1>1, Units
    <3>2. PICK c \in Nat \ {0} : c = Millis(d)
      BY <1>1, <1>3, WindowsKeeps DEF Lengths
    <3>3. c * m \in Nat
      BY <3>1, <3>2
    <3>4. QED
      BY <1>1, <1>3, <2>1, <3>1, <3>2, <3>3, WindowsKeeps, Split DEF Lengths
  <2>3. option[k] \in Nat /\ option[k] # Never /\ UlongMax \in Nat
    BY <1>1, <2>2, Widths
  <2>4. CASE option[k] = UlongMax
    <3>1. Waits(k) = Never
      BY <1>3, <2>3, <2>4 DEF Waits
    <3>2. TooLong(d)
      BY <1>3, <2>2, <2>3, <2>4 DEF TooLong
    <3>3. QED
      BY <1>3, <2>1, <3>1, <3>2
  <2>5. CASE option[k] # UlongMax
    <3>1. Waits(k) = c * m
      BY <1>3, <2>2, <2>3, <2>5 DEF Waits
    <3>2. c * m # Never /\ 0 <= c * m - d /\ c * m - d < m
      BY <1>1, <2>2, Widths
    <3>3. QED
      BY <1>3, <2>1, <2>2, <3>1, <3>2
  <2>6. QED
    BY <2>4, <2>5
<1>4. CASE asked[k] # Never /\ platform = "unix"
  <2>1. PICK d \in Lengths : d = asked[k]
    BY <1>1, <1>4
  <2>2. AsSecs(d) \in Nat /\ KernelMax \in Nat /\ d \in Nat
    BY <1>1, Split, Widths DEF Lengths
  <2>3. CASE AsSecs(d) >= KernelMax
    <3>1. option[k] = Never
      BY <1>1, <1>4, <2>1, <2>3, UnixKeeps DEF Lengths
    <3>2. Waits(k) = Never /\ TooLong(d)
      BY <1>4, <2>3, <3>1 DEF Waits, TooLong
    <3>3. QED
      BY <1>4, <2>1, <3>2
  <2>4. CASE AsSecs(d) < KernelMax
    <3>1. PICK t \in Nat \ {0}, u \in Nat \ {0}, p \in Nat \ {0} :
            /\ t = NanosPerTick /\ u = NanosPerMicro /\ p = TicksPerSec
      BY <1>1, Units
    <3>2. PICK c \in 1 .. KernelMax * p :
            c = option[k] /\ d < c * t + u /\ c * t < d + t
      BY <1>1, <1>4, <2>1, <2>4, <3>1, UnixRange DEF Lengths
    <3>3. c \in Nat /\ c * t \in Nat
      BY <2>2, <3>1, <3>2
    <3>4. Waits(k) = c * t
      BY <1>1, <1>4, <3>1, <3>2, <3>3, Widths DEF Waits
    <3>5. c * t # Never /\ -u < c * t - d /\ c * t - d < u + t
      BY <1>1, <2>2, <3>1, <3>2, <3>3, Widths
    <3>6. QED
      BY <1>4, <2>1, <3>1, <3>4, <3>5
  <2>5. AsSecs(d) >= KernelMax \/ AsSecs(d) < KernelMax
    BY <2>2
  <2>6. QED
    BY <2>3, <2>4, <2>5
<1>5. QED
  BY <1>1, <1>2, <1>3, <1>4

(* Exactly the zero Duration is refused, and what is kept waits as long as *)
(* was asked, to the rounding of the platform: for ever only without a     *)
(* timeout or beyond what the platform can count.                          *)
THEOREM TimeoutsHold == TimeoutSpec => []RefusedOrKept
<1>1. ASSUME Kept PROVE RefusedOrKept
  <2>1. OnlyZeroIsRefused
    BY <1>1, Widths DEF Kept, Lengths, OnlyZeroIsRefused
  <2>2. WaitsAsAsked
    BY <1>1, WaitsEnough DEF WaitsAsAsked
  <2>3. QED
    BY <2>1, <2>2 DEF RefusedOrKept
<1>2. QED
  BY <1>1, KeptAlways, PTL

(* A caller that saves the timeout and puts it back changes nothing, but   *)
(* for one rounded up to the end of the range.                             *)
LEMMA RestoreStep ==
  ASSUME Kept, NEW k \in TimeoutKinds, Restore(k)
  PROVE  \/ UNCHANGED option
         \/ /\ Timeout(k) # Never /\ TooLong(Timeout(k))
            /\ option'[k] = Never
<1>1. /\ platform \in {"unix", "windows"}
      /\ option \in [TimeoutKinds -> (1 .. Longest) \cup {Never}]
  BY Widths DEF Kept
<1>2. CASE Keep(Timeout(k)) = option[k]
  <2>1. UNCHANGED option \/ option' = [option EXCEPT ![k] = option[k]]
    BY <1>2 DEF Restore, SetTimeout
  <2>2. QED
    BY <1>1, <2>1
<1>3. CASE option[k] = Never
  <2>1. Timeout(k) = Never
    BY <1>1, <1>3
    DEF Timeout, KernelTells, FromTimeval, FromMillis
  <2>2. Keep(Never) = Never
    BY DEF Keep
  <2>3. QED
    BY <1>2, <1>3, <2>1, <2>2
<1>4. CASE option[k] # Never /\ platform = "windows"
  <2>1. option[k] \in 1 .. UlongMax
    BY <1>1, <1>4 DEF Longest
  <2>2. Keep(Timeout(k)) = option[k]
    BY <1>1, <1>4, <2>1, WindowsRestores DEF Timeout
  <2>3. QED
    BY <1>2, <2>2
<1>5. CASE option[k] # Never /\ platform = "unix"
  <2>1. option[k] \in 1 .. KernelMax * TicksPerSec
    BY <1>1, <1>5 DEF Longest
  <2>2. PICK d \in Lengths :
          /\ d = Timeout(k)
          /\ IF AsSecs(d) >= KernelMax THEN Keep(d) = Never
                                        ELSE Keep(d) = option[k]
    BY <1>1, <1>5, <2>1, UnixRestores DEF Lengths, Timeout
  <2>3. CASE AsSecs(d) >= KernelMax
    <3>1. d # Never
      BY <1>1, Split, Widths DEF Lengths
    <3>2. TooLong(d)
      BY <1>5, <2>3 DEF TooLong
    <3>3. UNCHANGED option \/ option'[k] = Never
      BY <1>1, <2>2, <2>3 DEF Restore, SetTimeout
    <3>4. QED
      BY <2>2, <3>1, <3>2, <3>3
  <2>4. CASE ~(AsSecs(d) >= KernelMax)
    BY <1>2, <2>2, <2>4
  <2>5. QED
    BY <2>3, <2>4
<1>6. QED
  BY <1>1, <1>3, <1>4, <1>5

THEOREM RestoringHolds == TimeoutSpec => RestoringChangesNothing
<1>1. Kept /\ [TimeoutNext]_(timeoutVars)
        => [\A k \in TimeoutKinds :
              Restore(k) =>
                \/ UNCHANGED option
                \/ /\ Timeout(k) # Never /\ TooLong(Timeout(k))
                   /\ option'[k] = Never]_(timeoutVars)
  BY RestoreStep
<1>2. QED
  BY <1>1, KeptAlways, PTL DEF TimeoutSpec, RestoringChangesNothing

(* Asking for more never gives less.                                       *)
LEMMA LongerStep ==
  ASSUME Kept, Kept', UNCHANGED platform, NEW k \in TimeoutKinds,
         asked[k] # Never, asked'[k] # Never, asked[k] <= asked'[k]
  PROVE  \/ Waits(k)' = Never
         \/ Waits(k) # Never /\ Waits(k) <= Waits(k)'
<1>1. platform \in {"unix", "windows"}
  BY Widths DEF Kept
<1>2. PICK d \in Lengths, e \in Lengths :
        d = asked[k] /\ e = asked'[k] /\ d <= e
  BY DEF Kept
<1>3. option[k] = Keep(d) /\ option'[k] = Keep(e)
  <2>1. option'[k] = Keep(asked[k])'
    BY DEF Kept
  <2>2. QED
    BY <1>2, <2>1, Stays DEF Kept
<1>4. CASE platform = "windows"
  <2>1. PICK i \in 1 .. UlongMax, j \in 1 .. UlongMax :
          i = option[k] /\ j = option'[k] /\ i <= j
    BY <1>1, <1>2, <1>3, <1>4, WindowsGrows DEF Lengths
  <2>2. /\ i \in Nat /\ j \in Nat /\ UlongMax \in Nat
        /\ i # Never /\ j # Never
    BY <1>1, <2>1, Widths
  <2>3. PICK m \in Nat \ {0} : m = NanosPerMilli
    BY <1>1, Units
  <2>4. Waits(k)' = IF j = UlongMax THEN Never ELSE j * m
    BY <1>4, <2>1, <2>2, <2>3 DEF Waits
  <2>5. Waits(k) = IF i = UlongMax THEN Never ELSE i * m
    BY <1>4, <2>1, <2>2, <2>3 DEF Waits
  <2>6. CASE j = UlongMax
    BY <2>4, <2>6
  <2>7. CASE j # UlongMax
    <3>1. i # UlongMax
      BY <2>1, <2>2, <2>7
    <3>2. i * m <= j * m /\ i * m # Never
      <4>1. i = j \/ i < j
        BY <2>1, <2>2
      <4>2. i * m \in Nat /\ j * m \in Nat
        BY <2>2, <2>3
      <4>3. QED
        BY <1>1, <2>2, <2>3, <4>1, <4>2, Steps, Widths
    <3>3. QED
      BY <2>4, <2>5, <2>7, <3>1, <3>2
  <2>8. QED
    BY <2>6, <2>7
<1>5. CASE platform = "unix"
  <2>1. AsSecs(e) \in Nat /\ KernelMax \in Nat
    BY <1>1, Split, Widths DEF Lengths
  <2>2. CASE AsSecs(e) >= KernelMax
    <3>1. option'[k] = Never
      BY <1>1, <1>3, <1>5, <2>2, UnixKeeps DEF Lengths
    <3>2. QED
      BY <3>1 DEF Waits
  <2>3. CASE AsSecs(e) < KernelMax
    <3>1. AsSecs(d) < KernelMax /\ Keep(d) <= Keep(e)
      BY <1>1, <1>2, <1>5, <2>3, UnixGrows DEF Lengths
    <3>2. PICK i \in Nat, j \in Nat :
            i = option[k] /\ j = option'[k] /\ i <= j
      <4>1. KernelMax * TicksPerSec \in Nat
        BY <1>1, <2>1, Units
      <4>2. Keep(d) \in Nat /\ Keep(e) \in Nat
        BY <1>1, <1>5, <2>3, <3>1, <4>1, UnixRange DEF Lengths
      <4>3. QED
        BY <1>3, <3>1, <4>2
    <3>3. PICK t \in Nat \ {0} : t = NanosPerTick
      BY <1>1, Units
    <3>4. i # Never /\ j # Never
      BY <1>1, <3>2, Widths
    <3>5. Waits(k)' = j * t /\ Waits(k) = i * t
      BY <1>5, <3>2, <3>3, <3>4 DEF Waits
    <3>6. i * t <= j * t /\ i * t # Never
      <4>1. i = j \/ i < j
        BY <3>2
      <4>2. i * t \in Nat /\ j * t \in Nat
        BY <3>2, <3>3
      <4>3. QED
        BY <1>1, <3>2, <3>3, <4>1, <4>2, Steps, Widths
    <3>7. QED
      BY <3>5, <3>6
  <2>4. QED
    BY <2>1, <2>2, <2>3
<1>6. QED
  BY <1>1, <1>4, <1>5

THEOREM LongerHolds == TimeoutSpec => LongerIsNotShorter
<1>1. Kept /\ Kept' /\ [TimeoutNext]_(timeoutVars)
        => [\A k \in TimeoutKinds :
              asked[k] # Never /\ asked'[k] # Never /\ asked[k] <= asked'[k] =>
                \/ Waits(k)' = Never
                \/ Waits(k) # Never /\ Waits(k) <= Waits(k)']_(timeoutVars)
  <2>1. TimeoutNext => UNCHANGED platform
    BY DEF TimeoutNext, Restore, SetTimeout
  <2>2. QED
    BY <2>1, LongerStep
<1>2. QED
  BY <1>1, KeptAlways, PTL DEF TimeoutSpec, LongerIsNotShorter

=============================================================================
