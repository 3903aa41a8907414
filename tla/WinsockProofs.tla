--------------------------- MODULE WinsockProofs ---------------------------
(***************************************************************************)
(* The invariants of Winsock hold for any set of threads and error codes.  *)
(*                                                                         *)
(* Inside(t) says that t runs the closure of init: one thread at most, and *)
(* only while START is running.  A step of a thread is described by what   *)
(* it does to that thread (Local, Functions), to what the threads share    *)
(* (Globals) and by how little of it the others can notice (Others, Calm); *)
(* Moves collects the four, and that it keeps the invariant is proved      *)
(* once, whatever the action was.                                          *)
(***************************************************************************)
EXTENDS Winsock, TLAPS

Labels == {"idle", "once", "std once", "startup", "bind", "drop dummy",
           "protocol", "open", "no inherit", "ask", "ask and drop", "drop"}

Results == Errors \cup {"none", "ok", "panic", "InvalidData"}

Past   == {"protocol", "open", "no inherit", "ask", "ask and drop", "drop"}
Within == {"std once", "startup", "bind", "drop dummy"}

Inside(t) == pc[t] \in Within /\ call[t] # "net"

(* The domains, which TypeOK leaves open.                                  *)
Functions ==
  /\ pc \in [Threads -> Labels]
  /\ call \in [Threads -> Calls]
  /\ lastError \in [Threads -> Errors \cup {"none"}]
  /\ result \in [Threads -> Results]
  /\ cause \in [Threads -> Errors \cup {"none"}]

(* What a completed Once stands for.                                       *)
Globals ==
  /\ once \in OnceState /\ stdOnce \in OnceState
  /\ started \in BOOLEAN
  /\ port \in {"free", "dummy", "other"}
  /\ dummies \in {0, 1}
  /\ stdOnce = "complete" => started
  /\ once = "complete" => stdOnce = "complete"
  /\ once = "incomplete" => dummies = 0

(* What the place of a thread says of the Onces, the dummy and the errors. *)
Local(t) ==
  /\ pc[t] \in Past => once = "complete"
  /\ pc[t] \in {"bind", "drop dummy"} => stdOnce = "complete"
  /\ pc[t] \in Past \cup {"once", "bind", "drop dummy"} => call[t] # "net"
  /\ pc[t] = "startup" => stdOnce = "running"
  /\ Inside(t) => once = "running"
  /\ Inside(t) => dummies = IF pc[t] = "drop dummy" THEN 1 ELSE 0
  /\ pc[t] \in {"ask", "ask and drop"} =>
       cause[t] \in Errors /\ lastError[t] = cause[t]
  /\ pc[t] = "drop" => result[t] \in Errors
  /\ pc[t] \in {"idle", "drop"} /\ result[t] \in Errors => result[t] = cause[t]

OneInside ==
  \A t, u \in Threads :
    \/ Inside(t) /\ Inside(u)
    \/ pc[t] = "startup" /\ pc[u] = "startup"
    => t = u

DummyHasOwner == port = "dummy" => \E t \in Threads : pc[t] = "drop dummy"

IInv ==
  /\ Functions /\ Globals
  /\ \A t \in Threads : Local(t)
  /\ OneInside /\ DummyHasOwner

-----------------------------------------------------------------------------
(* A step of one thread.                                                   *)

Others(t) ==
  \A u \in Threads \ {t} :
    /\ pc'[u] = pc[u] /\ call'[u] = call[u] /\ lastError'[u] = lastError[u]
    /\ result'[u] = result[u] /\ cause'[u] = cause[u]

(* The Onces stay complete; START, the number of dummies and the other Once*)
(* are changed from inside only, or by the one that enters; the port is    *)
(* the dummy's only while somebody has the dummy.                          *)
Calm(t) ==
  /\ once = "complete" => once' = "complete"
  /\ stdOnce = "complete" => stdOnce' = "complete"
  /\ \/ Inside(t) \/ once = "incomplete"
     \/ once' = once /\ dummies' = dummies
  /\ pc[t] = "startup" \/ stdOnce = "incomplete" \/ stdOnce' = stdOnce
  /\ pc'[t] = "startup" => pc[t] = "startup" \/ stdOnce = "incomplete"
  /\ Inside(t)' => Inside(t) \/ once = "incomplete"
  /\ port' = "dummy" =>
       pc'[t] = "drop dummy" \/ (port = "dummy" /\ pc[t] # "drop dummy")

Moves(t) == Functions' /\ Globals' /\ Local(t)' /\ Others(t) /\ Calm(t)

LEMMA GotoEffect ==
  ASSUME Functions, NEW t \in Threads, NEW l \in Labels, Goto(t, l)
  PROVE  /\ pc' \in [Threads -> Labels]
         /\ pc'[t] = l
         /\ \A u \in Threads \ {t} : pc'[u] = pc[u]
  BY DEF Functions, Goto

LEMMA ReturnEffect ==
  ASSUME Functions, NEW t \in Threads, NEW v \in Results, Return(t, v)
  PROVE  /\ pc' \in [Threads -> Labels]
         /\ pc'[t] = "idle"
         /\ result' \in [Threads -> Results]
         /\ result'[t] = v
         /\ \A u \in Threads \ {t} : pc'[u] = pc[u] /\ result'[u] = result[u]
  BY GotoEffect DEF Functions, Return, Labels

LEMMA FailEffect ==
  ASSUME Functions, NEW t \in Threads, NEW e \in Errors, FailWith(t, e)
  PROVE  /\ lastError' \in [Threads -> Errors \cup {"none"}]
         /\ cause' \in [Threads -> Errors \cup {"none"}]
         /\ lastError'[t] = e /\ cause'[t] = e
         /\ \A u \in Threads \ {t} :
              lastError'[u] = lastError[u] /\ cause'[u] = cause[u]
  BY DEF Functions, FailWith

LEMMA ErrorCodes ==
  /\ Errors # {}
  /\ \A e \in Errors : e \notin {"none", "ok", "panic", "InvalidData"}
  BY ErrorsAssumption

(* A thread outside of everything has nothing to answer for but its result.*)
LEMMA ReturnIsLocal ==
  ASSUME Functions, NEW t \in Threads, NEW v \in Results, Return(t, v),
         v \in Errors => v = cause'[t]
  PROVE  Local(t)' /\ ~Inside(t)' /\ pc'[t] = "idle"
  BY ReturnEffect DEF Local, Inside, Past, Within

LEMMA CallMoves ==
  ASSUME Functions, Globals, NEW t \in Threads, Local(t),
         NEW c \in Calls, Call(t, c)
  PROVE  Moves(t)
<1>1. Functions'
  BY GotoEffect DEF Functions, Call, Calls, Labels, Results
<1>2. Others(t)
  BY DEF Functions, Others, Call, Calls, Goto
<1>3. Globals'
  BY DEF Globals, OnceState, Local, Inside, Past, Within, Call, Calls, onces
<1>4. Local(t)'
  BY GotoEffect, ErrorCodes
  DEF Functions, Globals, OnceState, Local, Inside, Past, Within, Labels, Results,
      Call, Calls, onces
<1>5. Calm(t)
  BY GotoEffect, ErrorCodes
  DEF Functions, Globals, Local, Calm, Inside, Past, Within, Labels, Results,
      Call, Calls, onces
<1>6. QED
  BY <1>1, <1>2, <1>3, <1>4, <1>5 DEF Moves

LEMMA EnterFirstMoves ==
  ASSUME Functions, Globals, NEW t \in Threads, Local(t), EnterFirst(t)
  PROVE  Moves(t)
<1>1. Functions'
  BY GotoEffect DEF Functions, EnterFirst, Labels, Results
<1>2. Others(t)
  BY DEF Functions, Others, EnterFirst, Goto
<1>3. Globals'
  BY DEF Globals, OnceState, Local, Inside, Past, Within, EnterFirst, onces
<1>4. Local(t)'
  BY GotoEffect, ErrorCodes
  DEF Functions, Globals, OnceState, Local, Inside, Past, Within, Labels, Results,
      EnterFirst, onces
<1>5. Calm(t)
  BY GotoEffect, ErrorCodes
  DEF Functions, Globals, Local, Calm, Inside, Past, Within, Labels, Results,
      EnterFirst, onces
<1>6. QED
  BY <1>1, <1>2, <1>3, <1>4, <1>5 DEF Moves

LEMMA EnterLaterMoves ==
  ASSUME Functions, Globals, NEW t \in Threads, Local(t), EnterLater(t)
  PROVE  Moves(t)
<1>1. Functions'
  BY GotoEffect DEF Functions, EnterLater, Labels, Results
<1>2. Others(t)
  BY DEF Functions, Others, EnterLater, Goto
<1>3. Globals'
  BY DEF Globals, OnceState, Local, Inside, Past, Within, EnterLater, onces
<1>4. Local(t)'
  BY GotoEffect, ErrorCodes
  DEF Functions, Globals, OnceState, Local, Inside, Past, Within, Labels, Results,
      EnterLater, onces
<1>5. Calm(t)
  BY GotoEffect, ErrorCodes
  DEF Functions, Globals, Local, Calm, Inside, Past, Within, Labels, Results,
      EnterLater, onces
<1>6. QED
  BY <1>1, <1>2, <1>3, <1>4, <1>5 DEF Moves

LEMMA EnterPoisonedMoves ==
  ASSUME Functions, Globals, NEW t \in Threads, Local(t), EnterPoisoned(t)
  PROVE  Moves(t)
<1>1. Functions'
  BY ReturnEffect DEF Functions, EnterPoisoned, Labels, Results
<1>2. Others(t)
  BY DEF Functions, Others, EnterPoisoned, Goto, Return
<1>3. Globals'
  BY DEF Globals, OnceState, Local, Inside, Past, Within, EnterPoisoned, onces
<1>4. Local(t)'
  BY ReturnEffect, ReturnIsLocal, ErrorCodes
  DEF Functions, Globals, OnceState, Local, Inside, Past, Within, Labels, Results,
      EnterPoisoned, onces
<1>5. Calm(t)
  BY ReturnEffect, ReturnIsLocal, ErrorCodes
  DEF Functions, Globals, Local, Calm, Inside, Past, Within, Labels, Results,
      EnterPoisoned, onces
<1>6. QED
  BY <1>1, <1>2, <1>3, <1>4, <1>5 DEF Moves

LEMMA StdOnceMoves ==
  ASSUME Functions, Globals, NEW t \in Threads, Local(t), StdOnce(t)
  PROVE  Moves(t)
<1>1. Functions'
  BY GotoEffect, ReturnEffect DEF Functions, StdOnce, Unwind, Labels, Results
<1>2. Others(t)
  BY DEF Functions, Others, StdOnce, Unwind, Goto, Return
<1>3. Globals'
  BY DEF Globals, OnceState, Local, Inside, Past, Within, StdOnce, Unwind, onces
<1>4. Local(t)'
  BY GotoEffect, ReturnEffect, ReturnIsLocal, ErrorCodes
  DEF Functions, Globals, OnceState, Local, Inside, Past, Within, Labels, Results,
      StdOnce, Unwind, onces
<1>5. Calm(t)
  BY GotoEffect, ReturnEffect, ReturnIsLocal, ErrorCodes
  DEF Functions, Globals, Local, Calm, Inside, Past, Within, Labels, Results,
      StdOnce, Unwind, onces
<1>6. QED
  BY <1>1, <1>2, <1>3, <1>4, <1>5 DEF Moves

LEMMA StartupMoves ==
  ASSUME Functions, Globals, NEW t \in Threads, Local(t), Startup(t)
  PROVE  Moves(t)
<1>1. Functions'
  BY GotoEffect, ReturnEffect DEF Functions, Startup, Unwind, Labels, Results
<1>2. Others(t)
  BY DEF Functions, Others, Startup, Unwind, Goto, Return
<1>3. Globals'
  <2>1. stdOnce = "running" /\ once # "complete"
    BY DEF Globals, Startup, Local
  <2>2. QED
    BY <2>1 DEF Globals, OnceState, Startup, Unwind
<1>4. Local(t)'
  BY GotoEffect, ReturnEffect, ReturnIsLocal, ErrorCodes
  DEF Functions, Globals, OnceState, Local, Inside, Past, Within, Labels, Results,
      Startup, Unwind, onces
<1>5. Calm(t)
  BY GotoEffect, ReturnEffect, ReturnIsLocal, ErrorCodes
  DEF Functions, Globals, Local, Calm, Inside, Past, Within, Labels, Results,
      Startup, Unwind, onces
<1>6. QED
  BY <1>1, <1>2, <1>3, <1>4, <1>5 DEF Moves

LEMMA BindDummyMoves ==
  ASSUME Functions, Globals, NEW t \in Threads, Local(t), BindDummy(t)
  PROVE  Moves(t)
<1>1. Functions'
  BY GotoEffect DEF Functions, BindDummy, Labels, Results
<1>2. Others(t)
  BY DEF Functions, Others, BindDummy, Goto
<1>3. Globals'
  <2>1. dummies = 0 /\ once = "running" /\ stdOnce = "complete"
    BY DEF BindDummy, Local, Inside, Within
  <2>2. dummies' = 1
    <3>1. dummies' = dummies + 1
      BY DEF BindDummy
    <3>2. QED
      BY <2>1, <3>1
  <2>3. port' \in {"free", "dummy", "other"} /\ once' \in {"running", "complete"}
    BY <2>1 DEF BindDummy, Globals
  <2>4. stdOnce' = stdOnce /\ started' = started
    BY DEF BindDummy
  <2>5. QED
    BY <2>1, <2>2, <2>3, <2>4 DEF Globals, OnceState
<1>4. Local(t)'
  <2>1. dummies = 0 /\ once = "running" /\ stdOnce = "complete" /\ call[t] # "net"
    BY DEF BindDummy, Local, Inside, Within
  <2>2. CASE Goto(t, "drop dummy") /\ once' = once
    <3>1. pc'[t] = "drop dummy"
      BY <2>2, GotoEffect DEF Labels
    <3>2. dummies' = 1
      <4>1. dummies' = dummies + 1
        BY DEF BindDummy
      <4>2. QED
        BY <2>1, <4>1
    <3>3. call' = call /\ stdOnce' = stdOnce
      BY DEF BindDummy
    <3>4. QED
      BY <2>1, <2>2, <3>1, <3>2, <3>3 DEF Local, Inside, Past, Within
  <2>3. CASE Goto(t, "protocol") /\ once' = "complete"
    <3>1. pc'[t] = "protocol"
      BY <2>3, GotoEffect DEF Labels
    <3>2. QED
      BY <2>1, <2>3, <3>1 DEF Local, Inside, Past, Within, BindDummy
  <2>4. QED
    BY <2>2, <2>3 DEF BindDummy
<1>5. Calm(t)
  BY GotoEffect, ErrorCodes
  DEF Functions, Globals, Local, Calm, Inside, Past, Within, Labels, Results,
      BindDummy, onces
<1>6. QED
  BY <1>1, <1>2, <1>3, <1>4, <1>5 DEF Moves

LEMMA DropDummyMoves ==
  ASSUME Functions, Globals, NEW t \in Threads, Local(t), DropDummy(t)
  PROVE  Moves(t)
<1>1. Functions'
  BY GotoEffect DEF Functions, DropDummy, Labels, Results
<1>2. Others(t)
  BY DEF Functions, Others, DropDummy, Goto
<1>3. Globals'
  BY DEF Globals, OnceState, Local, Inside, Past, Within, DropDummy, onces
<1>4. Local(t)'
  BY GotoEffect, ErrorCodes
  DEF Functions, Globals, OnceState, Local, Inside, Past, Within, Labels, Results,
      DropDummy, onces
<1>5. Calm(t)
  BY GotoEffect, ErrorCodes
  DEF Functions, Globals, Local, Calm, Inside, Past, Within, Labels, Results,
      DropDummy, onces
<1>6. QED
  BY <1>1, <1>2, <1>3, <1>4, <1>5 DEF Moves

LEMMA ChooseProtocolMoves ==
  ASSUME Functions, Globals, NEW t \in Threads, Local(t), ChooseProtocol(t)
  PROVE  Moves(t)
<1>1. Functions'
  BY GotoEffect, ReturnEffect DEF Functions, ChooseProtocol, Labels, Results
<1>2. Others(t)
  BY DEF Functions, Others, ChooseProtocol, Goto, Return
<1>3. Globals'
  BY DEF Globals, OnceState, Local, Inside, Past, Within, ChooseProtocol, onces
<1>4. Local(t)'
  BY GotoEffect, ReturnEffect, ReturnIsLocal, ErrorCodes
  DEF Functions, Globals, OnceState, Local, Inside, Past, Within, Labels, Results,
      ChooseProtocol, onces
<1>5. Calm(t)
  BY GotoEffect, ReturnEffect, ReturnIsLocal, ErrorCodes
  DEF Functions, Globals, Local, Calm, Inside, Past, Within, Labels, Results,
      ChooseProtocol, onces
<1>6. QED
  BY <1>1, <1>2, <1>3, <1>4, <1>5 DEF Moves

LEMMA OpenMoves ==
  ASSUME Functions, Globals, NEW t \in Threads, Local(t), Open(t)
  PROVE  Moves(t)
<1>1. Functions'
  BY GotoEffect, ReturnEffect, FailEffect DEF Functions, Open, Labels, Results
<1>2. Others(t)
  BY DEF Functions, Others, Open, Goto, Return, FailWith
<1>3. Globals'
  BY DEF Globals, OnceState, Local, Inside, Past, Within, Open, onces
<1>4. Local(t)'
  <2>1. once = "complete" /\ call[t] # "net"
    BY DEF Open, Local, Past
  <2>2. CASE Return(t, "ok")
    BY <2>2, ReturnIsLocal, ErrorCodes DEF Results
  <2>3. CASE Goto(t, "no inherit")
    <3>1. pc'[t] = "no inherit"
      BY <2>3, GotoEffect DEF Labels
    <3>2. QED
      BY <2>1, <3>1 DEF Local, Inside, Within, Open, onces
  <2>4. ASSUME NEW e \in Errors, FailWith(t, e), Goto(t, "ask")
        PROVE  Local(t)'
    <3>1. pc'[t] = "ask" /\ cause'[t] = e /\ lastError'[t] = e
      BY <2>4, GotoEffect, FailEffect DEF Labels
    <3>2. QED
      BY <2>1, <3>1 DEF Local, Inside, Within, Open, onces
  <2>5. QED
    BY <2>2, <2>3, <2>4 DEF Open
<1>5. Calm(t)
  BY GotoEffect, ReturnEffect, FailEffect, ReturnIsLocal, ErrorCodes
  DEF Functions, Globals, Local, Calm, Inside, Past, Within, Labels, Results,
      Open, onces
<1>6. QED
  BY <1>1, <1>2, <1>3, <1>4, <1>5 DEF Moves

LEMMA SetNoInheritMoves ==
  ASSUME Functions, Globals, NEW t \in Threads, Local(t), SetNoInherit(t)
  PROVE  Moves(t)
<1>1. Functions'
  BY GotoEffect, ReturnEffect, FailEffect DEF Functions, SetNoInherit, Labels, Results
<1>2. Others(t)
  BY DEF Functions, Others, SetNoInherit, Goto, Return, FailWith
<1>3. Globals'
  BY DEF Globals, OnceState, Local, Inside, Past, Within, SetNoInherit, onces
<1>4. Local(t)'
  <2>1. CASE Return(t, "ok")
    BY <2>1, ReturnIsLocal, ErrorCodes DEF Results
  <2>2. ASSUME NEW e \in Errors, FailWith(t, e), Goto(t, "ask and drop")
        PROVE  Local(t)'
    <3>1. pc'[t] = "ask and drop" /\ cause'[t] = e /\ lastError'[t] = e
      BY <2>2, GotoEffect, FailEffect DEF Labels
    <3>2. once = "complete" /\ call[t] # "net"
      BY DEF SetNoInherit, Local, Past
    <3>3. QED
      BY <3>1, <3>2 DEF Local, Inside, Within, SetNoInherit, onces
  <2>3. QED
    BY <2>1, <2>2 DEF SetNoInherit
<1>5. Calm(t)
  BY GotoEffect, ReturnEffect, FailEffect, ReturnIsLocal, ErrorCodes
  DEF Functions, Globals, Local, Calm, Inside, Past, Within, Labels, Results,
      SetNoInherit, onces
<1>6. QED
  BY <1>1, <1>2, <1>3, <1>4, <1>5 DEF Moves

LEMMA LastErrorMoves ==
  ASSUME Functions, Globals, NEW t \in Threads, Local(t), LastError(t)
  PROVE  Moves(t)
<1>1. Functions'
  BY GotoEffect, ReturnEffect DEF Functions, LastError, Labels, Results
<1>2. Others(t)
  BY DEF Functions, Others, LastError, Goto, Return
<1>3. Globals'
  BY DEF Globals, OnceState, Local, Inside, Past, Within, LastError, onces
<1>4. Local(t)'
  <2>1. CASE pc[t] = "ask"
    <3>1. Return(t, lastError[t]) /\ cause' = cause /\ lastError[t] = cause[t]
      BY <2>1 DEF LastError, Local
    <3>2. QED
      BY <3>1, ReturnIsLocal DEF Functions, Results
  <2>2. CASE pc[t] = "ask and drop"
    <3>1. pc'[t] = "drop" /\ result'[t] = cause[t] /\ cause' = cause
      BY <2>2 DEF LastError, Local, Functions, Goto
    <3>2. cause[t] \in Errors
      BY <2>2 DEF Local
    <3>3. QED
      BY <3>1, <3>2 DEF Local, Inside, Past, Within, Globals, LastError, onces
  <2>3. QED
    BY <2>1, <2>2 DEF LastError
<1>5. Calm(t)
  BY GotoEffect, ReturnEffect, ReturnIsLocal, ErrorCodes
  DEF Functions, Globals, Local, Calm, Inside, Past, Within, Labels, Results,
      LastError, onces
<1>6. QED
  BY <1>1, <1>2, <1>3, <1>4, <1>5 DEF Moves

LEMMA DropSocketMoves ==
  ASSUME Functions, Globals, NEW t \in Threads, Local(t), DropSocket(t)
  PROVE  Moves(t)
<1>1. Functions'
  BY GotoEffect DEF Functions, DropSocket, Labels, Results
<1>2. Others(t)
  BY DEF Functions, Others, DropSocket, Goto
<1>3. Globals'
  BY DEF Globals, OnceState, Local, Inside, Past, Within, DropSocket, onces
<1>4. Local(t)'
  BY GotoEffect, ErrorCodes
  DEF Functions, Globals, OnceState, Local, Inside, Past, Within, Labels, Results,
      DropSocket, onces
<1>5. Calm(t)
  BY GotoEffect, ErrorCodes
  DEF Functions, Globals, Local, Calm, Inside, Past, Within, Labels, Results,
      DropSocket, onces
<1>6. QED
  BY <1>1, <1>2, <1>3, <1>4, <1>5 DEF Moves

-----------------------------------------------------------------------------
(* The invariant.                                                          *)

LEMMA StepMoves ==
  ASSUME IInv, NEW t \in Threads, Step(t) \/ \E c \in Calls : Call(t, c)
  PROVE  Moves(t)
  BY CallMoves, EnterFirstMoves, EnterLaterMoves, EnterPoisonedMoves,
     StdOnceMoves, StartupMoves, BindDummyMoves, DropDummyMoves,
     ChooseProtocolMoves, OpenMoves, SetNoInheritMoves, LastErrorMoves,
     DropSocketMoves
  DEF IInv, Step

LEMMA MovesKeep ==
  ASSUME IInv, NEW t \in Threads, Moves(t)
  PROVE  IInv'
<1>1. ASSUME NEW u \in Threads, u # t, Inside(u)
      PROVE  Inside(u)' /\ once = "running" /\ ~Inside(t)
  BY <1>1 DEF IInv, Moves, Others, OneInside, Local, Inside
<1>2. ASSUME NEW u \in Threads PROVE Local(u)'
  <2>1. CASE u = t
    BY <2>1 DEF Moves
  <2>2. CASE u # t /\ Inside(u)
    BY <1>1, <2>2 DEF OneInside, IInv, Moves, Others, Calm, Local, Past, Within, Inside
  <2>3. CASE u # t /\ ~Inside(u)
    BY <2>3 DEF OneInside, IInv, Moves, Others, Calm, Local, Past, Within, Inside
  <2>4. QED
    BY <2>1, <2>2, <2>3
<1>3. OneInside'
  <2>1. ASSUME NEW u \in Threads, u # t, Inside(u)'
        PROVE  ~Inside(t)'
    <3>1. Inside(u)
      BY <2>1 DEF Moves, Others, Inside
    <3>2. QED
      BY <1>1, <2>1, <3>1 DEF Moves, Calm
  <2>2. ASSUME NEW u \in Threads, u # t, pc'[u] = "startup"
        PROVE  pc'[t] # "startup"
    BY <2>2 DEF IInv, OneInside, Local, Moves, Others, Calm
  <2>3. \A u, v \in Threads \ {t} :
          /\ Inside(u)' => Inside(u)
          /\ pc'[u] = pc[u]
    BY DEF Moves, Others, Inside
  <2>4. QED
    BY <2>1, <2>2, <2>3 DEF IInv, OneInside
<1>4. DummyHasOwner'
  BY DEF IInv, Moves, Others, Calm, DummyHasOwner
<1>5. QED
  BY <1>2, <1>3, <1>4 DEF IInv, Moves

LEMMA OtherPortKeeps ==
  ASSUME IInv, OtherPort
  PROVE  IInv'
  BY DEF IInv, OtherPort, onces, Functions, Globals, Local, Inside, OneInside,
         DummyHasOwner

LEMMA StutterKeeps ==
  ASSUME IInv, UNCHANGED vars
  PROVE  IInv'
  BY DEF IInv, vars, onces, Functions, Globals, Local, Inside, OneInside,
         DummyHasOwner

LEMMA Initially == Init => IInv
<1> SUFFICES ASSUME Init PROVE IInv
  OBVIOUS
<1>1. Functions /\ Globals
  BY DEF Init, Functions, Globals, OnceState, Labels, Results, Calls
<1>2. \A t \in Threads : pc[t] = "idle" /\ result[t] = "none"
  BY DEF Init
<1>3. \A t \in Threads : Local(t) /\ ~Inside(t)
  BY <1>2, ErrorCodes DEF Local, Inside, Past, Within
<1>4. OneInside /\ DummyHasOwner
  BY <1>2, <1>3 DEF Init, OneInside, DummyHasOwner
<1>5. QED
  BY <1>1, <1>3, <1>4 DEF IInv

LEMMA Inductive == IInv /\ [Next]_vars => IInv'
  BY StepMoves, MovesKeep, OtherPortKeeps, StutterKeeps DEF Next

LEMMA Invariance == Spec => []IInv
  BY Initially, Inductive, PTL DEF Spec

-----------------------------------------------------------------------------
(* The theorems.                                                           *)

(* The type invariant, for any set of threads and error codes.             *)
THEOREM TypeCorrect == Spec => []TypeOK
<1>1. ASSUME IInv PROVE TypeOK
  <2>1. once \in OnceState /\ stdOnce \in OnceState /\ started \in BOOLEAN
    BY <1>1 DEF IInv, Globals
  <2>2. port \in {"free", "dummy", "other"} /\ dummies \in Nat
    BY <1>1 DEF IInv, Globals
  <2>3. ASSUME NEW t \in Threads
        PROVE  /\ pc[t] \in Labels /\ call[t] \in Calls
               /\ lastError[t] \in Errors \cup {"none"}
               /\ cause[t] \in Errors \cup {"none"}
               /\ result[t] \in Results
    BY <1>1 DEF IInv, Functions
  <2>4. \A t \in Threads : pc[t] = "drop" => result[t] \in Errors
    BY <1>1 DEF IInv, Local
  <2>5. QED
    BY <2>1, <2>2, <2>3, <2>4 DEF TypeOK, Labels, Results
<1>2. QED
  BY <1>1, Invariance, PTL

(* init, with its Once around that of the standard library: whoever gets   *)
(* past it finds winsock initialised, and the one dummy gone.              *)
THEOREM InitHolds == Spec => []InitIsDone
<1>1. IInv => InitIsDone
  <2>1. IInv => PastInitIsStarted
    BY DEF IInv, Globals, Local, Past, PastInitIsStarted
  <2>2. ASSUME IInv, port = "dummy"
        PROVE  once = "running" /\ \A t \in Threads : pc[t] # "protocol"
    <3>1. PICK u \in Threads : pc[u] = "drop dummy"
      BY <2>2 DEF IInv, DummyHasOwner
    <3>2. once = "running"
      BY <2>2, <3>1 DEF IInv, Local, Inside, Within
    <3>3. QED
      BY <2>2, <3>2 DEF IInv, Local, Past
  <2>3. IInv => OneDummy
    BY DEF IInv, Globals, OneDummy
  <2>4. QED
    BY <2>1, <2>2, <2>3 DEF InitIsDone, DummyIsGone
<1>2. QED
  BY <1>1, Invariance, PTL

(* last_error: the error a call returns is that of its own failing step.   *)
THEOREM OwnErrors == Spec => []ErrorIsOwn
<1>1. IInv => ErrorIsOwn
  BY DEF IInv, Local, ErrorIsOwn
<1>2. QED
  BY <1>1, Invariance, PTL

=============================================================================
