--------------------------- MODULE DiscoveryProofs ---------------------------
(***************************************************************************)
(* What discover_devices keeps for any number of answers, lengths of       *)
(* replies, word size and header: the list of devices is the list of the   *)
(* answers handed out so far, and one resize makes room for any reply.     *)
(***************************************************************************)
EXTENDS Discovery, SequenceTheorems, TLAPS

(* The devices of the first n answers.                                     *)
Prefix(n) == [i \in 1 .. n |-> answers[i].device]

TypeShape ==
  /\ platform \in {"unix", "windows"}
  /\ platform \in Platforms
  /\ answers \in Seq(Answer)
  /\ session \in BOOLEAN
  /\ cursor \in 0 .. Len(answers)
  /\ words \in Nat
  /\ result \in {"none", "Ok"} \cup ProgramPoints
  /\ faults \in {0, 1}

PlaceShape ==
  /\ pc \in IF platform = "unix"
             THEN {"route", "open", "inquiry", "close", "done"}
             ELSE {"begin", "lookup", "end", "done"}
  /\ result = "none" <=> pc # "done"
  /\ pc \in {"route", "open", "begin"} => ~session
  /\ pc = "done" /\ session => result \in {"inquiry", "lookup", "end"}
  /\ pc \in {"route", "open", "begin"} => cursor = 0 /\ faults = 0

(* What the lists hold: before the inquiry nothing, after it as many as it *)
(* counts; in the lookup what has been handed out.                         *)
FoundShape ==
  /\ platform = "windows" => found = Prefix(cursor)
  /\ platform = "windows" /\ (pc = "end" \/ result = "Ok") =>
       cursor = Len(answers)
  /\ platform = "unix" =>
       \/ found = << >> /\ pc # "close" /\ result # "Ok"
       \/ found = Prefix(Least(Len(answers), Octet - 1))

(* After a fault the buffer holds the answer at the cursor.                *)
BufferShape ==
  faults = 1 => /\ cursor < Len(answers)
                /\ answers[cursor + 1].size <= words * Word

IInv == TypeShape /\ PlaceShape /\ FoundShape /\ BufferShape

-----------------------------------------------------------------------------
(* The arithmetic of the buffer and of the inquiry.                        *)

(* A buffer of WordsFor(len) words holds len bytes, whatever the remainder.*)
LEMMA WordsForSuffices ==
  ASSUME NEW len \in Nat
  PROVE  WordsFor(len) \in Nat /\ len <= WordsFor(len) * Word
<1>1. len \div Word \in Nat /\ len < (len \div Word) * Word + Word
  BY WordAssumption
<1>2. (1 + len \div Word) * Word = (len \div Word) * Word + Word
  BY <1>1, WordAssumption
<1>3. (1 + len \div Word) * Word \in Nat
  BY <1>1, WordAssumption
<1>4. (len \div Word) * Word \in Nat
  BY <1>1, WordAssumption
<1> QED
  BY <1>1, <1>2, <1>3, <1>4, WordAssumption DEF WordsFor

(* 256 results do not fit an octet, which then says 0: 255 are counted.    *)
LEMMA InquiryCounts == InquiryLimit(Results) = Octet - 1
  BY ResultsAssumption DEF InquiryLimit

-----------------------------------------------------------------------------
(* The lists of devices.                                                   *)

LEMMA AnswerFields ==
  ASSUME answers \in Seq(Answer), NEW i \in 1 .. Len(answers)
  PROVE  answers[i].device \in Devices /\ answers[i].size \in Nat
<1>1. answers[i] \in Answer
  BY ElementOfSeq
<1>2. QED
  BY <1>1, SizesAssumption DEF Answer

LEMMA PrefixIsSeq ==
  ASSUME answers \in Seq(Answer), NEW n \in 0 .. Len(answers)
  PROVE  Prefix(n) \in Seq(Devices) /\ Len(Prefix(n)) = n
<1>1. n \in Nat /\ \A i \in 1 .. n : i \in 1 .. Len(answers)
  BY LenProperties
<1>2. Prefix(n) \in [1 .. n -> Devices]
  BY <1>1, AnswerFields DEF Prefix
<1>3. QED
  BY <1>1, <1>2, SMT

(* The inquiry's array, truncated, is a prefix of the answers.             *)
LEMMA PrefixIsSubSeq ==
  ASSUME answers \in Seq(Answer), NEW n \in 0 .. Len(answers)
  PROVE  DevicesOf(SubSeq(answers, 1, n)) = Prefix(n)
<1>1. n \in Nat /\ \A i \in 1 .. n : i \in 1 .. Len(answers)
  BY LenProperties
<1>2. \A i \in 1 .. n : answers[i] \in Answer
  BY <1>1, ElementOfSeq
<1> DEFINE s == SubSeq(answers, 1, n)
<1>3. s \in Seq(Answer) /\ Len(s) = n /\ \A i \in 1 .. n : s[i] = answers[i]
  BY <1>1, <1>2, SubSeqProperties
<1>4. DOMAIN s = 1 .. n
  BY <1>3, LenProperties
<1> HIDE DEF s
<1>5. DevicesOf(s) = Prefix(n)
  BY <1>3, <1>4 DEF DevicesOf, Prefix
<1>6. QED
  BY <1>5 DEF s

(* One more device appended is the next prefix.                            *)
LEMMA PrefixGrows ==
  ASSUME answers \in Seq(Answer), NEW n \in Nat, n < Len(answers)
  PROVE  Append(Prefix(n), answers[n + 1].device) = Prefix(n + 1)
<1>1. Prefix(n) \in Seq(Devices) /\ Len(Prefix(n)) = n
  BY PrefixIsSeq, LenProperties
<1>2. answers[n + 1].device \in Devices
  BY AnswerFields, LenProperties
<1>3. Prefix(n + 1) \in Seq(Devices) /\ Len(Prefix(n + 1)) = n + 1
  BY PrefixIsSeq, LenProperties
<1> DEFINE longer == Append(Prefix(n), answers[n + 1].device)
<1>4. /\ longer \in Seq(Devices) /\ Len(longer) = n + 1
      /\ \A i \in 1 .. n : longer[i] = Prefix(n)[i]
      /\ longer[n + 1] = answers[n + 1].device
  BY <1>1, <1>2, SMT
<1>5. \A i \in 1 .. n + 1 : longer[i] = Prefix(n + 1)[i]
  BY <1>4 DEF Prefix
<1> HIDE DEF longer
<1>6. longer = Prefix(n + 1)
  BY <1>3, <1>4, <1>5, SeqEqual
<1>7. QED
  BY <1>6 DEF longer

LEMMA PrefixEmpty == Prefix(0) = << >>
  BY DEF Prefix

-----------------------------------------------------------------------------
(* Every step keeps the invariant.                                         *)

LEMMA AnswerCount == ASSUME TypeShape PROVE Len(answers) \in Nat
  BY LenProperties DEF TypeShape

LEMMA GetRouteKeeps == ASSUME IInv, GetRoute PROVE IInv'
<1>1. TypeShape'
  BY DEF IInv, TypeShape, PlaceShape, ProgramPoints, GetRoute, Fail
<1>2. PlaceShape'
  BY DEF IInv, TypeShape, PlaceShape, ProgramPoints, GetRoute, Fail
<1>3. FoundShape'
  BY DEF IInv, TypeShape, PlaceShape, FoundShape, Prefix, GetRoute, Fail
<1>4. BufferShape'
  BY DEF IInv, BufferShape, GetRoute, Fail
<1>5. QED
  BY <1>1, <1>2, <1>3, <1>4 DEF IInv

LEMMA OpenDevKeeps == ASSUME IInv, OpenDev PROVE IInv'
<1>1. TypeShape'
  BY DEF IInv, TypeShape, PlaceShape, ProgramPoints, OpenDev, Fail
<1>2. PlaceShape'
  BY DEF IInv, TypeShape, PlaceShape, ProgramPoints, OpenDev, Fail
<1>3. FoundShape'
  BY DEF IInv, TypeShape, PlaceShape, FoundShape, Prefix, OpenDev, Fail
<1>4. BufferShape'
  BY DEF IInv, BufferShape, OpenDev, Fail
<1>5. QED
  BY <1>1, <1>2, <1>3, <1>4 DEF IInv

LEMMA CloseDevKeeps == ASSUME IInv, CloseDev PROVE IInv'
<1>1. TypeShape'
  BY DEF IInv, TypeShape, PlaceShape, ProgramPoints, CloseDev, Fail
<1>2. PlaceShape'
  BY DEF IInv, TypeShape, PlaceShape, ProgramPoints, CloseDev, Fail
<1>3. FoundShape'
  BY DEF IInv, TypeShape, PlaceShape, FoundShape, Prefix, CloseDev, Fail
<1>4. BufferShape'
  BY DEF IInv, BufferShape, CloseDev, Fail
<1>5. QED
  BY <1>1, <1>2, <1>3, <1>4 DEF IInv

LEMMA LookupBeginKeeps == ASSUME IInv, LookupBegin PROVE IInv'
<1>1. TypeShape'
  BY DEF IInv, TypeShape, PlaceShape, ProgramPoints, LookupBegin, Fail
<1>2. PlaceShape'
  BY DEF IInv, TypeShape, PlaceShape, ProgramPoints, LookupBegin, Fail
<1>3. FoundShape'
  BY DEF IInv, TypeShape, PlaceShape, FoundShape, Prefix, LookupBegin, Fail
<1>4. BufferShape'
  BY DEF IInv, BufferShape, LookupBegin, Fail
<1>5. QED
  BY <1>1, <1>2, <1>3, <1>4 DEF IInv

LEMMA LookupNoMoreKeeps == ASSUME IInv, LookupNoMore PROVE IInv'
<1>1. TypeShape'
  BY DEF IInv, TypeShape, PlaceShape, ProgramPoints, LookupNoMore
<1>2. PlaceShape'
  BY DEF IInv, TypeShape, PlaceShape, ProgramPoints, LookupNoMore
<1>3. FoundShape'
  BY DEF IInv, TypeShape, PlaceShape, FoundShape, Prefix, LookupNoMore
<1>4. BufferShape'
  BY DEF IInv, BufferShape, LookupNoMore
<1>5. QED
  BY <1>1, <1>2, <1>3, <1>4 DEF IInv

LEMMA LookupFailsKeeps == ASSUME IInv, LookupFails PROVE IInv'
<1>1. TypeShape'
  BY DEF IInv, TypeShape, PlaceShape, ProgramPoints, LookupFails, Fail
<1>2. PlaceShape'
  BY DEF IInv, TypeShape, PlaceShape, ProgramPoints, LookupFails, Fail
<1>3. FoundShape'
  BY DEF IInv, TypeShape, PlaceShape, FoundShape, Prefix, LookupFails, Fail
<1>4. BufferShape'
  BY DEF IInv, BufferShape, LookupFails, Fail
<1>5. QED
  BY <1>1, <1>2, <1>3, <1>4 DEF IInv

LEMMA LookupEndKeeps == ASSUME IInv, LookupEnd PROVE IInv'
<1>1. TypeShape'
  BY DEF IInv, TypeShape, PlaceShape, ProgramPoints, LookupEnd, Fail
<1>2. PlaceShape'
  BY DEF IInv, TypeShape, PlaceShape, ProgramPoints, LookupEnd, Fail
<1>3. FoundShape'
  BY DEF IInv, TypeShape, PlaceShape, FoundShape, Prefix, LookupEnd, Fail
<1>4. BufferShape'
  BY DEF IInv, BufferShape, LookupEnd, Fail
<1>5. QED
  BY <1>1, <1>2, <1>3, <1>4 DEF IInv

(* The inquiry counts as many as an octet tells.                           *)
LEMMA InquiryKeeps == ASSUME IInv, Inquiry PROVE IInv'
<1>1. TypeShape'
  BY DEF IInv, TypeShape, PlaceShape, ProgramPoints, Inquiry, Fail
<1>2. PlaceShape'
  BY DEF IInv, TypeShape, PlaceShape, ProgramPoints, Inquiry, Fail
<1>3. FoundShape'
  <2>1. CASE Fail /\ UNCHANGED <<found>>
    BY <2>1 DEF IInv, TypeShape, PlaceShape, FoundShape, Prefix, Inquiry, Fail
  <2>2. CASE pc' = "close"
    <3> DEFINE n == Least(Len(answers), Octet - 1)
    <3>1. n \in 0 .. Len(answers)
      BY AnswerCount, OctetAssumption DEF IInv, Least
    <3>2. found' = DevicesOf(SubSeq(answers, 1, n))
      BY <2>2, InquiryCounts DEF Inquiry, Fail
    <3>3. found' = Prefix(n)
      BY <3>1, <3>2, PrefixIsSubSeq DEF IInv, TypeShape
    <3>4. platform' = "unix" /\ answers' = answers
      BY DEF IInv, TypeShape, PlaceShape, Inquiry
    <3>5. QED
      BY <3>3, <3>4 DEF FoundShape, Prefix
  <2>3. QED
    BY <2>1, <2>2 DEF Inquiry
<1>4. BufferShape'
  BY DEF IInv, BufferShape, Inquiry
<1>5. QED
  BY <1>1, <1>2, <1>3, <1>4 DEF IInv

(* One answer more, whose device is appended.                              *)
LEMMA LookupNextKeeps == ASSUME IInv, LookupNext PROVE IInv'
<1>0. Len(answers) \in Nat /\ cursor \in Nat /\ cursor < Len(answers)
  BY AnswerCount DEF IInv, TypeShape, LookupNext
<1>1. TypeShape'
  BY <1>0 DEF IInv, TypeShape, LookupNext
<1>2. PlaceShape'
  BY DEF IInv, TypeShape, PlaceShape, LookupNext
<1>3. FoundShape'
  <2>1. platform = "windows" /\ result # "Ok" /\ pc # "end" /\ pc = "lookup"
    BY DEF IInv, TypeShape, PlaceShape, LookupNext
  <2>2. found' = Append(Prefix(cursor), answers[cursor + 1].device)
    BY <2>1 DEF IInv, FoundShape, LookupNext
  <2>3. found' = Prefix(cursor + 1)
    BY <2>2, <1>0, PrefixGrows DEF IInv, TypeShape
  <2>4. found' = Prefix(cursor)'
    BY <2>3 DEF Prefix, LookupNext
  <2>5. QED
    BY <2>1, <2>4 DEF FoundShape, LookupNext
<1>4. BufferShape'
  BY DEF BufferShape, LookupNext
<1>5. QED
  BY <1>1, <1>2, <1>3, <1>4 DEF IInv

(* A fault enlarges the buffer so that the same answer fits.               *)
LEMMA LookupTooSmallKeeps == ASSUME IInv, LookupTooSmall PROVE IInv'
<1> DEFINE len == answers[cursor + 1].size
<1>0. cursor + 1 \in 1 .. Len(answers)
  BY AnswerCount DEF IInv, TypeShape, LookupTooSmall
<1>1. len \in Nat
  BY <1>0, AnswerFields DEF IInv, TypeShape
<1>2. words' \in Nat /\ len <= words' * Word
  BY <1>1, WordsForSuffices DEF LookupTooSmall
<1>3. faults = 0 /\ faults' = 1
  <2>1. words * Word \in Nat
    BY WordAssumption DEF IInv, TypeShape
  <2>2. faults # 1
    BY <1>1, <2>1 DEF IInv, BufferShape, LookupTooSmall
  <2>3. QED
    BY <2>2 DEF IInv, TypeShape, LookupTooSmall, Least
<1>4. TypeShape'
  BY <1>2, <1>3 DEF IInv, TypeShape, LookupTooSmall
<1>5. PlaceShape'
  BY DEF IInv, TypeShape, PlaceShape, LookupTooSmall
<1>6. FoundShape'
  BY DEF IInv, FoundShape, Prefix, LookupTooSmall
<1>7. BufferShape'
  BY <1>2 DEF BufferShape, LookupTooSmall
<1>8. QED
  BY <1>4, <1>5, <1>6, <1>7 DEF IInv

-----------------------------------------------------------------------------
(* The invariant and the theorems.                                         *)

LEMMA Initially == Init => IInv
<1> SUFFICES ASSUME Init PROVE IInv
  OBVIOUS
<1>1. answers \in Seq(Answer)
  <2>1. PICK n \in 0 .. MaxAnswers : answers \in [1 .. n -> Answer]
    BY DEF Init, Answers
  <2>2. n \in Nat
    BY AnswersAssumption
  <2>3. QED
    BY <2>1, <2>2, SeqDef
<1>2. TypeShape
  <2>1. Len(answers) \in Nat
    BY <1>1, LenProperties
  <2>2. words \in Nat
    BY HeaderAssumption, WordAssumption DEF Init
  <2>3. platform \in Platforms /\ platform \in {"unix", "windows"}
    BY PlatformsAssumption DEF Init
  <2>4. session \in BOOLEAN /\ result = "none" /\ faults = 0 /\ cursor = 0
    BY DEF Init
  <2>5. QED
    BY <1>1, <2>1, <2>2, <2>3, <2>4 DEF TypeShape
<1>3. PlaceShape
  BY PlatformsAssumption DEF Init, PlaceShape
<1>4. FoundShape
  BY PrefixEmpty, PlatformsAssumption DEF Init, FoundShape
<1>5. BufferShape
  BY DEF Init, BufferShape
<1>6. QED
  BY <1>2, <1>3, <1>4, <1>5 DEF IInv

LEMMA Inductive == IInv /\ [Next]_vars => IInv'
<1> SUFFICES ASSUME IInv, [Next]_vars PROVE IInv'
  OBVIOUS
<1>1. CASE UNCHANGED vars
  BY <1>1 DEF vars, IInv, TypeShape, PlaceShape, FoundShape, BufferShape,
              Prefix
<1>2. CASE Thread
  BY <1>2, GetRouteKeeps, OpenDevKeeps, InquiryKeeps, CloseDevKeeps,
     LookupBeginKeeps, LookupNextKeeps, LookupTooSmallKeeps,
     LookupNoMoreKeeps, LookupFailsKeeps, LookupEndKeeps
  DEF Thread
<1>3. QED
  BY <1>1, <1>2 DEF Next, Returned

LEMMA Invariance == Spec => []IInv
  BY Initially, Inductive, PTL DEF Spec

(* The type invariant, for any number of answers.                          *)
THEOREM TypeCorrect == Spec => []TypeOK
<1>1. IInv => TypeOK
  <2> SUFFICES ASSUME IInv PROVE TypeOK
    OBVIOUS
  <2>1. Len(answers) \in Nat
    BY AnswerCount DEF IInv
  <2>2. found \in Seq(Devices)
    <3>1. CASE platform = "windows"
      BY <3>1, PrefixIsSeq DEF IInv, TypeShape, FoundShape
    <3>2. CASE found = << >>
      BY <3>2
    <3>3. CASE found = Prefix(Least(Len(answers), Octet - 1))
      <4>1. Least(Len(answers), Octet - 1) \in 0 .. Len(answers)
        BY <2>1, OctetAssumption DEF Least
      <4>2. QED
        BY <3>3, <4>1, PrefixIsSeq DEF IInv, TypeShape
    <3>4. QED
      BY <3>1, <3>2, <3>3 DEF IInv, TypeShape, FoundShape
  <2>3. QED
    BY <2>1, <2>2
    DEF IInv, TypeShape, PlaceShape, ProgramPoints, TypeOK
<1>2. QED
  BY <1>1, Invariance, PTL

(* discover_devices returns every answer once and in order, with any       *)
(* lengths of replies, and asks for each a second time at most.            *)
THEOREM AnswersHold == Spec => []EachAnswerOnce
<1>1. IInv => NothingSkipped
  <2> SUFFICES ASSUME IInv, result = "Ok" PROVE NothingSkipped
    BY DEF NothingSkipped
  <2>0. Len(answers) \in Nat /\ answers \in Seq(Answer)
    BY AnswerCount DEF IInv, TypeShape
  <2>1. CASE platform = "windows"
    <3>1. found = Prefix(Len(answers))
      BY <2>1 DEF IInv, FoundShape
    <3>2. found = DevicesOf(SubSeq(answers, 1, Len(answers)))
      BY <2>0, <3>1, PrefixIsSubSeq
    <3>3. QED
      BY <2>1, <3>2 DEF NothingSkipped
  <2>2. CASE platform = "unix"
    <3> DEFINE n == Least(Len(answers), Octet - 1)
    <3>1. n \in 0 .. Len(answers)
      BY <2>0, OctetAssumption DEF Least
    <3>2. found = Prefix(n)
      BY <2>2 DEF IInv, FoundShape
    <3>3. Len(found) = n /\ found = DevicesOf(SubSeq(answers, 1, n))
      BY <2>0, <3>1, <3>2, PrefixIsSeq, PrefixIsSubSeq
    <3>4. QED
      BY <2>2, <3>3 DEF NothingSkipped
  <2>3. QED
    BY <2>1, <2>2 DEF IInv, TypeShape
<1>2. IInv => OneFaultPerAnswer
  BY DEF IInv, TypeShape, OneFaultPerAnswer
<1>3. QED
  BY <1>1, <1>2, Invariance, PTL DEF EachAnswerOnce

(* Only the early returns after the inquiry or a lookup step leave the     *)
(* adapter or the lookup open, or a close that is refused.                 *)
THEOREM LeaksHold == Spec => []OnlyEarlyReturnsLeak
<1>1. IInv => OnlyEarlyReturnsLeak
  BY DEF IInv, PlaceShape, OnlyEarlyReturnsLeak
<1>2. QED
  BY <1>1, Invariance, PTL

=============================================================================
