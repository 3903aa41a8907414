----------------------------- MODULE Discovery -----------------------------
(***************************************************************************)
(* discover_devices.  On unix the code opens the local adapter, has it     *)
(* make one inquiry and closes it.  On windows it begins a lookup, asks    *)
(* for one device at a time with a buffer it enlarges when a reply does    *)
(* not fit, and ends the lookup.  Any call may fail.                       *)
(*                                                                         *)
(* Sizes are in bytes.  The buffer is a vector of machine words, Word      *)
(* bytes each.  hci_inquiry takes the size of the result array in an       *)
(* octet, of Octet values, where 0 asks for as many results as it can      *)
(* count.                                                                  *)
(***************************************************************************)
EXTENDS Integers, Sequences

CONSTANTS
  Platforms,  (* "unix", "windows"                                         *)
  Devices,    (* devices that may answer                                   *)
  MaxAnswers, (* bound on how many answers there are                       *)
  Word,       (* size_of::<usize>()                                        *)
  Header,     (* size_of::<WSAQUERYSETW>(), a multiple of Word             *)
  Sizes,      (* lengths a reply may have                                  *)
  Octet,      (* number of values of an octet: 256                         *)
  Results     (* length of the array given to hci_inquiry: 256             *)

ASSUME PlatformsAssumption == Platforms \subseteq {"unix", "windows"}
ASSUME AnswersAssumption   == MaxAnswers \in Nat
ASSUME WordAssumption      == Word \in Nat \ {0}
ASSUME HeaderAssumption    == Header \in Nat /\ Header % Word = 0
ASSUME SizesAssumption     == Sizes \subseteq Nat
ASSUME OctetAssumption     == Octet \in Nat \ {0} /\ Results \in Nat \ {0}
ASSUME ResultsAssumption   == Results % Octet = 0

VARIABLES
  platform,
  pc,       (* the next step                                               *)
  answers,  (* the devices that answer, each with the length of its reply  *)
  session,  (* the adapter or the lookup is open                           *)
  cursor,   (* how many answers the lookup has handed out                  *)
  words,    (* the length of the buffer                                    *)
  found,    (* inquiry_infos or addresses, as devices                      *)
  result,   (* "none", "Ok" or the call whose error is returned            *)
  faults    (* ghost: WSAEFAULTs for the answer at the cursor, 2 for more  *)

vars == <<platform, pc, answers, session, cursor, words, found,
          result, faults>>

ProgramPoints ==
  {"route", "open", "inquiry", "close", "begin", "lookup", "end", "done"}

Answer  == [device : Devices, size : Sizes]
Answers == UNION {[1 .. n -> Answer] : n \in 0 .. MaxAnswers}

TypeOK ==
  /\ platform \in Platforms
  /\ pc \in ProgramPoints
  /\ answers \in Seq(Answer)
  /\ session \in BOOLEAN
  /\ cursor \in 0 .. Len(answers)
  /\ words \in Nat
  /\ found \in Seq(Devices)
  /\ result \in {"none", "Ok"} \cup ProgramPoints
  /\ faults \in 0 .. 2

Init ==
  /\ platform \in Platforms
  /\ pc = IF platform = "unix" THEN "route" ELSE "begin"
  /\ answers \in Answers
  /\ session = FALSE
  /\ cursor = 0
  /\ words = Header \div Word
  /\ found = << >>
  /\ result = "none"
  /\ faults = 0

(* The call at pc failed and the function returns its error.               *)
Fail ==
  /\ pc' = "done"
  /\ result' = pc

-----------------------------------------------------------------------------
(* unix                                                                    *)

GetRoute ==
  /\ pc = "route"
  /\ \/ pc' = "open" /\ UNCHANGED result
     \/ Fail
  /\ UNCHANGED <<platform, answers, session, cursor, words, found, faults>>

OpenDev ==
  /\ pc = "open"
  /\ \/ pc' = "inquiry" /\ session' = TRUE /\ UNCHANGED result
     \/ Fail /\ UNCHANGED session
  /\ UNCHANGED <<platform, answers, cursor, words, found, faults>>

Least(a, b) == IF a < b THEN a ELSE b

(* How many entries hci_inquiry writes (external): the number asked for is *)
(* cut to an octet, and 0 stands for the largest number an octet holds.    *)
InquiryLimit(n) ==
  IF n % Octet = 0 THEN Octet - 1 ELSE n % Octet

DevicesOf(s) == [i \in DOMAIN s |-> s[i].device]

InquiryOversized ==                  \* mutant: an array one entry longer
  /\ pc = "inquiry"
  /\ LET n == Least(Len(answers), InquiryLimit(Results + 1))
     IN  found' = DevicesOf(SubSeq(answers, 1, n))
  /\ pc' = "close"
  /\ UNCHANGED <<platform, answers, session, cursor, words, result, faults>>

(* hci_inquiry and truncate(num_responses).  An error is returned at once, *)
(* without hci_close_dev.                                                  *)
Inquiry ==
  /\ pc = "inquiry"
  /\ \/ LET n == Least(Len(answers), InquiryLimit(Results))
        IN  /\ found' = DevicesOf(SubSeq(answers, 1, n))
            /\ pc' = "close"
            /\ UNCHANGED result
     \/ Fail /\ UNCHANGED <<found>>
  /\ UNCHANGED <<platform, answers, session, cursor, words, faults>>

CloseDevUnchecked ==                 \* mutant: the result comes before it
  /\ pc = "close"
  /\ pc' = "done"
  /\ result' = "Ok"
  /\ UNCHANGED <<platform, answers, session, cursor, words, found, faults>>

(* hci_close_dev; close(2) frees the descriptor even when it fails.        *)
CloseDev ==
  /\ pc = "close"
  /\ session' = FALSE
  /\ \/ pc' = "done" /\ result' = "Ok"
     \/ Fail
  /\ UNCHANGED <<platform, answers, cursor, words, found, faults>>

-----------------------------------------------------------------------------
(* windows                                                                 *)

LookupBegin ==
  /\ pc = "begin"
  /\ \/ pc' = "lookup" /\ session' = TRUE /\ UNCHANGED result
     \/ Fail /\ UNCHANGED session
  /\ UNCHANGED <<platform, answers, cursor, words, found, faults>>

LookupNextUnchecked ==               \* mutant: its result is not looked at
  /\ pc = "lookup"
  /\ found' = Append(found, IF cursor < Len(answers)
                             THEN answers[cursor + 1].device ELSE "stale")
  /\ cursor' = cursor + 1
  /\ UNCHANGED <<platform, pc, answers, session, words, result, faults>>

(* WSALookupServiceNextW filled the buffer: the address is kept.           *)
LookupNext ==
  /\ pc = "lookup"
  /\ cursor < Len(answers)
  /\ answers[cursor + 1].size <= words * Word
  /\ found' = Append(found, answers[cursor + 1].device)
  /\ cursor' = cursor + 1
  /\ faults' = 0
  /\ UNCHANGED <<platform, pc, answers, session, words, result>>

WordsForFloor(len) == len \div Word  \* mutant: the remainder is forgotten

(* The new length of the buffer for a reply of len bytes.                  *)
WordsFor(len) == 1 + len \div Word

LookupTooSmallRestarts ==            \* mutant: a new lookup, an old buffer
  /\ pc = "lookup"
  /\ cursor < Len(answers)
  /\ answers[cursor + 1].size > words * Word
  /\ pc' = "begin"
  /\ cursor' = 0
  /\ found' = << >>
  /\ UNCHANGED <<platform, answers, session, words, result, faults>>

(* WSAEFAULT: the reply does not fit, len says what it needs, and the same *)
(* answer is asked for again.                                              *)
LookupTooSmall ==
  /\ pc = "lookup"
  /\ cursor < Len(answers)
  /\ answers[cursor + 1].size > words * Word
  /\ words' = WordsFor(answers[cursor + 1].size)
  /\ faults' = Least(faults + 1, 2)
  /\ UNCHANGED <<platform, pc, answers, session, cursor, found, result>>

(* WSA_E_NO_MORE ends the loop.                                            *)
LookupNoMore ==
  /\ pc = "lookup"
  /\ cursor = Len(answers)
  /\ pc' = "end"
  /\ UNCHANGED <<platform, answers, session, cursor, words, found,
                 result, faults>>

(* Any other error is returned at once, without WSALookupServiceEnd.       *)
LookupFails ==
  /\ pc = "lookup"
  /\ Fail
  /\ UNCHANGED <<platform, answers, session, cursor, words, found, faults>>

(* A handle that WSALookupServiceEnd refuses to end stays open.            *)
LookupEnd ==
  /\ pc = "end"
  /\ \/ pc' = "done" /\ result' = "Ok" /\ session' = FALSE
     \/ Fail /\ UNCHANGED session
  /\ UNCHANGED <<platform, answers, cursor, words, found, faults>>

-----------------------------------------------------------------------------
Thread ==
  \/ GetRoute \/ OpenDev \/ Inquiry \/ CloseDev
  \/ LookupBegin \/ LookupNext \/ LookupTooSmall \/ LookupNoMore
  \/ LookupFails \/ LookupEnd

Returned == pc = "done" /\ UNCHANGED vars

Next == Thread \/ Returned

(* Every call returns; nothing else can hold the thread up.                *)
Spec == Init /\ [][Next]_vars /\ WF_vars(Thread)

-----------------------------------------------------------------------------
(* Properties.                                                             *)

(* Ok comes with every device that answered, once for each answer and in   *)
(* order, also when replies had to be asked for again (WSAEFAULT); on unix *)
(* the inquiry may count fewer.                                            *)
NothingSkipped ==
  result = "Ok" =>
    LET kept == IF platform = "unix" THEN Len(found) ELSE Len(answers)
    IN  /\ found = DevicesOf(SubSeq(answers, 1, kept))
        /\ platform = "unix" => kept = Least(Len(answers), Octet - 1)

(* The adapter or the lookup is left open only by the early returns after  *)
(* a failed inquiry or lookup step, or when it cannot be ended.            *)
OnlyEarlyReturnsLeak ==
  pc = "done" /\ session => result \in {"inquiry", "lookup", "end"}

(* One resize is enough for any reply ("1 + len / size_of::<usize>()").    *)
OneFaultPerAnswer == faults <= 1

(* Each answer is taken once, and asked for a second time at most when it  *)
(* did not fit.                                                            *)
EachAnswerOnce == NothingSkipped /\ OneFaultPerAnswer

(* discover_devices returns: asking again ends.                            *)
Terminates == <>(pc = "done")

=============================================================================
