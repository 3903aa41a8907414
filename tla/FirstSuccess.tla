---------------------------- MODULE FirstSuccess ----------------------------
(***************************************************************************)
(* What BtStream::connect and BtListener::bind promise for a list of       *)
(* addresses: they are attempted in order, one at a time, until one        *)
(* succeeds; the call returns that one's socket, and otherwise the error   *)
(* of the last attempt.  An address is its position in the list.           *)
(***************************************************************************)
EXTENDS Integers

CONSTANTS
  MaxAddrs,  (* the longest list                                           *)
  Errors,    (* what an attempt may fail with                              *)
  NoAddress  (* the error for an empty list                                *)

VARIABLES
  count,    (* the length of the list                                      *)
  attempt,  (* the address to attempt next, or being attempted             *)
  error,    (* the error the call would return now                         *)
  sockets,  (* attempts whose socket is still open                         *)
  outcome   (* "running", "Ok" or "Err"                                    *)

vars == <<count, attempt, error, sockets, outcome>>

Init ==
  /\ count \in 0 .. MaxAddrs
  /\ attempt = 1
  /\ error = NoAddress
  /\ sockets = {}
  /\ outcome = "running"

(* While an attempt runs its socket comes and goes; no other is open.      *)
Working ==
  /\ outcome = "running"
  /\ attempt <= count
  /\ sockets' \in SUBSET {attempt}
  /\ UNCHANGED <<count, attempt, error, outcome>>

Succeed ==
  /\ outcome = "running"
  /\ attempt <= count
  /\ sockets = {attempt}
  /\ outcome' = "Ok"
  /\ UNCHANGED <<count, attempt, error, sockets>>

FailWith(e) ==
  /\ outcome = "running"
  /\ attempt <= count
  /\ sockets' = {}
  /\ attempt' = attempt + 1
  /\ error' = e
  /\ UNCHANGED <<count, outcome>>

GiveUp ==
  /\ outcome = "running"
  /\ attempt > count
  /\ outcome' = "Err"
  /\ UNCHANGED <<count, attempt, error, sockets>>

Next == Working \/ Succeed \/ (\E e \in Errors : FailWith(e)) \/ GiveUp

Spec == Init /\ [][Next]_vars

=============================================================================
