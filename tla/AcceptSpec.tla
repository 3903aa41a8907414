----------------------------- MODULE AcceptSpec -----------------------------
(***************************************************************************)
(* What BtListener::accept promises: "When established, the corresponding  *)
(* BtStream and the remote peer's address will be returned".  Connections  *)
(* are numbered as they come in; each is given to one caller, with the     *)
(* address of its own device, or to nobody.                                *)
(***************************************************************************)
EXTENDS Sequences, Integers

CONSTANT Devices     (* addresses of the devices that connect              *)

VARIABLES
  device,    (* device[c]: the one that made connection c                  *)
  waiting,   (* connections that may still be given                        *)
  given      (* given[c]: the address returned with connection c           *)

vars == <<device, waiting, given>>

Init ==
  /\ device = << >>
  /\ waiting = {}
  /\ given = << >>

Arrive(d) ==
  /\ device' = Append(device, d)
  /\ waiting' \in {waiting, waiting \cup {Len(device')}}
  /\ UNCHANGED given

Give(c) ==
  /\ c \in waiting
  /\ waiting' = waiting \ {c}
  /\ given' = [b \in DOMAIN given \cup {c} |->
                IF b = c THEN device[c] ELSE given[b]]
  /\ UNCHANGED device

(* The peer goes away, the listener is closed, or accept fails.            *)
Lose ==
  /\ waiting # {}
  /\ waiting' \in SUBSET waiting
  /\ UNCHANGED <<device, given>>

Next == (\E d \in Devices : Arrive(d)) \/ (\E c \in waiting : Give(c)) \/ Lose

Spec == Init /\ [][Next]_vars

=============================================================================
