--------------------------- MODULE MCConnections ---------------------------
(* Two threads that accept through two handles of one listener, and two    *)
(* devices that make two connections.  All octets of an address differ,    *)
(* and those of the two devices and the adapter do.                        *)
EXTENDS Connections

MCDevices == {[i \in 0 .. 5 |-> i + 1], [i \in 0 .. 5 |-> (5 * i + 9) % 16]}
MCLocal == [i \in 0 .. 5 |-> 15 - i]

On(platform, protocol, linux, accept4) ==
  [platform |-> platform, protocol |-> protocol, linux |-> linux,
   accept4 |-> accept4]

RfcommTargets ==
  {On("unix", "RFCOMM", TRUE, TRUE), On("unix", "RFCOMM", TRUE, FALSE),
   On("unix", "RFCOMM", FALSE, FALSE), On("windows", "RFCOMM", FALSE, FALSE)}

L2capTargets == {On("unix", "L2CAP", TRUE, TRUE)}

=============================================================================
