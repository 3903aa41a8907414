------------------------------ MODULE Address ------------------------------
(***************************************************************************)
(* Bluetooth addresses and the forms they take on their way to the kernel  *)
(* and back: the six octets of a BtAddr, the sockaddr of unix (whose       *)
(* layout depends on the protocol, though the code uses one for both) and  *)
(* the number btAddr of windows.  Octets and offsets are counted from 0,   *)
(* as in the source.                                                       *)
(***************************************************************************)
EXTENDS Integers

CONSTANT Base        (* values of an octet: 256                            *)

ASSUME BaseAssumption == Base \in Nat /\ Base > 1

Octet  == 0 .. Base - 1
BtAddr == [0 .. 5 -> Octet]

Base2 == Base * Base
Base3 == Base * Base2
Base4 == Base * Base3

-----------------------------------------------------------------------------
(* windows: the address is a number, of which SAP is the lower four octets *)
(* and NAP the two above.                                                  *)

SetNapSap(nap, sap) == nap * Base4 + sap
GetNap(n) == (n \div Base4) % Base2
GetSap(n) == n % Base4

BigEndian(nap, sap) ==               \* mutant: to_be_bytes
  [i \in 0 .. 5 |-> CASE i = 0 -> sap \div Base3
                      [] i = 1 -> (sap \div Base2) % Base
                      [] i = 2 -> (sap \div Base) % Base
                      [] i = 3 -> sap % Base
                      [] i = 4 -> nap \div Base
                      [] i = 5 -> nap % Base]

Unmasked(nap, sap) ==                \* mutant: shifted, not cut to an octet
  [i \in 0 .. 5 |-> CASE i = 0 -> sap % Base
                      [] i = 1 -> sap \div Base
                      [] i = 2 -> sap \div Base2
                      [] i = 3 -> sap \div Base3
                      [] i = 4 -> nap % Base
                      [] i = 5 -> nap \div Base]

(* BtAddr::nap_sap, in little-endian octets.                               *)
NapSap(nap, sap) ==
  [i \in 0 .. 5 |-> CASE i = 0 -> sap % Base
                      [] i = 1 -> (sap \div Base) % Base
                      [] i = 2 -> (sap \div Base2) % Base
                      [] i = 3 -> sap \div Base3
                      [] i = 4 -> nap % Base
                      [] i = 5 -> nap \div Base]

(* Into<u64> for &BtAddr.                                                  *)
ToNumber(a) ==
  SetNapSap(a[4] + a[5] * Base,
            a[0] + a[1] * Base + a[2] * Base2 + a[3] * Base3)

FromNumber(n) == NapSap(GetNap(n), GetSap(n))

-----------------------------------------------------------------------------
(* unix: the octets of a sockaddr from offset 2, after the family, to 9.   *)
(* sockaddr_rc has the address at offset 2, the channel at 8, then         *)
(* padding; sockaddr_l2 has the psm at offset 2 and the address at 4.      *)

Offsets == 2 .. 9

Zeroed == [o \in Offsets |-> 0]

RcSockaddr(a, channel) ==
  [o \in Offsets |-> IF o < 8 THEN a[o - 2] ELSE IF o = 8 THEN channel ELSE 0]

RcBdaddr(s) == [i \in 0 .. 5 |-> s[i + 2]]

L2Sockaddr(a, psm) ==
  [o \in Offsets |-> IF o >= 4 THEN a[o - 4]
                     ELSE IF o = 2 THEN psm % Base ELSE psm \div Base]

L2Bdaddr(s) == [i \in 0 .. 5 |-> s[i + 4]]

-----------------------------------------------------------------------------
(* The crate's conversions and the kernel's, by platform and protocol.     *)

Reversed(platform, a) ==             \* mutant: octets as they are displayed
  LET b == [i \in 0 .. 5 |-> a[5 - i]]
  IN  IF platform = "windows" THEN ToNumber(b) ELSE RcSockaddr(b, 1)

(* Into<(sockaddr_storage, socklen_t)> for &BtAddr; the channel is 1.      *)
ToSockaddr(platform, a) ==
  IF platform = "windows" THEN ToNumber(a) ELSE RcSockaddr(a, 1)

(* Into<BtAddr> for &sockaddr_storage, also spelt out in accept and        *)
(* recv_from.                                                              *)
FromSockaddr(platform, s) ==
  IF platform = "windows" THEN FromNumber(s) ELSE RcBdaddr(s)

(* A storage nobody has written to.                                        *)
EmptySockaddr(platform) == IF platform = "windows" THEN 0 ELSE Zeroed

(* The kernel's own reading of btAddr: octet i counts Base^i.              *)
Weight == [i \in 0 .. 5 |-> CASE i = 0 -> 1
                              [] i = 1 -> Base
                              [] i = 2 -> Base2
                              [] i = 3 -> Base3
                              [] i = 4 -> Base4
                              [] i = 5 -> Base * Base4]

NumberOf(a) ==
  a[0] + Base * (a[1] + Base * (a[2] + Base *
    (a[3] + Base * (a[4] + Base * a[5]))))

OctetsOf(n) == [i \in 0 .. 5 |-> (n \div Weight[i]) % Base]

(* The address the kernel finds in a sockaddr, and the sockaddr it fills   *)
(* in for an address with some channel or psm.                             *)
KernelReads(platform, protocol, s) ==
  CASE platform = "windows" -> OctetsOf(s)
    [] platform = "unix" /\ protocol = "RFCOMM" -> RcBdaddr(s)
    [] platform = "unix" /\ protocol = "L2CAP" -> L2Bdaddr(s)

KernelWrites(platform, protocol, a, port) ==
  CASE platform = "windows" -> NumberOf(a)
    [] platform = "unix" /\ protocol = "RFCOMM" -> RcSockaddr(a, port)
    [] platform = "unix" /\ protocol = "L2CAP" -> L2Sockaddr(a, port)

=============================================================================
