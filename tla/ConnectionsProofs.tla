------------------------- MODULE ConnectionsProofs -------------------------
(***************************************************************************)
(* The invariants of Connections, for any threads, handles, devices,       *)
(* backlog and number of connections, and for octets of any number of      *)
(* values, and that accept keeps the promise of AcceptSpec.                *)
(***************************************************************************)
EXTENDS Connections, FiniteSetTheorems, SequenceTheorems,
        WellFoundedInduction, TLAPS

Places == {"idle", "accept4", "asleep4", "accept", "asleep", "mark"}
Fates  == {"waiting", "fetched", "stream", "closed", "gone"}

ListenerTypes ==
  /\ target \in Targets
  /\ live \in SUBSET Handles
  /\ nonblocking \in BOOLEAN

SeqTypes ==
  /\ device \in Seq(Devices) /\ Len(device) <= MaxConns
  /\ fate \in Seq(Fates) /\ Len(fate) = Len(device)
  /\ told \in Seq(BtAddr \cup {None}) /\ Len(told) = Len(device)

CallTypes ==
  /\ pc \in [Threads -> Places]
  /\ handle \in [Threads -> Handles \cup {None}]
  /\ fetched \in [Threads -> Nat \cup {None}]
  /\ DOMAIN sockaddr = Threads /\ sockaddr = [t \in Threads |-> sockaddr[t]]

(* What a running accept borrows and holds.                                *)
CallShape ==
  \A t \in Threads :
    /\ handle[t] \in IF pc[t] = "idle" THEN {None} ELSE live
    /\ fetched[t] \in IF pc[t] = "mark" THEN Connects ELSE {None}

QueueShape == Cardinality(Waiting) <= Backlog

(* A connection taken from the kernel is in the hands of a thread, and no  *)
(* two threads hold the same.                                              *)
HoldShape ==
  /\ \A c \in Connects :
       fate[c] = "fetched" <=> \E t \in Threads : fetched[t] = c
  /\ \A t, u \in Threads :
       fetched[t] = fetched[u] /\ fetched[t] # None => t = u

(* The storage of a thread that holds a connection has the address of the  *)
(* device that made it, and accept told it with the stream.                *)
StorageShape ==
  \A t \in Threads :
    pc[t] = "mark" => sockaddr[t] = Written(device[fetched[t]])

ToldShape ==
  \A c \in Connects :
    IF fate[c] = "stream" THEN told[c] = AddrIn(Written(device[c]))
                          ELSE told[c] = None

(* accept without marking is used only where there is no accept4.          *)
LossShape ==
  /\ \A t \in Threads :
       pc[t] \in {"accept", "asleep", "mark"}
         => ~(target.linux /\ target.accept4)
  /\ OnlyMarkingLoses

(* Before bind there is no handle.                                         *)
NameShape ==
  /\ bound = None => live = {}
  /\ bound = None \/ bound = Read(Sockaddr(Local))
  /\ \A d \in dialled : \E a \in Devices : d = <<a, Read(Sockaddr(a))>>

Types == ListenerTypes /\ SeqTypes /\ CallTypes

IInv ==
  /\ Types /\ CallShape /\ QueueShape /\ HoldShape /\ StorageShape
  /\ ToldShape /\ LossShape /\ NameShape

-----------------------------------------------------------------------------
(* Numbers.                                                                *)

(* Dividing and its remainder.                                             *)
LEMMA Quotient ==
  ASSUME NEW n \in Nat, NEW d \in Nat \ {0}
  PROVE  n \div d \in Nat /\ (n \div d) * d <= n /\ n < (n \div d) * d + d
  OBVIOUS

(* A quotient is known by its bounds.                                      *)
LEMMA Unique ==
  ASSUME NEW n \in Nat, NEW d \in Nat \ {0}, NEW k \in Nat,
         k * d <= n, n < k * d + d
  PROVE  n \div d = k
  OBVIOUS

LEMMA Rem ==
  ASSUME NEW n \in Nat, NEW d \in Nat \ {0}
  PROVE  n % d = n - d * (n \div d)
  OBVIOUS

(* An octet and the rest, put together and taken apart.                    *)
LEMMA Join ==
  ASSUME NEW b \in Nat \ {0}, NEW a \in 0 .. b - 1, NEW q \in Nat
  PROVE  /\ a + b * q \in Nat
         /\ (a + b * q) \div b = q
         /\ (a + b * q) % b = a
<1> DEFINE n == a + b * q
<1>1. b * q \in Nat /\ b * q = q * b
  OBVIOUS
<1>2. n \in Nat /\ q * b <= n /\ n < q * b + b
  BY <1>1
<1> HIDE DEF n
<1>3. n \div b = q
  BY <1>2, Unique
<1>4. n % b = n - b * q
  BY <1>2, <1>3, Rem
<1>5. n % b = a
  BY <1>4, <1>1 DEF n
<1>6. QED
  BY <1>2, <1>3, <1>5 DEF n

LEMMA Bound ==
  ASSUME NEW b \in Nat \ {0}, NEW c \in Nat \ {0},
         NEW a \in 0 .. b - 1, NEW q \in 0 .. c - 1
  PROVE  a + b * q \in 0 .. b * c - 1
  OBVIOUS

LEMMA Twice ==
  ASSUME NEW n \in Nat, NEW b \in Nat \ {0}, NEW c \in Nat \ {0}
  PROVE  b * c \in Nat \ {0} /\ n \div (b * c) = (n \div b) \div c
  OBVIOUS

LEMMA DivideTwice ==
  ASSUME NEW n \in Nat, NEW b \in Nat \ {0}, NEW c \in Nat \ {0},
         NEW d \in Nat \ {0}, d = b * c, NEW x \in Nat, x = n \div b
  PROVE  n \div d = x \div c
<1>1. n \div (b * c) = (n \div b) \div c
  BY Twice
<1>2. QED
  BY <1>1

LEMMA Bases ==
  /\ Base \in Nat \ {0} /\ 1 \in Octet
  /\ Base2 \in Nat \ {0} /\ Base3 \in Nat \ {0} /\ Base4 \in Nat \ {0}
  /\ Base * Base4 \in Nat \ {0}
<1>1. Base \in Nat \ {0} /\ 1 \in Octet
  BY BaseAssumption DEF Octet
<1>2. Base2 \in Nat \ {0}
  BY <1>1, Twice DEF Base2
<1>3. Base3 \in Nat \ {0}
  BY <1>1, <1>2, Twice DEF Base3
<1>4. Base4 \in Nat \ {0}
  BY <1>1, <1>3, Twice DEF Base4
<1>5. Base * Base4 \in Nat \ {0}
  BY <1>1, <1>4, Twice
<1>6. QED
  BY <1>1, <1>2, <1>3, <1>4, <1>5

(* Dividing by a power is dividing again and again.                        *)
LEMMA Chain ==
  ASSUME NEW n \in Nat, NEW q1 \in Nat, NEW q2 \in Nat, NEW q3 \in Nat,
         NEW q4 \in Nat, n \div Base = q1, q1 \div Base = q2,
         q2 \div Base = q3, q3 \div Base = q4
  PROVE  n \div Base2 = q2 /\ n \div Base3 = q3 /\ n \div Base4 = q4
<1>1. /\ Base \in Nat \ {0} /\ Base2 \in Nat \ {0} /\ Base3 \in Nat \ {0}
      /\ Base4 \in Nat \ {0}
  BY Bases
<1>2. n \div Base2 = q2
  BY <1>1, Twice DEF Base2
<1>3. n \div Base3 = q3
  <2>1. Base3 = Base2 * Base
    BY <1>1 DEF Base3
  <2>2. QED
    BY <1>1, <1>2, <2>1, DivideTwice
<1>4. n \div Base4 = q4
  <2>1. Base4 = Base3 * Base
    BY <1>1 DEF Base4
  <2>2. QED
    BY <1>1, <1>3, <2>1, DivideTwice
<1>5. QED
  BY <1>2, <1>3, <1>4

(* A number by its lowest four octets and the rest.                        *)
Lowest(a0, a1, a2, a3, q) ==
  a0 + Base * (a1 + Base * (a2 + Base * (a3 + Base * q)))

HasDigits(n, a0, a1, a2, a3, q) ==
  /\ n \in Nat
  /\ n % Base = a0 /\ (n \div Base) % Base = a1
  /\ (n \div Base2) % Base = a2 /\ (n \div Base3) % Base = a3
  /\ n \div Base4 = q

(* The digits of a number, one by one from the lowest.                     *)
LEMMA Digits ==
  ASSUME NEW a0 \in Octet, NEW a1 \in Octet, NEW a2 \in Octet,
         NEW a3 \in Octet, NEW q4 \in Nat
  PROVE  HasDigits(Lowest(a0, a1, a2, a3, q4), a0, a1, a2, a3, q4)
<1>1. Base \in Nat \ {0}
  BY Bases
<1> USE DEF Octet
<1>2. PICK q3 \in Nat : q3 = a3 + Base * q4
  BY <1>1, Join
<1>3. PICK q2 \in Nat : q2 = a2 + Base * q3
  BY <1>1, Join
<1>4. PICK q1 \in Nat : q1 = a1 + Base * q2
  BY <1>1, Join
<1>5. PICK n \in Nat : n = a0 + Base * q1
  BY <1>1, Join
<1>6. n % Base = a0 /\ n \div Base = q1
  BY <1>1, <1>5, Join
<1>7. q1 % Base = a1 /\ q1 \div Base = q2
  BY <1>1, <1>4, Join
<1>8. q2 % Base = a2 /\ q2 \div Base = q3
  BY <1>1, <1>3, Join
<1>9. q3 % Base = a3 /\ q3 \div Base = q4
  BY <1>1, <1>2, Join
<1>10. n \div Base2 = q2 /\ n \div Base3 = q3 /\ n \div Base4 = q4
  BY <1>6, <1>7, <1>8, <1>9, Chain
<1>11. n = Lowest(a0, a1, a2, a3, q4)
  BY <1>2, <1>3, <1>4, <1>5 DEF Lowest
<1>12. QED
  BY <1>6, <1>7, <1>8, <1>9, <1>10, <1>11 DEF HasDigits

(* The kernel finds the octets it counted.                                 *)
LEMMA OctetsOfNumber ==
  ASSUME NEW a \in BtAddr
  PROVE  OctetsOf(NumberOf(a)) = a
<1>1. PICK a0 \in Octet, a1 \in Octet, a2 \in Octet, a3 \in Octet,
           a4 \in Octet, a5 \in Octet :
        /\ a[0] = a0 /\ a[1] = a1 /\ a[2] = a2
        /\ a[3] = a3 /\ a[4] = a4 /\ a[5] = a5
  BY DEF BtAddr
<1>2. PICK q4 \in Nat : q4 = a4 + Base * a5
  BY Bases, Join DEF Octet
<1>3. q4 % Base = a4 /\ q4 \div Base = a5
  BY <1>2, Bases, Join DEF Octet
<1>4. PICK n \in Nat : n = Lowest(a0, a1, a2, a3, q4)
                     /\ HasDigits(n, a0, a1, a2, a3, q4)
  <2>1. HasDigits(Lowest(a0, a1, a2, a3, q4), a0, a1, a2, a3, q4)
    BY Digits
  <2>2. QED
    BY <2>1 DEF HasDigits
<1>5. n \div (Base * Base4) = a5
  <2>1. n \div Base4 = q4 /\ Base \in Nat \ {0} /\ Base4 \in Nat \ {0}
    BY <1>4, Bases DEF HasDigits
  <2>2. Base * Base4 = Base4 * Base
    BY <2>1
  <2>4. n \div (Base4 * Base) = (n \div Base4) \div Base
    BY <2>1, Twice
  <2>5. QED
    BY <1>3, <2>1, <2>2, <2>4
<1>6. n \div 1 = n /\ a5 % Base = a5
  BY Bases DEF Octet
<1>7. \A i \in 0 .. 5 : (n \div Weight[i]) % Base = a[i]
  BY <1>1, <1>3, <1>4, <1>5, <1>6 DEF Weight, HasDigits
<1>8. NumberOf(a) = n
  BY <1>1, <1>2, <1>4 DEF NumberOf, Lowest
<1>9. QED
  BY <1>7, <1>8 DEF OctetsOf, BtAddr

(* btAddr as the crate fills it in is the number the kernel would.         *)
LEMMA ToNumberIsNumber ==
  ASSUME NEW a \in BtAddr
  PROVE  ToNumber(a) = NumberOf(a)
<1>1. PICK a0 \in Octet, a1 \in Octet, a2 \in Octet, a3 \in Octet,
           a4 \in Octet, a5 \in Octet :
        /\ a[0] = a0 /\ a[1] = a1 /\ a[2] = a2
        /\ a[3] = a3 /\ a[4] = a4 /\ a[5] = a5
  BY DEF BtAddr
<1>2. Base \in Nat /\ a0 \in Nat /\ a1 \in Nat /\ a2 \in Nat /\ a3 \in Nat
      /\ a4 \in Nat /\ a5 \in Nat
  BY Bases DEF Octet
<1>3. (a4 + a5 * Base) * Base4 + (a0 + a1 * Base + a2 * Base2 + a3 * Base3)
      = a0 + Base * (a1 + Base * (a2 + Base * (a3 + Base * (a4 + Base * a5))))
  BY <1>2 DEF Base2, Base3, Base4
<1>4. QED
  BY <1>1, <1>3 DEF ToNumber, NumberOf, SetNapSap

(* Nap and sap, taken apart octet by octet, give the address back.         *)
LEMMA FromNumberOfNumber ==
  ASSUME NEW a \in BtAddr
  PROVE  FromNumber(NumberOf(a)) = a
<1>1. PICK a0 \in Octet, a1 \in Octet, a2 \in Octet, a3 \in Octet,
           a4 \in Octet, a5 \in Octet :
        /\ a[0] = a0 /\ a[1] = a1 /\ a[2] = a2
        /\ a[3] = a3 /\ a[4] = a4 /\ a[5] = a5
  BY DEF BtAddr
<1>2. PICK nap \in Nat : nap = a4 + Base * a5
  BY Bases, Join DEF Octet
<1>3. nap % Base = a4 /\ nap \div Base = a5
  BY <1>2, Bases, Join DEF Octet
<1>4. nap \in 0 .. Base2 - 1
  BY <1>2, Bases, Bound DEF Octet, Base2
<1>5. PICK n \in Nat : n = Lowest(a0, a1, a2, a3, nap)
                     /\ HasDigits(n, a0, a1, a2, a3, nap)
  <2>1. HasDigits(Lowest(a0, a1, a2, a3, nap), a0, a1, a2, a3, nap)
    BY Digits
  <2>2. QED
    BY <2>1 DEF HasDigits
<1>6. PICK sap \in Nat : sap = Lowest(a0, a1, a2, a3, 0)
                       /\ HasDigits(sap, a0, a1, a2, a3, 0)
  <2>1. HasDigits(Lowest(a0, a1, a2, a3, 0), a0, a1, a2, a3, 0)
    BY Digits
  <2>2. QED
    BY <2>1 DEF HasDigits
<1>7. sap \in 0 .. Base4 - 1
  <2>1. sap \div Base4 = 0 /\ Base4 \in Nat \ {0}
    BY <1>6, Bases DEF HasDigits
  <2>2. sap < (sap \div Base4) * Base4 + Base4
    BY <2>1, Quotient
  <2>3. QED
    BY <2>1, <2>2
<1>8. sap \div Base3 = a3
  <2> DEFINE x == sap \div Base3
  <2>1. x \in Nat /\ Base3 \in Nat \ {0} /\ Base \in Nat \ {0}
    BY Bases, Quotient
  <2>2. sap \div (Base3 * Base) = x \div Base
    BY <2>1, Twice
  <2>3. Base3 * Base = Base4
    BY <2>1 DEF Base4
  <2>4. x \div Base = 0 /\ x % Base = a3
    BY <1>6, <2>2, <2>3 DEF HasDigits
  <2> HIDE DEF x
  <2>5. x = a3
    <3>1. x % Base = x - Base * (x \div Base)
      BY <2>1, Rem
    <3>2. QED
      BY <2>1, <2>4, <3>1
  <2>6. QED
    BY <2>5 DEF x
<1>9. n = sap + Base4 * nap
  <2>1. Base \in Nat /\ a0 \in Nat /\ a1 \in Nat /\ a2 \in Nat /\ a3 \in Nat
    BY Bases DEF Octet
  <2>2. QED
    BY <1>5, <1>6, <2>1 DEF Lowest, Base2, Base3, Base4
<1>10. n \div Base4 = nap /\ n % Base4 = sap
  BY <1>7, <1>9, Bases, Join
<1>11. nap % Base2 = nap
  BY <1>4, Bases
<1>12. GetNap(n) = nap /\ GetSap(n) = sap
  BY <1>10, <1>11 DEF GetNap, GetSap
<1>13. NumberOf(a) = n
  BY <1>1, <1>2, <1>5 DEF NumberOf, Lowest
<1>14. NapSap(nap, sap) = [i \in 0 .. 5 |-> a[i]]
  BY <1>1, <1>3, <1>6, <1>8 DEF NapSap, HasDigits
<1>15. QED
  BY <1>12, <1>13, <1>14 DEF FromNumber, BtAddr

-----------------------------------------------------------------------------
(* What the kernel reads and what accept tells, for every target.          *)

LEMMA UnixReads ==
  ASSUME NEW a \in BtAddr
  PROVE  /\ RcBdaddr(RcSockaddr(a, 1)) = a
         /\ L2Bdaddr(RcSockaddr(a, 1)) \in BtAddr
<1>1. a = [i \in 0 .. 5 |-> a[i]] /\ \A i \in 0 .. 5 : a[i] \in Octet
  BY DEF BtAddr
<1>2. RcBdaddr(RcSockaddr(a, 1)) = [i \in 0 .. 5 |-> a[i]]
  BY DEF RcBdaddr, RcSockaddr, Offsets
<1>3. \A i \in 0 .. 5 : RcSockaddr(a, 1)[i + 4] \in Octet
  BY <1>1, Bases DEF RcSockaddr, Offsets, Octet
<1>4. QED
  BY <1>1, <1>2, <1>3 DEF L2Bdaddr, BtAddr

LEMMA UnixTells ==
  ASSUME NEW a \in BtAddr
  PROVE  /\ RcBdaddr(RcSockaddr(a, Port)) = a
         /\ RcBdaddr(L2Sockaddr(a, Port)) \in BtAddr
<1>1. a = [i \in 0 .. 5 |-> a[i]] /\ \A i \in 0 .. 5 : a[i] \in Octet
  BY DEF BtAddr
<1>2. RcBdaddr(RcSockaddr(a, Port)) = [i \in 0 .. 5 |-> a[i]]
  BY DEF RcBdaddr, RcSockaddr, Offsets
<1>3. Port % Base \in Octet /\ Port \div Base \in Octet
  BY PortAssumption, Bases DEF Octet
<1>4. \A i \in 0 .. 5 : L2Sockaddr(a, Port)[i + 2] \in Octet
  BY <1>1, <1>3 DEF L2Sockaddr, Offsets
<1>5. QED
  BY <1>1, <1>2, <1>4 DEF RcBdaddr, BtAddr

(* On windows: the number the crate makes of an address is the kernel's    *)
(* for it, and the address comes back from it on either side, whatever the *)
(* octets.                                                                 *)
THEOREM RoundTrip ==
  \A a \in BtAddr : /\ ToNumber(a) = NumberOf(a)
                    /\ OctetsOf(ToNumber(a)) = a
                    /\ FromNumber(ToNumber(a)) = a
  BY ToNumberIsNumber, OctetsOfNumber, FromNumberOfNumber

LEMMA Kinds ==
  ASSUME target \in Targets
  PROVE  /\ target.platform \in {"unix", "windows"}
         /\ target.protocol \in {"RFCOMM", "L2CAP"}
  BY TargetsAssumption

(* The address the kernel uses is an address, and for RFCOMM the one that  *)
(* was passed.                                                             *)
LEMMA KernelReadsIt ==
  ASSUME target \in Targets, NEW a \in BtAddr
  PROVE  /\ Read(Sockaddr(a)) \in BtAddr
         /\ target.protocol = "RFCOMM" => Read(Sockaddr(a)) = a
<1>1. CASE target.platform = "windows"
  <2>1. Read(Sockaddr(a)) = OctetsOf(ToNumber(a))
    BY <1>1 DEF Read, Sockaddr, KernelReads, ToSockaddr
  <2>2. QED
    BY <2>1, ToNumberIsNumber, OctetsOfNumber
<1>2. CASE target.platform = "unix"
  <2>1. Sockaddr(a) = RcSockaddr(a, 1)
    BY <1>2 DEF Sockaddr, ToSockaddr
  <2>2. QED
    BY <1>2, <2>1, UnixReads, Kinds DEF Read, KernelReads
<1>3. QED
  BY <1>1, <1>2, Kinds

(* The same on the way back: what accept and peer_addr make of the address *)
(* of a device.                                                            *)
LEMMA CrateReadsIt ==
  ASSUME target \in Targets, NEW a \in BtAddr
  PROVE  /\ AddrIn(Written(a)) \in BtAddr
         /\ target.protocol = "RFCOMM" => AddrIn(Written(a)) = a
<1>1. CASE target.platform = "windows"
  <2>1. AddrIn(Written(a)) = FromNumber(NumberOf(a))
    BY <1>1 DEF AddrIn, Written, KernelWrites, FromSockaddr
  <2>2. QED
    BY <2>1, FromNumberOfNumber
<1>2. CASE target.platform = "unix"
  <2>1. AddrIn(Written(a)) = RcBdaddr(Written(a))
    BY <1>2 DEF AddrIn, FromSockaddr
  <2>2. QED
    BY <1>2, <2>1, UnixTells, Kinds DEF Written, KernelWrites
<1>3. QED
  BY <1>1, <1>2, Kinds



-----------------------------------------------------------------------------
(* The sequences, connection by connection.                                *)

(* The least of a set of numbers.                                          *)
LEMMA Leastness ==
  ASSUME NEW S \in SUBSET Nat, S # {}
  PROVE  Min(S) \in S
<1>1. PICK x \in S : \A m \in S : ~(<<m, x>> \in OpToRel(<, Nat))
  BY WFMin, NatLessThanWellFounded
<1>2. ASSUME NEW m \in S PROVE x <= m
  <2>1. m \in Nat /\ x \in Nat
    OBVIOUS
  <2>2. m < x => <<m, x>> \in OpToRel(<, Nat)
    BY <2>1, Zenon DEF OpToRel
  <2>3. ~(m < x)
    BY <1>1, <2>2, Zenon
  <2>4. QED
    BY <2>1, <2>3
<1>3. QED
  BY <1>2 DEF Min

LEMMA FrontWaits ==
  ASSUME SeqTypes, Waiting # {}
  PROVE  Min(Waiting) \in Connects /\ fate[Min(Waiting)] = "waiting"
<1>1. Waiting \in SUBSET Nat
  BY DEF Waiting, Connects
<1>2. Min(Waiting) \in Waiting
  BY <1>1, Leastness
<1>3. QED
  BY <1>2 DEF Waiting

LEMMA AsSequence ==
  ASSUME NEW S, NEW n \in Nat, NEW f \in [1 .. n -> S]
  PROVE  f \in Seq(S) /\ Len(f) = n
<1>1. f \in Seq(S)
  BY SeqDef
<1>2. DOMAIN f = 1 .. n /\ DOMAIN f = 1 .. Len(f) /\ Len(f) \in Nat
  BY <1>1, LenProperties
<1>3. QED
  BY <1>2

LEMMA Numbered ==
  ASSUME SeqTypes
  PROVE  /\ Len(device) \in Nat /\ Connects = 1 .. Len(device)
         /\ Len(fate) = Len(device) /\ Len(told) = Len(device)
         /\ \A c \in Connects : c \in Nat /\ device[c] \in Devices
                                /\ device[c] \in BtAddr
                                /\ fate[c] \in Fates
                                /\ told[c] \in BtAddr \cup {None}
<1>1. Len(device) \in Nat /\ Connects = 1 .. Len(device)
  BY LenProperties DEF SeqTypes, Connects
<1>2. ASSUME NEW c \in Connects
      PROVE  /\ device[c] \in Devices /\ fate[c] \in Fates
             /\ told[c] \in BtAddr \cup {None}
  BY <1>1, <1>2, ElementOfSeq DEF SeqTypes
<1>3. QED
  BY <1>1, <1>2, DevicesAssumption DEF SeqTypes

LEMMA UpdateFate ==
  ASSUME SeqTypes, NEW c \in Connects, NEW x \in Fates, UNCHANGED device,
         fate' = [fate EXCEPT ![c] = x]
  PROVE  /\ Connects' = Connects
         /\ fate' \in Seq(Fates) /\ Len(fate') = Len(fate)
         /\ \A d \in Connects : fate'[d] = IF d = c THEN x ELSE fate[d]
<1>1. fate \in Seq(Fates) /\ c \in 1 .. Len(fate)
  BY Numbered DEF SeqTypes
<1>2. QED
  BY <1>1, Numbered, ExceptSeq DEF Connects

LEMMA UpdateTold ==
  ASSUME SeqTypes, NEW c \in Connects, NEW a \in BtAddr,
         told' = [told EXCEPT ![c] = a]
  PROVE  /\ told' \in Seq(BtAddr \cup {None}) /\ Len(told') = Len(told)
         /\ \A d \in Connects : told'[d] = IF d = c THEN a ELSE told[d]
<1>1. told \in Seq(BtAddr \cup {None}) /\ c \in 1 .. Len(told)
  BY Numbered DEF SeqTypes
<1>2. QED
  BY <1>1, Numbered, ExceptSeq DEF Connects

LEMMA DropAll ==
  ASSUME SeqTypes, NEW h, DropHandle(h)
  PROVE  /\ Connects' = Connects
         /\ fate' \in Seq(Fates) /\ Len(fate') = Len(fate)
         /\ \A c \in Connects :
              \/ fate'[c] = fate[c]
              \/ fate[c] = "waiting" /\ fate'[c] = "gone"
<1>1. fate' \in [1 .. Len(device) -> Fates]
  BY Numbered DEF DropHandle, Fates
<1>2. fate' \in Seq(Fates) /\ Len(fate') = Len(device)
  BY <1>1, Numbered, AsSequence
<1>3. ASSUME NEW c \in Connects
      PROVE  \/ fate'[c] = fate[c]
             \/ fate[c] = "waiting" /\ fate'[c] = "gone"
  BY DEF DropHandle, Waiting
<1>4. QED
  BY <1>2, <1>3, Numbered DEF DropHandle, Connects

LEMMA Grow ==
  ASSUME SeqTypes, NEW d \in Devices, Arrive(d)
  PROVE  LET n == Len(device) + 1
         IN  /\ n \in Nat /\ n \notin Connects /\ Connects' = Connects \cup {n}
             /\ device' \in Seq(Devices) /\ Len(device') = n
             /\ fate' \in Seq(Fates) /\ Len(fate') = n
             /\ told' \in Seq(BtAddr \cup {None}) /\ Len(told') = n
             /\ \A c \in Connects : /\ device'[c] = device[c]
                                    /\ fate'[c] = fate[c]
                                    /\ told'[c] = told[c]
             /\ fate'[n] \in {"waiting", "gone"} /\ told'[n] = None
             /\ fate'[n] = "waiting" => Cardinality(Waiting) < Backlog
<1> DEFINE n == Len(device) + 1
           x == IF live # {} /\ Cardinality(Waiting) < Backlog
                THEN "waiting" ELSE "gone"
<1>1. /\ device' = Append(device, d) /\ fate' = Append(fate, x)
      /\ told' = Append(told, None)
  BY DEF Arrive
<1>2. x \in Fates /\ x \in {"waiting", "gone"}
      /\ (x = "waiting" => Cardinality(Waiting) < Backlog)
  BY DEF Fates
<1> HIDE DEF x
<1>3. /\ device' \in Seq(Devices) /\ Len(device') = n
      /\ \A c \in 1 .. Len(device) : device'[c] = device[c]
  BY <1>1, AppendProperties DEF SeqTypes
<1>4. /\ fate' \in Seq(Fates) /\ Len(fate') = n
      /\ \A c \in 1 .. Len(device) : fate'[c] = fate[c]
      /\ fate'[n] = x
  BY <1>1, <1>2, AppendProperties DEF SeqTypes
<1>5. /\ told' \in Seq(BtAddr \cup {None}) /\ Len(told') = n
      /\ \A c \in 1 .. Len(device) : told'[c] = told[c]
      /\ told'[n] = None
  BY <1>1, AppendProperties DEF SeqTypes
<1>6. /\ n \in Nat /\ n \notin Connects /\ Connects' = Connects \cup {n}
  BY <1>3, Numbered DEF Connects
<1>7. QED
  BY <1>2, <1>3, <1>4, <1>5, <1>6, Numbered


-----------------------------------------------------------------------------
(* Which steps touch what.                                                 *)

LEMMA TargetStays ==
  ASSUME [Next]_vars PROVE target' = target
  BY DEF Next, vars, Accepting, Bind, DropHandle, TryClone, SetNonblocking,
         CallAccept, FallBack, TakeMarked, Take, Mark, Sleep, WouldBlock,
         Interrupted, AcceptFails, Dial, Arrive, Withdraw

LEMMA ConnectionMoves ==
  ASSUME [Next]_vars
  PROVE  \/ UNCHANGED <<device, fate, told>>
         \/ \E h \in Handles : DropHandle(h)
         \/ \E t \in Threads : TakeMarked(t) \/ Take(t) \/ Mark(t)
         \/ \E d \in Devices : Arrive(d)
         \/ \E c \in Connects : Withdraw(c)
  BY DEF Next, vars, Accepting, Bind, TryClone, SetNonblocking, CallAccept,
         FallBack, Sleep, WouldBlock, Interrupted, AcceptFails, Dial

LEMMA CallMoves ==
  ASSUME [Next]_vars
  PROVE  \/ UNCHANGED locals
         \/ \E t \in Threads :
              \/ \E h \in Handles : CallAccept(t, h)
              \/ FallBack(t) \/ TakeMarked(t) \/ Take(t) \/ Mark(t) \/ Sleep(t)
              \/ WouldBlock(t) \/ Interrupted(t) \/ AcceptFails(t)
  BY DEF Next, vars, Accepting, Bind, DropHandle, TryClone, SetNonblocking,
         Dial, Arrive, Withdraw

LEMMA ListenerMoves ==
  ASSUME [Next]_vars
  PROVE  \/ UNCHANGED <<bound, live, nonblocking>>
         \/ \E h \in Handles : \/ Bind(h) \/ DropHandle(h)
                               \/ \E new \in Handles : TryClone(h, new)
                               \/ \E v \in BOOLEAN : SetNonblocking(h, v)
  BY DEF Next, vars, listener, Accepting, CallAccept, FallBack, TakeMarked,
         Take, Mark, Sleep, WouldBlock, Interrupted, AcceptFails, Dial, Arrive,
         Withdraw

-----------------------------------------------------------------------------
(* Types.                                                                  *)

LEMMA ListenerTypesStep ==
  ASSUME ListenerTypes, [Next]_vars
  PROVE  ListenerTypes'
<1>1. target' \in Targets
  BY TargetStays DEF ListenerTypes
<1>2. live' \in SUBSET Handles
  BY ListenerMoves
  DEF ListenerTypes, Bind, DropHandle, TryClone, SetNonblocking
<1>3. nonblocking' \in BOOLEAN
  BY ListenerMoves
  DEF ListenerTypes, Bind, DropHandle, TryClone, SetNonblocking
<1>4. QED
  BY <1>1, <1>2, <1>3 DEF ListenerTypes

(* A thread that returns from accept with a stream.                        *)
LEMMA TakenTells ==
  ASSUME Types, CallShape, StorageShape, NEW t \in Threads
  PROVE  /\ Waiting # {} => AddrIn(Written(device[Min(Waiting)])) \in BtAddr
         /\ pc[t] = "mark" => /\ fetched[t] \in Connects
                              /\ AddrIn(sockaddr[t]) \in BtAddr
<1>1. SeqTypes /\ target \in Targets
  BY DEF Types, ListenerTypes
<1>2. Waiting # {} => AddrIn(Written(device[Min(Waiting)])) \in BtAddr
  BY <1>1, FrontWaits, Numbered, CrateReadsIt
<1>3. ASSUME pc[t] = "mark"
      PROVE  fetched[t] \in Connects /\ AddrIn(sockaddr[t]) \in BtAddr
  <2>1. fetched[t] \in Connects
    BY <1>3 DEF CallShape
  <2>2. sockaddr[t] = Written(device[fetched[t]])
    BY <1>3 DEF StorageShape
  <2>3. QED
    BY <1>1, <2>1, <2>2, Numbered, CrateReadsIt
<1>4. QED
  BY <1>2, <1>3

LEMMA SeqTypesStep ==
  ASSUME Types, CallShape, StorageShape, [Next]_vars
  PROVE  SeqTypes'
<1>1. SeqTypes
  BY DEF Types
<1>2. CASE UNCHANGED <<device, fate, told>>
  BY <1>1, <1>2 DEF SeqTypes
<1>3. ASSUME NEW h \in Handles, DropHandle(h) PROVE SeqTypes'
  BY <1>1, <1>3, DropAll DEF DropHandle, SeqTypes
<1>4. ASSUME NEW t \in Threads, TakeMarked(t) PROVE SeqTypes'
  <2> DEFINE c == Min(Waiting)
             a == AddrIn(Written(device[c]))
  <2>1. c \in Connects /\ a \in BtAddr /\ "stream" \in Fates
    BY <1>1, <1>4, FrontWaits, TakenTells DEF TakeMarked, Fates
  <2>2. /\ UNCHANGED device /\ fate' = [fate EXCEPT ![c] = "stream"]
        /\ told' = [told EXCEPT ![c] = a]
    BY <1>4 DEF TakeMarked
  <2> HIDE DEF c, a
  <2>3. QED
    BY <1>1, <2>1, <2>2, UpdateFate, UpdateTold DEF SeqTypes
<1>5. ASSUME NEW t \in Threads, Take(t) PROVE SeqTypes'
  <2> DEFINE c == Min(Waiting)
  <2>1. c \in Connects /\ "fetched" \in Fates
    BY <1>1, <1>5, FrontWaits DEF Take, Fates
  <2>2. UNCHANGED <<device, told>> /\ fate' = [fate EXCEPT ![c] = "fetched"]
    BY <1>5 DEF Take
  <2> HIDE DEF c
  <2>3. QED
    BY <1>1, <2>1, <2>2, UpdateFate DEF SeqTypes
<1>6. ASSUME NEW t \in Threads, Mark(t) PROVE SeqTypes'
  <2> DEFINE c == fetched[t]
             a == AddrIn(sockaddr[t])
  <2>1. c \in Connects /\ a \in BtAddr /\ {"stream", "closed"} \subseteq Fates
    BY <1>6, TakenTells DEF Mark, Fates
  <2>2. /\ UNCHANGED device
        /\ \/ /\ fate' = [fate EXCEPT ![c] = "stream"]
              /\ told' = [told EXCEPT ![c] = a]
           \/ fate' = [fate EXCEPT ![c] = "closed"] /\ UNCHANGED told
    BY <1>6 DEF Mark
  <2> HIDE DEF c, a
  <2>3. QED
    BY <1>1, <2>1, <2>2, UpdateFate, UpdateTold DEF SeqTypes
<1>7. ASSUME NEW d \in Devices, Arrive(d) PROVE SeqTypes'
  <2>1. Len(device) < MaxConns /\ Len(device) \in Nat /\ MaxConns \in Nat
    BY <1>1, <1>7, Numbered, BoundsAssumption DEF Arrive
  <2>2. QED
    BY <1>1, <1>7, <2>1, Grow DEF SeqTypes
<1>8. ASSUME NEW c \in Connects, Withdraw(c) PROVE SeqTypes'
  <2>1. "gone" \in Fates
    BY DEF Fates
  <2>2. QED
    BY <1>1, <1>8, <2>1, UpdateFate DEF Withdraw, SeqTypes
<1>9. QED
  BY <1>2, <1>3, <1>4, <1>5, <1>6, <1>7, <1>8, ConnectionMoves

(* The numbers of connections stay numbers of connections.                 *)
LEMMA ConnectsGrow ==
  ASSUME SeqTypes, [Next]_vars
  PROVE  Connects \subseteq Connects'
<1>1. CASE UNCHANGED device
  BY <1>1 DEF Connects
<1>2. ASSUME NEW d \in Devices, Arrive(d) PROVE Connects \subseteq Connects'
  BY <1>2, Grow
<1>3. QED
  BY <1>1, <1>2, ConnectionMoves
  DEF DropHandle, TakeMarked, Take, Mark, Withdraw

LEMMA CallTypesStep ==
  ASSUME Types, CallShape, bound = None => live = {}, [Next]_vars
  PROVE  CallTypes' /\ CallShape'
<1>1. SeqTypes /\ CallTypes
  BY DEF Types
<1>2. CASE UNCHANGED locals
  <2>1. CallTypes'
    BY <1>1, <1>2 DEF locals, CallTypes
  <2>2. \A t \in Threads : fetched'[t] \in IF pc'[t] = "mark" THEN Connects'
                                                           ELSE {None}
    BY <1>1, <1>2, ConnectsGrow DEF locals, CallShape
  <2>3. \A t \in Threads : handle'[t] \in IF pc'[t] = "idle" THEN {None}
                                                          ELSE live'
    <3>1. CASE UNCHANGED live
      BY <1>2, <3>1 DEF locals, CallShape
    <3>2. ASSUME NEW h \in Handles, Bind(h) PROVE live = {}
      BY <3>2 DEF Bind
    <3>3. ASSUME NEW h \in Handles, DropHandle(h)
          PROVE  \A t \in Threads : handle[t] \in live => handle[t] \in live'
      BY <3>3 DEF DropHandle
    <3>4. ASSUME NEW h \in Handles, NEW new \in Handles, TryClone(h, new)
          PROVE  live \subseteq live'
      BY <3>4 DEF TryClone
    <3>5. \A t \in Threads : handle[t] \in live => handle[t] \in live'
      BY <3>1, <3>2, <3>3, <3>4, ListenerMoves DEF SetNonblocking
    <3>6. QED
      BY <1>2, <3>5 DEF locals, CallShape
  <2>4. QED
    BY <2>1, <2>2, <2>3 DEF CallShape
<1>3. ASSUME NEW t \in Threads, NEW h \in Handles, CallAccept(t, h)
      PROVE  CallTypes' /\ CallShape'
  BY <1>1, <1>3
  DEF CallAccept, CallTypes, CallShape, Places, listener, Connects
<1>4. ASSUME NEW t \in Threads,
             FallBack(t) \/ Sleep(t) \/ Interrupted(t)
      PROVE  CallTypes' /\ CallShape'
  <2>1. PICK p \in Places \ {"idle", "mark"} : pc' = [pc EXCEPT ![t] = p]
    BY <1>1, <1>4
    DEF FallBack, Sleep, Interrupted, Places, CallTypes
  <2>2. UNCHANGED <<listener, handle, sockaddr, fetched, device>>
        /\ pc[t] \notin {"idle", "mark"}
    BY <1>4 DEF FallBack, Sleep, Interrupted, NothingWaits
  <2>3. QED
    BY <1>1, <2>1, <2>2 DEF CallTypes, CallShape, listener, Connects
<1>5. ASSUME NEW t \in Threads,
             TakeMarked(t) \/ WouldBlock(t) \/ AcceptFails(t)
      PROVE  CallTypes' /\ CallShape'
  <2>1. /\ UNCHANGED <<listener, fetched, device>> /\ Return(t)
        /\ pc[t] \notin {"idle", "mark"}
        /\ DOMAIN sockaddr' = Threads
        /\ sockaddr' = [u \in Threads |-> sockaddr'[u]]
    BY <1>1, <1>5
    DEF TakeMarked, WouldBlock, AcceptFails, NothingWaits, InAccept4,
        InAccept, CallTypes
  <2>2. QED
    BY <1>1, <2>1
    DEF CallTypes, CallShape, Return, Places, listener, Connects
<1>6. ASSUME NEW t \in Threads, Take(t)
      PROVE  CallTypes' /\ CallShape'
  <2> DEFINE c == Min(Waiting)
  <2>1. c \in Connects /\ c \in Nat
    BY <1>1, <1>6, FrontWaits, Numbered DEF Take
  <2>2. /\ UNCHANGED <<listener, handle, device>>
        /\ pc' = [pc EXCEPT ![t] = "mark"]
        /\ fetched' = [fetched EXCEPT ![t] = c]
        /\ sockaddr' = [sockaddr EXCEPT ![t] = Written(device[c])]
        /\ pc[t] # "idle"
    BY <1>6 DEF Take, InAccept
  <2> HIDE DEF c
  <2>3. QED
    BY <1>1, <2>1, <2>2 DEF CallTypes, CallShape, Places, listener, Connects
<1>7. ASSUME NEW t \in Threads, Mark(t)
      PROVE  CallTypes' /\ CallShape'
  <2>1. /\ UNCHANGED <<listener, sockaddr, device>> /\ Return(t)
        /\ fetched' = [fetched EXCEPT ![t] = None]
    BY <1>7 DEF Mark
  <2>2. QED
    BY <1>1, <2>1
    DEF CallTypes, CallShape, Return, Places, listener, Connects
<1>8. QED
  BY <1>2, <1>3, <1>4, <1>5, <1>6, <1>7, CallMoves

-----------------------------------------------------------------------------
(* What waits.                                                             *)

LEMMA WaitingFinite ==
  ASSUME SeqTypes
  PROVE  IsFiniteSet(Waiting) /\ Cardinality(Waiting) \in Nat
<1>1. IsFiniteSet(Connects)
  BY Numbered, FS_Interval
<1>2. Waiting \in SUBSET Connects
  BY DEF Waiting
<1>3. QED
  BY <1>1, <1>2, FS_Subset, FS_CardinalityType

LEMMA QueueStep ==
  ASSUME Types, CallShape, QueueShape, [Next]_vars
  PROVE  QueueShape'
<1>1. SeqTypes
  BY DEF Types
<1>2. ASSUME Waiting' \subseteq Waiting PROVE QueueShape'
  <2>1. Waiting' \in SUBSET Waiting
    BY <1>2
  <2>2. Cardinality(Waiting') <= Cardinality(Waiting)
        /\ IsFiniteSet(Waiting')
    BY <1>1, <2>1, WaitingFinite, FS_Subset
  <2>3. Cardinality(Waiting') \in Nat
    BY <2>2, FS_CardinalityType
  <2>4. QED
    BY <1>1, <2>2, <2>3, WaitingFinite, BoundsAssumption DEF QueueShape
<1>3. CASE UNCHANGED <<device, fate, told>>
  BY <1>2, <1>3 DEF Waiting, Connects
<1>4. ASSUME NEW h \in Handles, DropHandle(h) PROVE QueueShape'
  BY <1>1, <1>2, <1>4, DropAll DEF Waiting
<1>5. ASSUME NEW c \in Connects, NEW x \in Fates \ {"waiting"},
             UNCHANGED device, fate' = [fate EXCEPT ![c] = x]
      PROVE  QueueShape'
  <2>1. /\ Connects' = Connects
        /\ \A d \in Connects : fate'[d] = IF d = c THEN x ELSE fate[d]
    BY <1>1, <1>5, UpdateFate
  <2>2. Waiting' \subseteq Waiting
    BY <1>5, <2>1 DEF Waiting
  <2>3. QED
    BY <1>2, <2>2
<1>6. ASSUME NEW t \in Threads, TakeMarked(t) \/ Take(t) \/ Mark(t)
      PROVE  QueueShape'
  <2>1. Min(Waiting) \in Connects \/ Mark(t)
    BY <1>1, <1>6, FrontWaits DEF TakeMarked, Take
  <2>2. Mark(t) => fetched[t] \in Connects
    BY DEF Mark, CallShape
  <2>3. {"fetched", "stream", "closed"} \subseteq Fates \ {"waiting"}
    BY DEF Fates
  <2>4. QED
    BY <1>5, <1>6, <2>1, <2>2, <2>3 DEF TakeMarked, Take, Mark
<1>7. ASSUME NEW d \in Devices, Arrive(d) PROVE QueueShape'
  <2> DEFINE n == Len(device) + 1
  <2>1. Waiting' \subseteq Waiting \cup {n}
        /\ (Waiting' \subseteq Waiting \/ Cardinality(Waiting) < Backlog)
    BY <1>1, <1>7, Grow DEF Waiting
  <2> HIDE DEF n
  <2>2. CASE Cardinality(Waiting) < Backlog
    <3>1. /\ IsFiniteSet(Waiting \cup {n})
          /\ Cardinality(Waiting \cup {n}) <= Cardinality(Waiting) + 1
      BY <1>1, WaitingFinite, FS_AddElement
    <3>2. Cardinality(Waiting \cup {n}) \in Nat
      BY <3>1, FS_CardinalityType
    <3>3. Waiting' \in SUBSET (Waiting \cup {n})
      BY <2>1
    <3>4. Cardinality(Waiting') <= Cardinality(Waiting \cup {n})
          /\ IsFiniteSet(Waiting')
      BY <3>1, <3>3, FS_Subset
    <3>5. Cardinality(Waiting') \in Nat
      BY <3>4, FS_CardinalityType
    <3>6. QED
      BY <1>1, <2>2, <3>1, <3>2, <3>4, <3>5, WaitingFinite, BoundsAssumption
      DEF QueueShape
  <2>3. QED
    BY <1>2, <2>1, <2>2
<1>8. ASSUME NEW c \in Connects, Withdraw(c) PROVE QueueShape'
  BY <1>5, <1>8 DEF Withdraw, Fates
<1>9. QED
  BY <1>3, <1>4, <1>6, <1>7, <1>8, ConnectionMoves


-----------------------------------------------------------------------------
(* Connections in the hands of threads.                                    *)

LEMMA HoldStep ==
  ASSUME Types, CallShape, HoldShape, [Next]_vars
  PROVE  HoldShape'
<1>1. SeqTypes /\ CallTypes
  BY DEF Types
<1>2. ASSUME UNCHANGED fetched, Connects' = Connects,
             \A c \in Connects : fate'[c] = "fetched" <=> fate[c] = "fetched"
      PROVE  HoldShape'
  BY <1>2 DEF HoldShape
<1>3. CASE UNCHANGED <<device, fate, told, fetched>>
  BY <1>2, <1>3 DEF Connects
<1>4. ASSUME NEW h \in Handles, DropHandle(h) PROVE HoldShape'
  <2>1. UNCHANGED fetched
    BY <1>4 DEF DropHandle, locals
  <2>2. QED
    BY <1>1, <1>2, <1>4, <2>1, DropAll
<1>5. ASSUME NEW t \in Threads, TakeMarked(t) PROVE HoldShape'
  <2> DEFINE c == Min(Waiting)
  <2>1. c \in Connects /\ fate[c] = "waiting" /\ "stream" \in Fates
    BY <1>1, <1>5, FrontWaits DEF TakeMarked, Fates
  <2>2. UNCHANGED <<device, fetched>> /\ fate' = [fate EXCEPT ![c] = "stream"]
    BY <1>5 DEF TakeMarked
  <2> HIDE DEF c
  <2>3. /\ Connects' = Connects
        /\ \A d \in Connects : fate'[d] = IF d = c THEN "stream" ELSE fate[d]
    BY <1>1, <2>1, <2>2, UpdateFate
  <2>4. QED
    BY <1>2, <2>1, <2>2, <2>3
<1>6. ASSUME NEW t \in Threads, Take(t) PROVE HoldShape'
  <2> DEFINE c == Min(Waiting)
  <2>1. c \in Connects /\ fate[c] = "waiting" /\ "fetched" \in Fates
    BY <1>1, <1>6, FrontWaits DEF Take, Fates
  <2>2. /\ UNCHANGED device /\ fate' = [fate EXCEPT ![c] = "fetched"]
        /\ fetched' = [fetched EXCEPT ![t] = c]
    BY <1>6 DEF Take
  <2>3. fetched[t] = None
    BY <1>6 DEF Take, InAccept, CallShape
  <2> HIDE DEF c
  <2>4. /\ Connects' = Connects
        /\ \A d \in Connects : fate'[d] = IF d = c THEN "fetched" ELSE fate[d]
    BY <1>1, <2>1, <2>2, UpdateFate
  <2>5. \A u \in Threads : fetched'[u] = IF u = t THEN c ELSE fetched[u]
    BY <1>1, <2>2 DEF CallTypes
  <2>6. \A u \in Threads : fetched[u] # c
    BY <2>1 DEF HoldShape
  <2>7. \A d \in Connects : d # None
    BY <1>1, Numbered, NoneAssumption
  <2>8. \A d \in Connects' :
          fate'[d] = "fetched" <=> \E u \in Threads : fetched'[u] = d
    BY <2>3, <2>4, <2>5, <2>6, <2>7 DEF HoldShape
  <2>9. \A u, v \in Threads :
          fetched'[u] = fetched'[v] /\ fetched'[u] # None => u = v
    BY <2>5, <2>6 DEF HoldShape
  <2>10. QED
    BY <2>8, <2>9 DEF HoldShape
<1>7. ASSUME NEW t \in Threads, Mark(t) PROVE HoldShape'
  <2> DEFINE c == fetched[t]
  <2>1. c \in Connects
    BY <1>7 DEF Mark, CallShape
  <2>2. /\ UNCHANGED device
        /\ fetched' = [fetched EXCEPT ![t] = None]
        /\ \E x \in Fates \ {"fetched"} : fate' = [fate EXCEPT ![c] = x]
    BY <1>7 DEF Mark, Fates
  <2>3. PICK x \in Fates \ {"fetched"} : fate' = [fate EXCEPT ![c] = x]
    BY <2>2
  <2>4. /\ Connects' = Connects
        /\ \A d \in Connects : fate'[d] = IF d = c THEN x ELSE fate[d]
    BY <1>1, <2>1, <2>2, <2>3, UpdateFate
  <2>5. \A u \in Threads : fetched'[u] = IF u = t THEN None ELSE fetched[u]
    BY <1>1, <2>2 DEF CallTypes
  <2>6. \A d \in Connects : d # None
    BY <1>1, Numbered, NoneAssumption
  <2>7. \A u \in Threads : fetched[u] = fetched[t] => u = t
    BY <2>1, <2>6 DEF HoldShape
  <2>8. \A d \in Connects' :
          fate'[d] = "fetched" <=> \E u \in Threads : fetched'[u] = d
    BY <2>1, <2>3, <2>4, <2>5, <2>6, <2>7 DEF HoldShape
  <2>9. \A u, v \in Threads :
          fetched'[u] = fetched'[v] /\ fetched'[u] # None => u = v
    BY <2>5 DEF HoldShape
  <2>10. QED
    BY <2>8, <2>9 DEF HoldShape
<1>8. ASSUME NEW d \in Devices, Arrive(d) PROVE HoldShape'
  <2> DEFINE n == Len(device) + 1
  <2>1. /\ n \in Nat /\ n \notin Connects /\ Connects' = Connects \cup {n}
        /\ \A c \in Connects : fate'[c] = fate[c]
        /\ fate'[n] # "fetched"
    BY <1>1, <1>8, Grow
  <2>2. UNCHANGED fetched
    BY <1>8 DEF Arrive, locals
  <2> HIDE DEF n
  <2>3. \A t \in Threads : fetched[t] # n
    BY <2>1, NoneAssumption DEF CallShape
  <2>4. QED
    BY <2>1, <2>2, <2>3 DEF HoldShape
<1>9. ASSUME NEW c \in Connects, Withdraw(c) PROVE HoldShape'
  <2>1. "gone" \in Fates /\ fate[c] = "waiting" /\ UNCHANGED <<device, fetched>>
        /\ fate' = [fate EXCEPT ![c] = "gone"]
    BY <1>9 DEF Withdraw, Fates, Waiting, locals
  <2>2. /\ Connects' = Connects
        /\ \A d \in Connects : fate'[d] = IF d = c THEN "gone" ELSE fate[d]
    BY <1>1, <2>1, UpdateFate
  <2>3. QED
    BY <1>2, <2>1, <2>2
<1>10. CASE UNCHANGED <<device, fate, told>>
  <2>1. UNCHANGED fetched \/ \E t \in Threads : Take(t) \/ Mark(t)
    BY CallMoves
    DEF locals, CallAccept, FallBack, TakeMarked, Sleep, WouldBlock,
        Interrupted, AcceptFails
  <2>2. QED
    BY <1>3, <1>6, <1>7, <1>10, <2>1
<1>11. QED
  BY <1>4, <1>5, <1>6, <1>7, <1>8, <1>9, <1>10, ConnectionMoves

-----------------------------------------------------------------------------
(* Addresses.                                                              *)

(* What is known of a connection stays as it is.                           *)
LEMMA DevicesStay ==
  ASSUME SeqTypes, [Next]_vars
  PROVE  \A c \in Connects : device'[c] = device[c]
  BY ConnectionMoves, Grow DEF DropHandle, TakeMarked, Take, Mark, Withdraw

LEMMA StorageStep ==
  ASSUME Types, CallShape, StorageShape, [Next]_vars
  PROVE  StorageShape'
<1>1. SeqTypes /\ CallTypes
  BY DEF Types
<1>2. ASSUME NEW t \in Threads, pc[t] = "mark",
             sockaddr'[t] = sockaddr[t], fetched'[t] = fetched[t]
      PROVE  sockaddr'[t] = Written(device[fetched[t]])'
  <2>1. fetched[t] \in Connects
    BY <1>2 DEF CallShape
  <2>2. device'[fetched'[t]] = device[fetched[t]]
    BY <1>1, <1>2, <2>1, DevicesStay
  <2>3. sockaddr[t] = Written(device[fetched[t]])
    BY <1>2 DEF StorageShape
  <2>4. QED
    BY <1>2, <2>2, <2>3, TargetStays DEF Written
<1>3. CASE UNCHANGED locals
  BY <1>2, <1>3 DEF locals, StorageShape
<1>4. ASSUME NEW t \in Threads,
             \A u \in Threads \ {t} : /\ sockaddr'[u] = sockaddr[u]
                                     /\ fetched'[u] = fetched[u]
                                     /\ pc'[u] = pc[u],
             pc'[t] # "mark"
      PROVE  StorageShape'
  BY <1>2, <1>4 DEF StorageShape
<1>5. ASSUME NEW t \in Threads,
             \/ \E h \in Handles : CallAccept(t, h)
             \/ FallBack(t) \/ TakeMarked(t) \/ Mark(t) \/ Sleep(t)
             \/ WouldBlock(t) \/ Interrupted(t) \/ AcceptFails(t)
      PROVE  StorageShape'
  <2>1. pc'[t] # "mark"
    BY <1>1, <1>5
    DEF CallAccept, FallBack, TakeMarked, Mark, Sleep, WouldBlock, Interrupted,
        AcceptFails, Return, CallTypes
  <2>2. \A u \in Threads \ {t} : /\ sockaddr'[u] = sockaddr[u]
                                 /\ fetched'[u] = fetched[u]
                                 /\ pc'[u] = pc[u]
    BY <1>1, <1>5
    DEF CallAccept, FallBack, TakeMarked, Mark, Sleep, WouldBlock, Interrupted,
        AcceptFails, Return, CallTypes
  <2>3. QED
    BY <1>4, <2>1, <2>2
<1>6. ASSUME NEW t \in Threads, Take(t) PROVE StorageShape'
  <2> DEFINE c == Min(Waiting)
  <2>1. /\ UNCHANGED device /\ pc' = [pc EXCEPT ![t] = "mark"]
        /\ fetched' = [fetched EXCEPT ![t] = c]
        /\ sockaddr' = [sockaddr EXCEPT ![t] = Written(device[c])]
    BY <1>6 DEF Take
  <2> HIDE DEF c
  <2>2. sockaddr'[t] = Written(device[c]) /\ fetched'[t] = c
    BY <1>1, <2>1 DEF CallTypes
  <2>3. sockaddr'[t] = Written(device[fetched[t]])'
    BY <2>1, <2>2, TargetStays DEF Written
  <2>4. \A u \in Threads \ {t} : /\ sockaddr'[u] = sockaddr[u]
                                 /\ fetched'[u] = fetched[u]
                                 /\ pc'[u] = pc[u]
    BY <1>1, <2>1 DEF CallTypes
  <2>5. QED
    BY <1>2, <2>3, <2>4 DEF StorageShape
<1>7. QED
  BY <1>3, <1>5, <1>6, CallMoves

LEMMA ToldStep ==
  ASSUME Types, CallShape, HoldShape, StorageShape, ToldShape, [Next]_vars
  PROVE  ToldShape'
<1>1. SeqTypes
  BY DEF Types
<1> DEFINE True(c) == IF fate[c] = "stream"
                      THEN told[c] = AddrIn(Written(device[c]))
                      ELSE told[c] = None
<1>2. ASSUME NEW c \in Connects, told'[c] = told[c],
             fate'[c] = "stream" <=> fate[c] = "stream"
      PROVE  True(c)'
  <2>1. device'[c] = device[c] /\ True(c)
    BY <1>1, DevicesStay DEF ToldShape
  <2>2. QED
    BY <1>2, <2>1, TargetStays DEF AddrIn, Written
<1>3. ASSUME NEW c \in Connects, told'[c] = AddrIn(Written(device[c])),
             fate'[c] = "stream"
      PROVE  True(c)'
  <2>1. device'[c] = device[c]
    BY <1>1, DevicesStay
  <2>2. QED
    BY <1>3, <2>1, TargetStays DEF AddrIn, Written
<1>4. ASSUME Connects' = Connects, \A c \in Connects : True(c)'
      PROVE  ToldShape'
  BY <1>4 DEF ToldShape
<1> HIDE DEF True
<1>5. CASE UNCHANGED <<device, fate, told>>
  BY <1>2, <1>4, <1>5 DEF Connects
<1>6. ASSUME NEW h \in Handles, DropHandle(h) PROVE ToldShape'
  <2>1. UNCHANGED told
    BY <1>6 DEF DropHandle
  <2>2. QED
    BY <1>1, <1>2, <1>4, <1>6, <2>1, DropAll
<1>7. ASSUME NEW t \in Threads, TakeMarked(t) PROVE ToldShape'
  <2> DEFINE c == Min(Waiting)
             a == AddrIn(Written(device[c]))
  <2>1. c \in Connects /\ a \in BtAddr /\ "stream" \in Fates
    BY <1>1, <1>7, FrontWaits, TakenTells DEF TakeMarked, Fates
  <2>2. /\ UNCHANGED device /\ fate' = [fate EXCEPT ![c] = "stream"]
        /\ told' = [told EXCEPT ![c] = a]
    BY <1>7 DEF TakeMarked
  <2>3. a = AddrIn(Written(device[c]))
    OBVIOUS
  <2> HIDE DEF c, a
  <2>4. /\ Connects' = Connects
        /\ \A d \in Connects : fate'[d] = IF d = c THEN "stream" ELSE fate[d]
        /\ \A d \in Connects : told'[d] = IF d = c THEN a ELSE told[d]
    BY <1>1, <2>1, <2>2, UpdateFate, UpdateTold
  <2>5. QED
    BY <1>2, <1>3, <1>4, <2>3, <2>4
<1>8. ASSUME NEW t \in Threads, Take(t) PROVE ToldShape'
  <2> DEFINE c == Min(Waiting)
  <2>1. c \in Connects /\ fate[c] = "waiting" /\ "fetched" \in Fates
    BY <1>1, <1>8, FrontWaits DEF Take, Fates
  <2>2. UNCHANGED <<device, told>> /\ fate' = [fate EXCEPT ![c] = "fetched"]
    BY <1>8 DEF Take
  <2> HIDE DEF c
  <2>3. /\ Connects' = Connects
        /\ \A d \in Connects : fate'[d] = IF d = c THEN "fetched" ELSE fate[d]
    BY <1>1, <2>1, <2>2, UpdateFate
  <2>4. QED
    BY <1>2, <1>4, <2>1, <2>2, <2>3
<1>9. ASSUME NEW t \in Threads, Mark(t) PROVE ToldShape'
  <2> DEFINE c == fetched[t]
             a == AddrIn(sockaddr[t])
  <2>1. c \in Connects /\ a \in BtAddr /\ {"stream", "closed"} \subseteq Fates
    BY <1>9, TakenTells DEF Mark, Fates
  <2>2. a = AddrIn(Written(device[c])) /\ fate[c] = "fetched"
    BY <1>9, <2>1 DEF Mark, StorageShape, HoldShape
  <2>3. /\ UNCHANGED device
        /\ \/ /\ fate' = [fate EXCEPT ![c] = "stream"]
              /\ told' = [told EXCEPT ![c] = a]
           \/ fate' = [fate EXCEPT ![c] = "closed"] /\ UNCHANGED told
    BY <1>9 DEF Mark
  <2> HIDE DEF c, a
  <2>4. CASE fate' = [fate EXCEPT ![c] = "stream"]
             /\ told' = [told EXCEPT ![c] = a]
    <3>1. UNCHANGED device /\ "stream" \in Fates
      BY <2>1, <2>3
    <3>2. /\ Connects' = Connects
          /\ \A d \in Connects :
               fate'[d] = IF d = c THEN "stream" ELSE fate[d]
      BY <1>1, <2>1, <2>4, <3>1, UpdateFate
    <3>3. \A d \in Connects : told'[d] = IF d = c THEN a ELSE told[d]
      BY <1>1, <2>1, <2>4, UpdateTold
    <3>4. QED
      BY <1>2, <1>3, <1>4, <2>2, <3>2, <3>3
  <2>5. CASE fate' = [fate EXCEPT ![c] = "closed"] /\ UNCHANGED told
    <3>1. /\ Connects' = Connects
          /\ \A d \in Connects :
               fate'[d] = IF d = c THEN "closed" ELSE fate[d]
      BY <1>1, <2>1, <2>3, <2>5, UpdateFate
    <3>2. QED
      BY <1>2, <1>4, <2>2, <2>5, <3>1
  <2>6. QED
    BY <2>3, <2>4, <2>5
<1>10. ASSUME NEW d \in Devices, Arrive(d) PROVE ToldShape'
  <2>1. PICK n \in Nat :
          /\ Connects' = Connects \cup {n}
          /\ \A c \in Connects : fate'[c] = fate[c] /\ told'[c] = told[c]
          /\ fate'[n] # "stream" /\ told'[n] = None
    BY <1>1, <1>10, Grow
  <2>2. \A c \in Connects : True(c)'
    BY <1>2, <2>1
  <2>3. QED
    BY <2>1, <2>2 DEF ToldShape, True
<1>11. ASSUME NEW c \in Connects, Withdraw(c) PROVE ToldShape'
  <2>1. /\ "gone" \in Fates /\ fate[c] = "waiting"
        /\ UNCHANGED <<device, told>> /\ fate' = [fate EXCEPT ![c] = "gone"]
    BY <1>11 DEF Withdraw, Fates, Waiting
  <2>2. /\ Connects' = Connects
        /\ \A d \in Connects : fate'[d] = IF d = c THEN "gone" ELSE fate[d]
    BY <1>1, <2>1, UpdateFate
  <2>3. QED
    BY <1>2, <1>4, <2>1, <2>2
<1>12. QED
  BY <1>5, <1>6, <1>7, <1>8, <1>9, <1>10, <1>11, ConnectionMoves


-----------------------------------------------------------------------------
(* Connections that are lost, and names.                                   *)

(* On a Linux that has accept4 nothing is ever marked afterwards, so no    *)
(* marking fails.                                                          *)
LEMMA LossStep ==
  ASSUME Types, LossShape, [Next]_vars
  PROVE  LossShape'
<1>1. SeqTypes /\ CallTypes /\ target' = target
  BY TargetStays DEF Types
<1>2. CASE ~(target.linux /\ target.accept4)
  BY <1>1, <1>2 DEF LossShape, OnlyMarkingLoses
<1>3. CASE target.linux /\ target.accept4
  <2>1. \A t \in Threads : pc[t] \notin {"accept", "asleep", "mark"}
    BY <1>3 DEF LossShape
  <2>2. \A c \in Connects : fate[c] # "closed"
    BY <1>3 DEF LossShape, OnlyMarkingLoses
  <2>3. \A t \in Threads : ~Take(t) /\ ~Mark(t) /\ ~FallBack(t)
    BY <1>3, <2>1 DEF Take, InAccept, Mark, FallBack
  <2>4. \A t \in Threads : pc'[t] \notin {"accept", "asleep", "mark"}
    <3>1. CASE UNCHANGED locals
      BY <2>1, <3>1 DEF locals
    <3>2. ASSUME NEW u \in Threads,
                 \/ \E h \in Handles : CallAccept(u, h)
                 \/ TakeMarked(u) \/ Sleep(u) \/ WouldBlock(u)
                 \/ Interrupted(u) \/ AcceptFails(u)
          PROVE  \A t \in Threads : pc'[t] \notin {"accept", "asleep", "mark"}
      <4>1. PICK p \in {"idle", "accept4", "asleep4"} :
              pc' = [pc EXCEPT ![u] = p]
        BY <1>3, <2>1, <3>2
        DEF CallAccept, TakeMarked, Sleep, NothingWaits, WouldBlock,
            Interrupted, AcceptFails, Return
      <4>2. QED
        BY <1>1, <2>1, <4>1 DEF CallTypes
    <3>3. QED
      BY <2>3, <3>1, <3>2, CallMoves
  <2>5. \A c \in Connects' : fate'[c] # "closed"
    <3>1. CASE UNCHANGED <<device, fate, told>>
      BY <2>2, <3>1 DEF Connects
    <3>2. ASSUME NEW h \in Handles, DropHandle(h)
          PROVE  \A c \in Connects' : fate'[c] # "closed"
      BY <1>1, <2>2, <3>2, DropAll
    <3>3. ASSUME NEW t \in Threads, TakeMarked(t)
          PROVE  \A c \in Connects' : fate'[c] # "closed"
      <4> DEFINE c == Min(Waiting)
      <4>1. c \in Connects /\ "stream" \in Fates
        BY <1>1, <3>3, FrontWaits DEF TakeMarked, Fates
      <4>2. UNCHANGED device /\ fate' = [fate EXCEPT ![c] = "stream"]
        BY <3>3 DEF TakeMarked
      <4> HIDE DEF c
      <4>3. /\ Connects' = Connects
            /\ \A d \in Connects :
                 fate'[d] = IF d = c THEN "stream" ELSE fate[d]
        BY <1>1, <4>1, <4>2, UpdateFate
      <4>4. QED
        BY <2>2, <4>3
    <3>4. ASSUME NEW d \in Devices, Arrive(d)
          PROVE  \A c \in Connects' : fate'[c] # "closed"
      <4>1. PICK n \in Nat : /\ Connects' = Connects \cup {n}
                             /\ \A c \in Connects : fate'[c] = fate[c]
                             /\ fate'[n] # "closed"
        BY <1>1, <3>4, Grow
      <4>2. QED
        BY <2>2, <4>1
    <3>5. ASSUME NEW c \in Connects, Withdraw(c)
          PROVE  \A d \in Connects' : fate'[d] # "closed"
      <4>1. /\ "gone" \in Fates /\ UNCHANGED device
            /\ fate' = [fate EXCEPT ![c] = "gone"]
        BY <3>5 DEF Fates, Withdraw
      <4>2. /\ Connects' = Connects
            /\ \A d \in Connects : fate'[d] = IF d = c THEN "gone" ELSE fate[d]
        BY <1>1, <4>1, UpdateFate
      <4>3. QED
        BY <2>2, <4>2
    <3>6. QED
      BY <2>3, <3>1, <3>2, <3>3, <3>4, <3>5, ConnectionMoves
  <2>6. QED
    BY <2>4, <2>5 DEF LossShape, OnlyMarkingLoses
<1>4. QED
  BY <1>2, <1>3

LEMMA DialledMoves ==
  ASSUME [Next]_vars
  PROVE  UNCHANGED dialled \/ \E a \in Devices : Dial(a)
  BY DEF Next, vars, Accepting, Bind, DropHandle, TryClone, SetNonblocking,
         CallAccept, FallBack, TakeMarked, Take, Mark, Sleep, WouldBlock,
         Interrupted, AcceptFails, Arrive, Withdraw

LEMMA NameStep ==
  ASSUME ListenerTypes, NameShape, [Next]_vars
  PROVE  NameShape'
<1>1. target \in Targets /\ target' = target
  BY TargetStays DEF ListenerTypes
<1>2. Read(Sockaddr(Local)) # None
  BY <1>1, KernelReadsIt, DevicesAssumption, NoneAssumption
<1>3. (bound = None => live = {})'
  BY <1>2, ListenerMoves
  DEF NameShape, Bind, DropHandle, TryClone, SetNonblocking
<1>4. bound' = None \/ bound' = Read(Sockaddr(Local))
  BY ListenerMoves DEF NameShape, Bind, DropHandle, TryClone, SetNonblocking
<1>5. \A d \in dialled' : \E a \in Devices : d = <<a, Read(Sockaddr(a))>>
  BY DialledMoves DEF NameShape, Dial
<1>6. QED
  BY <1>1, <1>3, <1>4, <1>5 DEF NameShape, Read, Sockaddr

-----------------------------------------------------------------------------
(* The invariant.                                                          *)

LEMMA Initially == Init => IInv
<1> SUFFICES ASSUME Init PROVE IInv
  OBVIOUS
<1>1. Len(device) = 0 /\ Connects = {} /\ Waiting = {}
  BY EmptySeq DEF Init, Connects, Waiting
<1>2. ListenerTypes
  BY DEF Init, ListenerTypes
<1>3. SeqTypes
  BY <1>1, EmptySeq, BoundsAssumption DEF Init, SeqTypes
<1>4. CallTypes
  BY DEF Init, CallTypes, Places
<1>5. CallShape
  BY DEF Init, CallShape
<1>6. QueueShape
  BY <1>1, FS_EmptySet, BoundsAssumption DEF QueueShape
<1>7. HoldShape
  BY <1>1 DEF Init, HoldShape
<1>8. StorageShape /\ LossShape
  BY <1>1 DEF Init, StorageShape, LossShape, OnlyMarkingLoses
<1>9. ToldShape /\ NameShape
  BY <1>1 DEF Init, ToldShape, NameShape
<1>10. QED
  BY <1>2, <1>3, <1>4, <1>5, <1>6, <1>7, <1>8, <1>9 DEF IInv, Types

LEMMA Inductive == IInv /\ [Next]_vars => IInv'
<1> SUFFICES ASSUME IInv, [Next]_vars PROVE IInv'
  OBVIOUS
<1>1. /\ Types /\ CallShape /\ QueueShape /\ HoldShape /\ StorageShape
      /\ ToldShape /\ LossShape /\ NameShape /\ ListenerTypes
      /\ (bound = None => live = {})
  BY DEF IInv, Types, NameShape
<1>2. Types' /\ CallShape'
  BY <1>1, ListenerTypesStep, SeqTypesStep, CallTypesStep DEF Types
<1>3. QueueShape' /\ HoldShape'
  BY <1>1, QueueStep, HoldStep
<1>4. StorageShape' /\ ToldShape'
  BY <1>1, StorageStep, ToldStep
<1>5. LossShape' /\ NameShape'
  BY <1>1, LossStep, NameStep
<1>6. QED
  BY <1>2, <1>3, <1>4, <1>5 DEF IInv

LEMMA Invariance == Spec => []IInv
  BY Initially, Inductive, PTL DEF Spec

-----------------------------------------------------------------------------
(* What follows from it.                                                   *)

(* The variables of accept have the values its code gives them, whichever  *)
(* threads run it through whichever handles.                               *)
THEOREM TypeCorrect == Spec => []TypeOK
<1>1. ASSUME IInv PROVE TypeOK
  <2>1. ListenerTypes /\ SeqTypes /\ CallTypes /\ CallShape /\ QueueShape
        /\ ToldShape /\ NameShape
    BY <1>1 DEF IInv, Types
  <2>2. bound \in BtAddr \cup {None}
    BY <2>1, KernelReadsIt, DevicesAssumption DEF ListenerTypes, NameShape
  <2>3. \A t \in Threads :
          /\ pc[t] \in Places
          /\ handle[t] \in IF pc[t] = "idle" THEN {None} ELSE live
          /\ fetched[t] \in IF pc[t] = "mark" THEN Connects ELSE {None}
    BY <2>1 DEF CallTypes, CallShape
  <2>4. \A c \in Connects :
          /\ fate[c] \in Fates
          /\ told[c] \in IF fate[c] = "stream" THEN BtAddr ELSE {None}
    <3>1. \A c \in Connects : device[c] \in BtAddr /\ fate[c] \in Fates
      BY <2>1, Numbered
    <3>2. \A c \in Connects : AddrIn(Written(device[c])) \in BtAddr
      BY <2>1, <3>1, CrateReadsIt DEF ListenerTypes
    <3>3. QED
      BY <2>1, <3>1, <3>2 DEF ToldShape
  <2>5. QED
    BY <2>1, <2>2, <2>3, <2>4
    DEF TypeOK, ListenerTypes, SeqTypes, QueueShape, Places, Fates
<1>2. QED
  BY <1>1, Invariance, PTL

(* A connection taken from the kernel and not returned yet is in the hands *)
(* of exactly one thread, and one is lost only where accept has to mark    *)
(* the new socket after it got it.                                         *)
THEOREM TakenConnectionsAreKept == Spec => []ConnectionsAreKept
<1>1. ASSUME IInv PROVE ConnectionsAreKept
  <2>1. SeqTypes /\ HoldShape /\ LossShape
    BY <1>1 DEF IInv, Types
  <2>2. ASSUME NEW c \in Connects
        PROVE  fate[c] = "fetched"
                 <=> Cardinality({t \in Threads : fetched[t] = c}) = 1
    <3>1. c # None
      BY <2>1, Numbered, NoneAssumption
    <3>2. CASE fate[c] = "fetched"
      <4>1. PICK t \in Threads : fetched[t] = c
        BY <2>1, <3>2 DEF HoldShape
      <4>2. {u \in Threads : fetched[u] = c} = {t}
        BY <2>1, <3>1, <4>1 DEF HoldShape
      <4>3. QED
        BY <3>2, <4>2, FS_Singleton
    <3>3. CASE fate[c] # "fetched"
      <4>1. {u \in Threads : fetched[u] = c} = {}
        BY <2>1, <3>3 DEF HoldShape
      <4>2. QED
        BY <3>3, <4>1, FS_EmptySet
    <3>4. QED
      BY <3>2, <3>3
  <2>3. QED
    BY <2>1, <2>2 DEF ConnectionsAreKept, HeldByOne, LossShape
<1>2. QED
  BY <1>1, Invariance, PTL

(* The target never changes.                                               *)
LEMMA Rfcomm ==
  Spec /\ target.protocol = "RFCOMM" => [](target.protocol = "RFCOMM")
<1>1. target.protocol = "RFCOMM" /\ [Next]_vars => (target.protocol = "RFCOMM")'
  BY TargetStays
<1>2. QED
  BY <1>1, PTL DEF Spec

(* With RFCOMM, an address means the same device to the program and to the *)
(* kernel on both platforms: the one accept and peer_addr tell, the one    *)
(* bind and local_addr use and the one connect asks for.  (With L2CAP it   *)
(* does not on unix, where the layout is that of RFCOMM all the same.)     *)
THEOREM AddressesMeanTheSame ==
  Spec /\ target.protocol = "RFCOMM" => []AddressesAreTrue
<1>1. ASSUME IInv, target.protocol = "RFCOMM" PROVE AddressesAreTrue
  <2>1. SeqTypes /\ ToldShape /\ NameShape /\ target \in Targets
    BY <1>1 DEF IInv, Types, ListenerTypes
  <2>2. \A a \in BtAddr : Read(Sockaddr(a)) = a /\ AddrIn(Written(a)) = a
    BY <1>1, <2>1, KernelReadsIt, CrateReadsIt
  <2>3. \A c \in Streams :
          AddrIn(Written(device[c])) = told[c] /\ told[c] = device[c]
    BY <2>1, <2>2, Numbered DEF ToldShape, Streams
  <2>4. bound # None => AddrIn(Written(bound)) = Local /\ bound = Local
    BY <2>1, <2>2, DevicesAssumption DEF NameShape
  <2>5. DialsWhatWasAsked
    BY <2>1, <2>2, DevicesAssumption DEF NameShape, DialsWhatWasAsked
  <2>6. QED
    BY <2>3, <2>4, <2>5 DEF AddressesAreTrue, NamesAreTrue
<1>2. QED
  BY <1>1, Invariance, Rfcomm, PTL


-----------------------------------------------------------------------------
(* accept keeps its promise.                                               *)

(* What a connection is to the promise: it may still be given (open), or   *)
(* it was given, or it is lost.                                            *)
Open  == Waiting \cup {c \in Connects : fate[c] = "fetched"}
Given == [c \in Streams |-> told[c]]

LEMMA Kept ==
  ASSUME UNCHANGED <<device, fate, told>>
  PROVE  UNCHANGED <<device, Open, Given>>
  BY DEF Connects, Waiting, Streams, Open, Given

(* A connection that goes with fate x and is told as t.                    *)
LEMMA Goes ==
  ASSUME NEW c \in Open, NEW x \in {"gone", "closed"},
         Connects' = Connects, UNCHANGED <<device, told>>,
         \A d \in Connects : fate'[d] = IF d = c THEN x ELSE fate[d]
  PROVE  Promise!Lose
<1>1. Open # {} /\ Open' \in SUBSET Open
  BY DEF Open, Waiting
<1>2. Streams' = Streams
  BY DEF Open, Waiting, Streams
<1>3. Given' = Given
  BY <1>2 DEF Given
<1>4. QED
  BY <1>1, <1>3 DEF Promise!Lose, Open, Given

LEMMA IsGiven ==
  ASSUME NEW c \in Open, Connects' = Connects, UNCHANGED device,
         \A d \in Connects : fate'[d] = IF d = c THEN "stream" ELSE fate[d],
         \A d \in Connects : told'[d] = IF d = c THEN device[c] ELSE told[d]
  PROVE  Promise!Give(c)
<1>1. c \in Connects /\ fate[c] # "stream"
  BY DEF Open, Waiting
<1>2. Open' = Open \ {c}
  BY <1>1 DEF Open, Waiting
<1>3. Streams' = Streams \cup {c}
  BY <1>1 DEF Streams
<1>4. Given' = [d \in DOMAIN Given \cup {c} |->
                  IF d = c THEN device[c] ELSE Given[d]]
  BY <1>1, <1>3 DEF Given, Streams
<1>5. QED
  BY <1>2, <1>4 DEF Promise!Give, Open, Given

LEMMA PromiseInit == Init => Promise!Init
<1> SUFFICES ASSUME Init PROVE Promise!Init
  OBVIOUS
<1>1. Len(device) = 0 /\ Connects = {} /\ Open = {} /\ Streams = {}
  BY EmptySeq DEF Init, Connects, Waiting, Streams, Open
<1>2. Given = << >>
  BY <1>1 DEF Given
<1>3. QED
  BY <1>1, <1>2 DEF Init, Promise!Init, Open, Given

LEMMA PromiseStep ==
  ASSUME IInv, target.protocol = "RFCOMM", [Next]_vars
  PROVE  [Promise!Next]_(Promise!vars)
<1>1. /\ SeqTypes /\ CallTypes /\ target \in Targets
      /\ CallShape /\ HoldShape /\ StorageShape
  BY DEF IInv, Types, ListenerTypes
<1>2. \A a \in BtAddr : AddrIn(Written(a)) = a
  BY <1>1, CrateReadsIt
<1>3. ASSUME UNCHANGED <<device, Open, Given>>
      PROVE  [Promise!Next]_(Promise!vars)
  BY <1>3 DEF Promise!vars, Open, Given
<1>4. CASE UNCHANGED <<device, fate, told>>
  BY <1>3, <1>4, Kept
<1>5. ASSUME NEW h \in Handles, DropHandle(h)
      PROVE  [Promise!Next]_(Promise!vars)
  <2>1. /\ Connects' = Connects /\ UNCHANGED <<device, told>>
        /\ \A c \in Connects : \/ fate'[c] = fate[c]
                               \/ fate[c] = "waiting" /\ fate'[c] = "gone"
    BY <1>1, <1>5, DropAll DEF DropHandle
  <2>2. Open' \in SUBSET Open
    BY <2>1 DEF Open, Waiting
  <2>3. Given' = Given
    BY <2>1 DEF Given, Streams
  <2>4. CASE Open = {}
    BY <1>3, <2>1, <2>2, <2>3, <2>4
  <2>5. CASE Open # {}
    <3>1. Promise!Lose
      BY <2>1, <2>2, <2>3, <2>5 DEF Promise!Lose, Open, Given
    <3>2. QED
      BY <3>1 DEF Promise!Next
  <2>6. QED
    BY <2>4, <2>5
<1>6. ASSUME NEW c \in Open, Promise!Give(c)
      PROVE  [Promise!Next]_(Promise!vars)
  BY <1>6 DEF Promise!Next, Open
<1>7. ASSUME NEW t \in Threads, TakeMarked(t)
      PROVE  [Promise!Next]_(Promise!vars)
  <2> DEFINE c == Min(Waiting)
  <2>1. c \in Connects /\ fate[c] = "waiting" /\ "stream" \in Fates
    BY <1>1, <1>7, FrontWaits DEF TakeMarked, Fates
  <2>2. /\ UNCHANGED device /\ fate' = [fate EXCEPT ![c] = "stream"]
        /\ told' = [told EXCEPT ![c] = AddrIn(Written(device[c]))]
    BY <1>7 DEF TakeMarked
  <2> HIDE DEF c
  <2>3. device[c] \in BtAddr /\ AddrIn(Written(device[c])) = device[c]
    BY <1>1, <1>2, <2>1, Numbered
  <2>4. /\ Connects' = Connects
        /\ \A d \in Connects : fate'[d] = IF d = c THEN "stream" ELSE fate[d]
    BY <1>1, <2>1, <2>2, UpdateFate
  <2>5. \A d \in Connects : told'[d] = IF d = c THEN device[c] ELSE told[d]
    BY <1>1, <2>1, <2>2, <2>3, UpdateTold
  <2>6. c \in Open
    BY <2>1 DEF Open, Waiting
  <2>7. QED
    BY <1>6, <2>2, <2>4, <2>5, <2>6, IsGiven
<1>8. ASSUME NEW t \in Threads, Take(t)
      PROVE  [Promise!Next]_(Promise!vars)
  <2> DEFINE c == Min(Waiting)
  <2>1. c \in Connects /\ fate[c] = "waiting" /\ "fetched" \in Fates
    BY <1>1, <1>8, FrontWaits DEF Take, Fates
  <2>2. UNCHANGED <<device, told>> /\ fate' = [fate EXCEPT ![c] = "fetched"]
    BY <1>8 DEF Take
  <2> HIDE DEF c
  <2>3. /\ Connects' = Connects
        /\ \A d \in Connects : fate'[d] = IF d = c THEN "fetched" ELSE fate[d]
    BY <1>1, <2>1, <2>2, UpdateFate
  <2>4. Open' = Open
    BY <2>1, <2>3 DEF Open, Waiting
  <2>5. Given' = Given
    BY <2>1, <2>2, <2>3 DEF Given, Streams
  <2>6. QED
    BY <1>3, <2>2, <2>4, <2>5
<1>9. ASSUME NEW t \in Threads, Mark(t)
      PROVE  [Promise!Next]_(Promise!vars)
  <2> DEFINE c == fetched[t]
             a == AddrIn(sockaddr[t])
  <2>1. c \in Connects /\ {"stream", "closed"} \subseteq Fates
    BY <1>1, <1>9 DEF Mark, Fates, CallShape
  <2>2. sockaddr[t] = Written(device[c]) /\ fate[c] = "fetched"
    BY <1>1, <1>9, <2>1 DEF Mark, StorageShape, HoldShape
  <2>3. /\ UNCHANGED device
        /\ \/ /\ fate' = [fate EXCEPT ![c] = "stream"]
              /\ told' = [told EXCEPT ![c] = a]
           \/ fate' = [fate EXCEPT ![c] = "closed"] /\ UNCHANGED told
    BY <1>9 DEF Mark
  <2>4. device[c] \in BtAddr /\ a = device[c]
    BY <1>1, <1>2, <2>1, <2>2, Numbered
  <2>5. c \in Open
    BY <2>1, <2>2 DEF Open
  <2> HIDE DEF c, a
  <2>6. CASE fate' = [fate EXCEPT ![c] = "stream"]
             /\ told' = [told EXCEPT ![c] = a]
    <3>1. /\ Connects' = Connects
          /\ \A d \in Connects :
               fate'[d] = IF d = c THEN "stream" ELSE fate[d]
      BY <1>1, <2>1, <2>3, <2>6, UpdateFate
    <3>2. \A d \in Connects : told'[d] = IF d = c THEN device[c] ELSE told[d]
      BY <1>1, <2>1, <2>4, <2>6, UpdateTold
    <3>3. QED
      BY <1>6, <2>3, <2>5, <3>1, <3>2, IsGiven
  <2>7. CASE fate' = [fate EXCEPT ![c] = "closed"] /\ UNCHANGED told
    <3>1. /\ Connects' = Connects
          /\ \A d \in Connects :
               fate'[d] = IF d = c THEN "closed" ELSE fate[d]
      BY <1>1, <2>1, <2>3, <2>7, UpdateFate
    <3>2. Promise!Lose
      BY <2>3, <2>5, <2>7, <3>1, Goes
    <3>3. QED
      BY <3>2 DEF Promise!Next
  <2>8. QED
    BY <2>3, <2>6, <2>7
<1>10. ASSUME NEW d \in Devices, Arrive(d)
       PROVE  [Promise!Next]_(Promise!vars)
  <2>1. PICK n \in Nat :
          /\ n \notin Connects /\ Connects' = Connects \cup {n}
          /\ Len(device') = n
          /\ \A c \in Connects : fate'[c] = fate[c] /\ told'[c] = told[c]
          /\ fate'[n] \in {"waiting", "gone"}
    BY <1>1, <1>10, Grow
  <2>2. device' = Append(device, d)
    BY <1>10 DEF Arrive
  <2>3. Open' \in {Open, Open \cup {n}}
    BY <2>1 DEF Open, Waiting
  <2>4. Streams' = Streams
    BY <2>1 DEF Streams
  <2>5. Given' = Given
    BY <2>1, <2>4 DEF Given, Streams
  <2>6. Promise!Arrive(d)
    BY <2>1, <2>2, <2>3, <2>5 DEF Promise!Arrive, Open, Given
  <2>7. QED
    BY <2>6 DEF Promise!Next
<1>11. ASSUME NEW c \in Connects, Withdraw(c)
       PROVE  [Promise!Next]_(Promise!vars)
  <2>1. /\ "gone" \in Fates /\ c \in Open
        /\ UNCHANGED <<device, told>> /\ fate' = [fate EXCEPT ![c] = "gone"]
    BY <1>11 DEF Withdraw, Fates, Open
  <2>2. /\ Connects' = Connects
        /\ \A d \in Connects : fate'[d] = IF d = c THEN "gone" ELSE fate[d]
    BY <1>1, <2>1, UpdateFate
  <2>3. Promise!Lose
    BY <2>1, <2>2, Goes
  <2>4. QED
    BY <2>3 DEF Promise!Next
<1>12. QED
  BY <1>4, <1>5, <1>7, <1>8, <1>9, <1>10, <1>11, ConnectionMoves

(* With RFCOMM, and whichever threads accept through whichever handles,    *)
(* interrupted or not, with accept4 or without: a connection is given to   *)
(* one caller at most and with the address of the device that made it.     *)
THEOREM KeepsThePromise ==
  Spec /\ target.protocol = "RFCOMM" => Implements
<1>1. IInv /\ target.protocol = "RFCOMM" /\ [Next]_vars
        => [Promise!Next]_(Promise!vars)
  BY PromiseStep
<1>2. QED
  BY <1>1, PromiseInit, Invariance, Rfcomm, PTL
  DEF Spec, Implements, Promise!Spec
=============================================================================
