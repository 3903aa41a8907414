------------------------------ MODULE Timeouts ------------------------------
(***************************************************************************)
(* Read and write timeouts of a stream: set_timeout and timeout on unix    *)
(* (a timeval) and on windows (dur2timeout, milliseconds), and what the    *)
(* kernel then waits.  A Duration is its number of nanoseconds.  The       *)
(* ratios between units and the widths of integers are constants, so that  *)
(* every boundary can be met with small numbers.  The names of the         *)
(* specification are its own, so that it can stand beside Stream, whose    *)
(* timeouts these are.                                                     *)
(***************************************************************************)
EXTENDS Integers

CONSTANTS
  NanosPerMicro, MicrosPerMilli, MillisPerSec,
  MicrosPerTick, (* granularity of the kernel's timeouts on unix           *)
  U64Max,        (* the most seconds a Duration holds                      *)
  TimeMax,       (* time_t::max_value(), unix                              *)
  KernelMax,     (* seconds from which the kernel waits for ever, unix     *)
  UlongMax,      (* c_ulong::max_value() = INFINITE, windows               *)
  Platforms,     (* subset of {"unix", "windows"}                          *)
  Never          (* no timeout: None, or an option that is not set         *)

NanosPerMilli == NanosPerMicro * MicrosPerMilli
NanosPerSec   == NanosPerMilli * MillisPerSec
NanosPerTick  == NanosPerMicro * MicrosPerTick
TicksPerSec   == NanosPerSec \div NanosPerTick

ASSUME UnitsAssumption ==
  /\ {NanosPerMicro, MicrosPerMilli, MillisPerSec, MicrosPerTick}
       \subseteq Nat \ {0}
  /\ NanosPerSec % NanosPerTick = 0
ASSUME WidthsAssumption ==
  /\ {U64Max, TimeMax, KernelMax, UlongMax} \subseteq Nat \ {0}
  /\ KernelMax <= TimeMax /\ TimeMax < U64Max /\ UlongMax < U64Max
ASSUME PlatformsAssumption == Platforms \subseteq {"unix", "windows"}
ASSUME NeverAssumption == Never \notin Int

Durations == 0 .. U64Max * NanosPerSec + NanosPerSec - 1
AsSecs(d)       == d \div NanosPerSec
SubsecNanos(d)  == d % NanosPerSec
SubsecMicros(d) == SubsecNanos(d) \div NanosPerMicro

TimeoutKinds == {"SO_RCVTIMEO", "SO_SNDTIMEO"}

VARIABLES
  platform,
  option,   (* what the kernel keeps: ticks, or milliseconds on windows    *)
  asked,    (* ghost: the argument of the last call that returned Ok       *)
  refused   (* ghost: arguments that were refused as InvalidInput or -Data *)

timeoutVars == <<platform, option, asked, refused>>

Longest == IF platform = "unix" THEN KernelMax * TicksPerSec ELSE UlongMax

TimeoutTypeOK ==
  /\ platform \in Platforms
  /\ option \in [TimeoutKinds -> (1 .. Longest) \cup {Never}]
  /\ asked \in [TimeoutKinds -> Durations \cup {Never}]
  /\ refused \in SUBSET Durations

TimeoutInit ==
  /\ platform \in Platforms
  /\ option = [k \in TimeoutKinds |-> Never]
  /\ asked = [k \in TimeoutKinds |-> Never]
  /\ refused = {}

-----------------------------------------------------------------------------
(* unix                                                                    *)

ClampWrapping(secs) ==               \* mutant: as time_t without the clamp
  IF secs > TimeMax THEN secs - (U64Max + 1) ELSE secs

Clamp(secs) == IF secs > TimeMax THEN TimeMax ELSE secs

TimevalTruncated(d) ==               \* mutant: no least timeout of 1 us
  [sec |-> Clamp(AsSecs(d)), usec |-> SubsecMicros(d)]

Timeval(d) ==
  LET sec  == Clamp(AsSecs(d))
      usec == SubsecMicros(d)
  IN  [sec |-> sec, usec |-> IF sec = 0 /\ usec = 0 THEN 1 ELSE usec]

CeilDiv(n, k) == (n + k - 1) \div k

(* What the kernel makes of a timeval: zero and very long ones are no      *)
(* timeout, negative ones do not wait, others are rounded up (external).   *)
KernelKeeps(tv) ==
  CASE tv.sec = 0 /\ tv.usec = 0 -> Never
    [] tv.sec < 0                -> 0
    [] tv.sec >= KernelMax       -> Never
    [] OTHER -> tv.sec * TicksPerSec + CeilDiv(tv.usec, MicrosPerTick)

(* What getsockopt tells of it (external).                                 *)
KernelTells(ticks) ==
  IF ticks = Never
  THEN [sec |-> 0, usec |-> 0]
  ELSE [sec |-> ticks \div TicksPerSec,
        usec |-> (ticks % TicksPerSec) * MicrosPerTick]

FromTimevalMillis(tv) ==             \* mutant: microseconds as milliseconds
  IF tv.sec = 0 /\ tv.usec = 0 THEN Never
  ELSE tv.sec * NanosPerSec + tv.usec * NanosPerMilli

FromTimeval(tv) ==
  IF tv.sec = 0 /\ tv.usec = 0 THEN Never
  ELSE tv.sec * NanosPerSec + tv.usec * NanosPerMicro

-----------------------------------------------------------------------------
(* windows                                                                 *)

Millis(d) == AsSecs(d) * MillisPerSec + CeilDiv(SubsecNanos(d), NanosPerMilli)

Dur2timeoutWrapping(d) ==            \* mutant: unchecked, then a cast
  (Millis(d) % (U64Max + 1)) % (UlongMax + 1)

Dur2timeoutDown(d) ==                \* mutant: rounded down
  LET ms == d \div NanosPerMilli
  IN  IF ms > UlongMax THEN UlongMax ELSE ms

(* Rounded up; what overflows u64 in the checked arithmetic is longer than *)
(* a c_ulong as well, and both become INFINITE.                            *)
Dur2timeout(d) == IF Millis(d) > UlongMax THEN UlongMax ELSE Millis(d)

FromMillis(raw) == IF raw = Never THEN Never ELSE raw * NanosPerMilli

-----------------------------------------------------------------------------
Keep(d) ==
  CASE d = Never -> Never
    [] d # Never /\ platform = "unix" -> KernelKeeps(Timeval(d))
    [] d # Never /\ platform = "windows" ->
         IF Dur2timeout(d) = 0 THEN Never ELSE Dur2timeout(d)

(* Socket::timeout, which is what read_timeout and write_timeout return.   *)
Timeout(k) ==
  IF platform = "unix" THEN FromTimeval(KernelTells(option[k]))
  ELSE FromMillis(option[k])

IsZero(d) ==
  IF platform = "unix" THEN AsSecs(d) = 0 /\ SubsecNanos(d) = 0
  ELSE Dur2timeout(d) = 0

SetTimeoutLate(k, dur) ==            \* mutant: the zero check comes last
  /\ option' = [option EXCEPT ![k] = Keep(dur)]
  /\ \/ /\ dur # Never /\ IsZero(dur)
        /\ refused' = refused \cup {dur}
        /\ UNCHANGED asked
     \/ /\ dur # Never => ~IsZero(dur)
        /\ asked' = [asked EXCEPT ![k] = dur]
        /\ UNCHANGED refused
  /\ UNCHANGED platform

(* Socket::set_timeout(dur, k); setsockopt itself may fail.                *)
SetTimeout(k, dur) ==
  /\ \/ /\ dur # Never /\ IsZero(dur)
        /\ refused' = refused \cup {dur}
        /\ UNCHANGED <<option, asked>>
     \/ /\ dur # Never => ~IsZero(dur)
        /\ option' = [option EXCEPT ![k] = Keep(dur)]
        /\ asked' = [asked EXCEPT ![k] = dur]
        /\ UNCHANGED refused
     \/ UNCHANGED <<option, asked, refused>>
  /\ UNCHANGED platform

(* A caller that saves a timeout and puts it back.                         *)
Restore(k) == SetTimeout(k, Timeout(k))

TimeoutNext ==
  \E k \in TimeoutKinds :
    \/ \E dur \in Durations \cup {Never} : SetTimeout(k, dur)
    \/ Restore(k)

TimeoutSpec == TimeoutInit /\ [][TimeoutNext]_timeoutVars

-----------------------------------------------------------------------------
(* Properties.                                                             *)

(* How long a call blocks, in nanoseconds.  INFINITE is "never time out".  *)
Waits(k) ==
  CASE option[k] = Never -> Never
    [] option[k] # Never /\ platform = "unix" -> option[k] * NanosPerTick
    [] option[k] # Never /\ platform = "windows" ->
         IF option[k] = UlongMax THEN Never ELSE option[k] * NanosPerMilli

TooLong(d) ==
  IF platform = "unix" THEN AsSecs(d) >= KernelMax ELSE Millis(d) >= UlongMax

(* The socket waits as long as was asked: for ever only without a timeout  *)
(* or when the platform cannot count that far, short by less than a        *)
(* microsecond (on windows: not at all), and long by less than a           *)
(* microsecond and a tick (on windows: a millisecond).                     *)
WaitsAsAsked ==
  \A k \in TimeoutKinds :
    CASE asked[k] = Never -> Waits(k) = Never
      [] asked[k] # Never /\ Waits(k) = Never -> TooLong(asked[k])
      [] asked[k] # Never /\ Waits(k) # Never ->
           LET late == Waits(k) - asked[k]
           IN  IF platform = "unix"
               THEN /\ -NanosPerMicro < late
                    /\ late < NanosPerMicro + NanosPerTick
               ELSE 0 <= late /\ late < NanosPerMilli

(* Setting a timeout to what read_timeout or write_timeout returned leaves *)
(* the socket waiting as it was, however the first conversion rounded;     *)
(* only one rounded up to the end of the range becomes none.               *)
RestoringChangesNothing ==
  [][\A k \in TimeoutKinds :
       Restore(k) =>
         \/ UNCHANGED option
         \/ /\ Timeout(k) # Never /\ TooLong(Timeout(k))
            /\ option'[k] = Never]_timeoutVars

(* Asking for more never gives less: rounding, clamping and saturation     *)
(* keep the order of any two durations.                                    *)
LongerIsNotShorter ==
  [][\A k \in TimeoutKinds :
       asked[k] # Never /\ asked'[k] # Never /\ asked[k] <= asked'[k] =>
         \/ Waits(k)' = Never
         \/ Waits(k) # Never /\ Waits(k) <= Waits(k)']_timeoutVars

(* "An Err is returned if the zero Duration is passed to this method", and *)
(* for nothing else, although both platforms round before they store.      *)
OnlyZeroIsRefused ==
  /\ refused \subseteq {0}
  /\ \A k \in TimeoutKinds : asked[k] # 0

(* Each timeout is refused or kept: exactly zero is refused, and what is   *)
(* kept is what was asked for.                                             *)
RefusedOrKept == OnlyZeroIsRefused /\ WaitsAsAsked

=============================================================================
