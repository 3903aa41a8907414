---- MODULE MCTimeouts ----
(* Seconds of 2 milliseconds of 2 microseconds of 2 nanoseconds; u64 of    *)
(* three bits, time_t of three bits with sign.                             *)
EXTENDS Timeouts
====
