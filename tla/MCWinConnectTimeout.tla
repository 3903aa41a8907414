------------------------ MODULE MCWinConnectTimeout ------------------------
(* connect_timeout on windows with a microsecond of three clock units, a   *)
(* second of two microseconds and a c_long of -2 .. 1.  Seconds of 0 and 1 *)
(* fit; 2 and 3 come out negative, 4 and 5 as 0 and 1 again.               *)
EXTENDS WinConnectTimeout

MCTimeouts == [secs : 0 .. 5, sub : 0 .. UnitsPerSecond - 1]

=============================================================================
