------------------------- MODULE MCConnectTimeout -------------------------
(* connect_timeout with a clock four times finer than poll's millisecond,  *)
(* polls of at most two milliseconds, and timeouts on both sides of every  *)
(* boundary: zero, under a millisecond, a whole number of milliseconds,    *)
(* one unit more or less, and more than the longest poll.                  *)
EXTENDS ConnectTimeout

MCTimeouts == {0, 1, 3, 4, 5, 8, 9, 13}

=============================================================================
