----------------------------- MODULE MCWinsock -----------------------------
(* Two threads and two error codes: one of the threads can run init while  *)
(* the other waits for it or is inside std::net itself.                    *)
EXTENDS Winsock

=============================================================================
