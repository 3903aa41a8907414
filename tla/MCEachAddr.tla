---------------------------- MODULE MCEachAddr ----------------------------
(* connect and bind over lists of up to three addresses, on unix and on    *)
(* windows, with two errors a call may fail with.                          *)
EXTENDS EachAddr

MCPlatforms == {"unix", "windows"}

=============================================================================
