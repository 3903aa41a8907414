---------------------------- MODULE MCDiscovery ----------------------------
(* discover_devices with up to four answers of two devices, words of three *)
(* bytes, replies on both sides of a word boundary, and an octet of four   *)
(* values, so that four answers are one more than it counts.               *)
EXTENDS Discovery

MCPlatforms == {"unix", "windows"}
MCSizes == {5, 6, 7, 9}

=============================================================================
