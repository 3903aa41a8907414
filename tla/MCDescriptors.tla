--------------------------- MODULE MCDescriptors ---------------------------
(* Descriptors with two threads, on every platform: Linux with each set of *)
(* kernel features, Apple with and without F_DUPFD_CLOEXEC, and Android,   *)
(* haiku and windows, which have no such command.                          *)
EXTENDS Descriptors, TLC

MCTargets ==
  [platform : {"linux"}, features : SUBSET AllFeatures]
    \cup [platform : {"android", "haiku", "windows"}, features : {{}}]
    \cup [platform : {"apple"}, features : {{}, {"F_DUPFD_CLOEXEC", "dup_marks"}}]

Symmetry ==
  Permutations(Threads) \cup Permutations(Handles) \cup Permutations(Fds)
    \cup Permutations(Files)

=============================================================================
