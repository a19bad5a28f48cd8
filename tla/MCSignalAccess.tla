---------------------------- MODULE MCSignalAccess ----------------------------
(* Two codes and their accesses, and two coroutines that overlap.             *)
EXTENDS SignalAccess, TLC

CONSTANTS c1, c2

ClientSymmetry == Permutations({c1, c2})

=============================================================================
