----------------------------- MODULE MCPk11Keys -----------------------------
(***************************************************************************)
(* Instances of Pk11Keys for TLC.                                          *)
(***************************************************************************)
EXTENDS Pk11Keys, TLC

CONSTANTS t1, t2, s1, s2, p1, k1, k2, h1, h2, tk

TheToken(v) == tk

Symmetry == Permutations(Threads) \cup Permutations(Sessions) \cup Permutations(Structs)
               \cup Permutations(Handles)

\* What the code does not cope with is checked but not followed.
NothingUnhandled == ~unhandled

=============================================================================
