--------------------------- MODULE MCInstallEngine ---------------------------
(***************************************************************************)
(* Instances of InstallEngine for TLC.                                     *)
(***************************************************************************)
EXTENDS InstallEngine, TLC

CONSTANTS a, b, c, r1, r2, main, ui

Symmetry == Permutations(Names) \cup Permutations(Runs)

=============================================================================
