--------------------------- MODULE MCPk11Sessions ---------------------------
(***************************************************************************)
(* Instances of Pk11Sessions for TLC.                                      *)
(***************************************************************************)
EXTENDS Pk11Sessions, TLC

CONSTANTS c1, c2, d1, d2, r1, k1, k2, s1, s2

Symmetry == Permutations(Keys) \cup Permutations(SP)
               \cup Permutations(CipherCtx) \cup Permutations(DigestCtx)

\* Two ciphers, two digests, or two types that share no pool.
Mixed == {CipherCtx, DigestCtx} \cup {{x, r1} : x \in CipherCtx \cup DigestCtx}

\* A failure that the code does not cope with is checked but not followed.
NothingUnhandled == ~unhandled

=============================================================================
