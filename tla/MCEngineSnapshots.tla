------------------------- MODULE MCEngineSnapshots -------------------------
(* EngineSnapshots with the lists of checkpoints its runs use.             *)
EXTENDS EngineSnapshots

CONSTANTS a, b, c, d

TwoNames   == {<<a, b>>}
NewSuffix  == {<<a, b, c>>, <<a, d>>}

=============================================================================
