--------------------------- MODULE MCEntityTables ---------------------------
(***************************************************************************)
(* Instances of EntityTables for TLC.                                      *)
(***************************************************************************)
EXTENDS EntityTables

\* The outermost entities are chassis, all others ports.
PortsInside(parent) == IF parent = 0 THEN "other" ELSE "port"

\* What the code does not cope with is checked but not followed.
NothingUnhandled == ~unhandled

=============================================================================
