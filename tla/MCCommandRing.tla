---------------------------- MODULE MCCommandRing ---------------------------
(* Instances of CommandRing for TLC.                                        *)
EXTENDS CommandRing, TLC

\* Identifiers are interchangeable (used by the runs that check invariants only).
Symmetry == Permutations(Ids)

=============================================================================
