------------------------------ MODULE MCLogRing -----------------------------
(* Instances of LogRing for TLC: a ring of three entries holds two messages. *)
EXTENDS LogRing

=============================================================================
