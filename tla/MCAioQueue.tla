----------------------------- MODULE MCAioQueue -----------------------------
(* Instances of AioQueue for TLC; the cfg files choose the thread sets.     *)
EXTENDS AioQueue, TLC

\* Command slots, workers and library threads are interchangeable (used by
\* the runs that check invariants only).
Symmetry == Permutations(Cmds) \cup Permutations(Workers) \cup Permutations(Callbacks)

=============================================================================
