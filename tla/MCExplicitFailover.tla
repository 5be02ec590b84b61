------------------------- MODULE MCExplicitFailover -------------------------
(* Instances of ExplicitFailover for TLC.                                   *)
EXTENDS ExplicitFailover, TLC

\* What initiators ask a node for: its own group active, standby, both one
\* after the other, and a state no group can be given.
AllLists ==
    {[n \in Nodes |-> <<[state |-> "OPTIMIZED", group |-> n]>>],
     [n \in Nodes |-> <<[state |-> "STANDBY", group |-> n], [state |-> "OPTIMIZED", group |-> n]>>],
     [n \in Nodes |-> <<[state |-> "NON_OPTIMIZED", group |-> n]>>],
     [n \in Nodes |-> <<[state |-> "OPTIMIZED", group |-> "other"]>>]}
\* The nodes are interchangeable.
Sym == Permutations(Nodes)
=============================================================================
