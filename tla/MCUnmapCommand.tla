--------------------------- MODULE MCUnmapCommand ---------------------------
(* Instances of UnmapCommand for TLC.                                       *)
EXTENDS UnmapCommand

\* Ranges that begin before, at and after the first multiple of the
\* granularity, an empty one, and three that the device does not have: past
\* its end, too long, and wrapping around at Word.
Ranges ==
    {[lba |-> 1, nlbas |-> 4], [lba |-> 2, nlbas |-> 3], [lba |-> 3, nlbas |-> 4],
     [lba |-> 0, nlbas |-> 0], [lba |-> 5, nlbas |-> 3], [lba |-> 0, nlbas |-> 7],
     [lba |-> 14, nlbas |-> 4]}

\* Every list of up to two of them, one that is too long, and the malformed ones.
AllRequests ==
    {[kind |-> "unmap", head |-> "good", descs |-> s] :
        s \in {<<>>, <<[lba |-> 0, nlbas |-> 1], [lba |-> 1, nlbas |-> 1], [lba |-> 2, nlbas |-> 1]>>}
              \cup [1 .. 1 -> Ranges] \cup [1 .. 2 -> Ranges]}
    \cup {[kind |-> "unmap", head |-> h, descs |-> <<>>] : h \in Heads}
    \cup {[kind |-> "writesame", head |-> h, descs |-> <<r>>] : h \in {"good", "short"}, r \in Ranges}

=============================================================================
