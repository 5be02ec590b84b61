----------------------------- MODULE MCQcowImage ----------------------------
(* Instances of QcowImage for TLC.                                          *)
EXTENDS QcowImage, TLC

Header == [magic |-> TRUE, version |-> 3, fieldsValid |-> TRUE, sizeFits |-> TRUE, l1Fits |-> TRUE,
           fileSizeFits |-> FALSE, backing |-> "none", fixed |-> {0, 1, 2}]
Holes == [c \in 0 .. FileClusters - 1 |-> << >>]

\* A new qcow2 file: header, refcount table, L1 table, refcount block 0.
NewDisk == [l1 |-> [i \in 0 .. 1 |-> 0], rt |-> [i \in 0 .. FileClusters \div RcSlots |-> IF i = 0 THEN 3 ELSE 0],
            cl |-> [Holes EXCEPT ![3] = [i \in 0 .. 3 |-> 1]], end |-> 4]
\* One with an L2 table of two compressed clusters, and one of a cluster shared
\* with a snapshot and a zero cluster.
Entry0 == [at |-> 5, kind |-> "compressed", copied |-> FALSE]
Entry1 == [at |-> 5, kind |-> "normal", copied |-> FALSE]
Entry2 == [at |-> 6, kind |-> "compressed", copied |-> FALSE]
OldDisk(first, second) ==
    [NewDisk EXCEPT !.l1[0] = 4, !.end = 8, !.rt[1] = 7,
       !.cl[4] = 0 :> first @@ 1 :> second,
       !.cl[5] = 0 :> "old" @@ 1 :> "old", !.cl[6] = 0 :> "packed" @@ 1 :> "packed",
       !.cl[7] = 0 :> 1 @@ 1 :> 2 @@ 2 :> 1 @@ 3 :> 1]
Entry3 == [at |-> 3, kind |-> "normal", copied |-> FALSE]
\* A qcow file has no refcounts and may have an L2 table.
Qcow1Disk ==
    [NewDisk EXCEPT !.l1[0] = 2, !.end = 4, !.rt = << >>,
       !.cl[2] = 1 :> Entry3, !.cl[3] = 0 :> "old"]
RawDisk == [NewDisk EXCEPT !.cl = Holes]

AllImages ==
    {[header |-> Header, disk |-> NewDisk],
     [header |-> [Header EXCEPT !.backing = "raw"], disk |-> OldDisk(Entry0, Entry2)],
     [header |-> Header, disk |-> OldDisk(Entry1, ZeroEntry)],
     [header |-> [Header EXCEPT !.version = 1, !.fixed = {0, 1}], disk |-> Qcow1Disk],
     [header |-> [Header EXCEPT !.magic = FALSE, !.fileSizeFits = TRUE], disk |-> RawDisk]}
      \cup {[header |-> h, disk |-> NewDisk] :
              h \in {[Header EXCEPT !.magic = FALSE], [Header EXCEPT !.sizeFits = FALSE],
                     [Header EXCEPT !.l1Fits = FALSE], [Header EXCEPT !.backing = "broken"],
                     [Header EXCEPT !.fieldsValid = FALSE]}}

\* Single sectors, a whole cluster, and a run over two L2 tables.
AllRequests ==
    [op : {"read"}, from : {0}, end : {8}]
      \cup {[op |-> "write", from |-> r[1], end |-> r[2]] :
              r \in {<<0, 1>>, <<2, 4>>, <<3, 5>>}}
\* What is written is only ever compared.
Sym == Permutations(Values)
=============================================================================
