--------------------------- MODULE QcowImageProofs ---------------------------
(***************************************************************************)
(* Invariance proofs for QcowImage, for all geometries, sound images,      *)
(* requests and faults: clusters are used once and counted, the caches     *)
(* match the file, and reads return what was written.                      *)
(***************************************************************************)
EXTENDS QcowImage, FiniteSetTheorems, SequenceTheorems, TLAPS

-----------------------------------------------------------------------------
(* What a cluster is used for.                                             *)

L2Slots == 0 .. L2Size - 1
Leads(d, t, i) == Slot(d.cl[t], i, NoEntry)
Full(e) == e.kind \in {"normal", "compressed"}

IsTable(d, c) == c # 0 /\ \E j \in DOMAIN d.l1 : d.l1[j] = c
IsBlock(d, c) == c # 0 /\ \E j \in DOMAIN d.rt : d.rt[j] = c
IsData(d, c) == \E t \in Clusters, i \in L2Slots : IsTable(d, t) /\ Full(Leads(d, t, i)) /\ Leads(d, t, i).at = c
Used(h, d, c) == IsTable(d, c) \/ IsBlock(d, c) \/ IsData(d, c) \/ c \in h.fixed

-----------------------------------------------------------------------------
(* The inductive invariant, the file.                                      *)

DiskFields == {"l1", "rt", "cl", "end"}
MemFields == {"l1", "rt", "l2c", "rcc", "free", "dec"}
CmdFields == {"pc", "op", "at", "end", "from", "val", "buf", "l2", "new", "rb", "scan", "why", "rc", "ret", "ok", "lost"}

FileShape(d) ==
    /\ DOMAIN d = DiskFields /\ DOMAIN d.cl = Clusters /\ d.end \in 1 .. FileClusters
    /\ IsFiniteSet(DOMAIN d.l1) /\ d.l1 \in [0 .. Cardinality(DOMAIN d.l1) - 1 -> Clusters]
    /\ IsFiniteSet(DOMAIN d.rt) /\ d.rt \in [DOMAIN d.rt -> Clusters]

\* Tables hold entries, blocks hold counts.
ContentsOk(d) ==
    /\ \A t \in Clusters, i \in L2Slots : IsTable(d, t) =>
         Leads(d, t, i) \in EntryType /\ (Full(Leads(d, t, i)) => Leads(d, t, i).at # 0)
    /\ \A b, c \in Clusters : IsBlock(d, b) => GetRefcount(d.cl[b], c) \in Nat

\* A cluster is one table, one block or the target of one entry, or none.
Exclusive(h, d) ==
    /\ \A i, j \in DOMAIN d.l1 : d.l1[i] = d.l1[j] /\ d.l1[i] # 0 => i = j
    /\ \A i, j \in DOMAIN d.rt : d.rt[i] = d.rt[j] /\ d.rt[i] # 0 => i = j
    /\ \A t, u \in Clusters, i, j \in L2Slots :
         /\ IsTable(d, t) /\ IsTable(d, u) /\ Full(Leads(d, t, i)) /\ Full(Leads(d, u, j))
         /\ Leads(d, t, i).at = Leads(d, u, j).at
         => t = u /\ i = j
    /\ \A c \in Clusters :
         /\ ~(IsTable(d, c) /\ IsBlock(d, c)) /\ ~(IsTable(d, c) /\ IsData(d, c)) /\ ~(IsBlock(d, c) /\ IsData(d, c))
         /\ c \in h.fixed => ~IsTable(d, c) /\ ~IsBlock(d, c) /\ ~IsData(d, c)
         /\ Used(h, d, c) => c < d.end

\* What is used is counted, or about to be (the clusters of late).
Counts(h, d, late) ==
    Probe(h) = "qcow2" =>
      /\ \A c \in Clusters : Used(h, d, c) => Refcount(d, c) >= 1 \/ c \in late
      /\ \A t \in Clusters, i \in L2Slots : IsTable(d, t) /\ Full(Leads(d, t, i)) /\ Leads(d, t, i).copied =>
           Refcount(d, Leads(d, t, i).at) = 1 \/ Leads(d, t, i).at \in late

FileInv(h, d, late) == FileShape(d) /\ ContentsOk(d) /\ Exclusive(h, d) /\ Counts(h, d, late)

\* What depends on the header and the sizes of the tables only.
Geometry(h, d) ==
    /\ 0 \in h.fixed
    /\ Probe(h) = "qcow2" => \A c \in Clusters : c \div RcSlots \in DOMAIN d.rt
    /\ Probe(h) = "raw" => \A s \in SectorsOf(d) : s \div ClusterSectors \in Clusters
    /\ \A r \in Requests : r.end - 1 \in SectorsOf(d)

-----------------------------------------------------------------------------
(* The inductive invariant, memory and the command.                        *)

PCs == {"idle", "l1", "l2", "inflate", "data", "scan", "alloc", "l1update", "l2update", "count", "rcupdate", "done"}
Kinds == {"none", "zero", "normal", "compressed"}

Late == {cmd.rc[k] : k \in DOMAIN cmd.rc}
Index == VCluster \div L2Size
Within == VCluster % L2Size
Here == Leads(disk, cmd.l2, Within)

Allocating(why) == cmd.pc \in {"scan", "alloc"} /\ cmd.why \in why
InCounting == cmd.pc \in {"count", "rcupdate"} \/ Allocating({"refblock"})

CacheInv ==
    dev = "open" =>
      /\ mem.l1 = disk.l1 /\ mem.rt = disk.rt
      /\ Format # "raw" =>
           /\ \A c \in DOMAIN mem.l2c : c \in Clusters /\ IsTable(disk, c) /\ mem.l2c[c] = disk.cl[c]
           /\ \A c \in DOMAIN mem.rcc : c \in Clusters /\ IsBlock(disk, c) /\ mem.rcc[c] = disk.cl[c]
      /\ IsFiniteSet(DOMAIN mem.l2c) /\ Cardinality(DOMAIN mem.l2c) <= CacheSize
      /\ IsFiniteSet(DOMAIN mem.rcc) /\ Cardinality(DOMAIN mem.rcc) <= CacheSize

\* The range of the command and where it is.
RangeInv ==
    /\ cmd.pc \in PCs /\ cmd.rc \in Seq(1 .. FileClusters - 1)
    /\ cmd.pc = "idle" => cmd = Idle
    /\ dev # "open" => cmd = Idle
    /\ cmd.pc # "idle" =>
         /\ Format \in {"raw", "qcow", "qcow2"} /\ cmd.op \in {"read", "write"}
         /\ cmd.from \in Nat /\ cmd.end \in Nat /\ cmd.end - 1 \in Sectors
         /\ cmd.at = cmd.from \/ cmd.at = cmd.end \/ cmd.at % ClusterSectors = 0
         /\ cmd.pc # "done" => cmd.at < cmd.end
         /\ cmd.pc = "done" /\ cmd.ok => cmd.at = cmd.end
         /\ Format = "raw" => cmd.pc \in {"data", "done"}
    /\ cmd.pc \in {"scan", "alloc", "l1update", "l2update", "count", "rcupdate"} => cmd.op = "write"

\* The tables that the command goes through.
PathInv ==
    Format # "raw" =>
      /\ Allocating({"l2table"}) \/ cmd.pc = "l1update" => disk.l1[Index] = 0
      /\ \/ cmd.pc \in {"l2", "inflate", "l2update", "data"} \/ Allocating(Kinds)
         \/ (InCounting /\ cmd.ret = "data")
         => cmd.l2 # 0 /\ disk.l1[Index] = cmd.l2
      /\ cmd.pc \in {"inflate", "l2update"} \/ Allocating(Kinds) => cmd.l2 \in DOMAIN mem.l2c
      /\ cmd.pc = "inflate" => Here.kind = "compressed"
      /\ Allocating(Kinds) => Here.kind = cmd.why
      /\ cmd.pc \in {"scan", "alloc"} => cmd.why \in Kinds \cup {"l2table", "refblock"}
      /\ cmd.pc = "data" \/ (InCounting /\ cmd.ret = "data") => Here.kind = "normal" /\ Here.at = cmd.new

\* A cluster that was allocated and that no table leads to yet.
Spare(c) ==
    /\ c \in 1 .. FileClusters - 1 /\ ~Used(image, disk, c) /\ c < disk.end
    /\ Format = "qcow2" => c < mem.free

AllocInv ==
    /\ InCounting <=> cmd.rc # << >>
    /\ InCounting => Format = "qcow2" /\ cmd.ret \in {"l1", "data"}
    /\ cmd.pc = "rcupdate" \/ Allocating({"refblock"}) => disk.rt[Head(cmd.rc) \div RcSlots] = 0
    /\ \A c \in Late : c < mem.free
    /\ cmd.pc = "scan" => cmd.scan >= mem.free
    /\ cmd.pc = "alloc" => /\ Format = "qcow2" => cmd.scan >= mem.free
                           /\ cmd.scan < FileClusters => ~Used(image, disk, cmd.scan)
                           /\ Format = "qcow" => cmd.scan = disk.end
    /\ cmd.pc \in {"l1update", "l2update"} => Spare(cmd.new)
    /\ cmd.pc = "l1update" => DOMAIN disk.cl[cmd.new] = {}
    /\ cmd.pc = "rcupdate" => Spare(cmd.rb) /\ DOMAIN disk.cl[cmd.rb] = {}

-----------------------------------------------------------------------------
(* The inductive invariant, what sectors read as.                          *)

Stored(d, c, s) == Slot(d.cl[c], s % ClusterSectors, "zero")
Table(d, s) == d.l1[(s \div ClusterSectors) \div L2Size]
Of(d, s) == IF Table(d, s) = 0 THEN NoEntry ELSE Leads(d, Table(d, s), (s \div ClusterSectors) % L2Size)
Reads(h, d, s) ==
    IF Probe(h) = "raw" THEN Stored(d, s \div ClusterSectors, s)
    ELSE CASE Of(d, s).kind = "none" -> IF h.backing = "none" THEN "zero" ELSE "backing"
           [] Of(d, s).kind = "zero" -> "zero"
           [] OTHER -> Stored(d, Of(d, s).at, s)

TruthInv ==
    /\ \A s \in Sectors : Reads(image, disk, s) \in truth[s]
    /\ cmd.op = "write" =>
         /\ \A s \in cmd.from .. cmd.end - 1 : cmd.val \in truth[s]
         /\ \A s \in cmd.from .. cmd.at - 1 : s \notin cmd.lost => Reads(image, disk, s) = cmd.val
    /\ cmd.op = "read" => \A s \in cmd.from .. cmd.at - 1 : s \in DOMAIN cmd.buf /\ cmd.buf[s] \in truth[s]
    /\ cmd.pc = "l2update" =>
         \A s \in Sectors : s \div ClusterSectors = VCluster => Stored(disk, cmd.new, s) \in truth[s]

\* The cluster that was inflated last.  The sectors that are compressed in its
\* place may read as it says, a sector that was written is no longer compressed.
Inflated(s) == Slot(mem.dec.data, s % ClusterSectors, "zero")
DecInv ==
    dev = "open" /\ Format # "raw" =>
      /\ \A s \in Sectors : Of(disk, s).kind = "compressed" =>
           /\ cmd.op = "write" => s \notin cmd.from .. cmd.at - 1
           /\ Of(disk, s).at = mem.dec.at => Inflated(s) \in truth[s]
      /\ Allocating({"compressed"}) => mem.dec.at = Here.at

Shape ==
    /\ TypeOK /\ FileShape(disk) /\ Geometry(image, disk)
    /\ DOMAIN mem = MemFields /\ DOMAIN cmd = CmdFields
    /\ dev # "open" => mem = Closed
    /\ dev = "open" => Probe(image) \in {"raw", "qcow", "qcow2"}

SoundInv ==
    /\ Format # "raw" => FileInv(image, disk, Late)
    /\ CacheInv /\ RangeInv /\ PathInv /\ AllocInv /\ TruthInv

QcowInv == Shape /\ (Sound => SoundInv)

-----------------------------------------------------------------------------
(* Division.                                                               *)

\* Quotient and remainder.
LEMMA DivMod ==
    ASSUME NEW a \in Nat, NEW b \in Nat \ {0}
    PROVE  a \div b \in Nat /\ a % b \in 0 .. b - 1 /\ a = b * (a \div b) + (a % b)
  OBVIOUS

\* They determine the number.
LEMMA DivModUnique ==
    ASSUME NEW a \in Nat, NEW c \in Nat, NEW b \in Nat \ {0}, a \div b = c \div b, a % b = c % b
    PROVE  a = c
<1>1. a = b * (a \div b) + (a % b) /\ c = b * (c \div b) + (c % b)
  BY DivMod
<1>2. QED
  BY <1>1

\* A number below a multiple has a quotient below the factor.
LEMMA DivBelow ==
    ASSUME NEW a \in Nat, NEW b \in Nat \ {0}, NEW m \in Nat, a < m * b
    PROVE  a \div b \in 0 .. m - 1
<1>1. a \div b \in Nat /\ a \div b < m
  OBVIOUS
<1>2. QED
  BY <1>1

\* A number between two multiples.
LEMMA DivBetween ==
    ASSUME NEW b \in Nat \ {0}, NEW q \in Nat, NEW a \in Nat, a >= b * q, a < b * q + b
    PROVE  a \div b = q
<1> DEFINE p == a \div b
<1>1. p \in Nat /\ b * p <= a /\ a < b * p + b
  BY DivMod
<1> HIDE DEF p
<1>2. ASSUME p < q PROVE FALSE
  <2>1. p + 1 <= q
    BY <1>1, <1>2
  <2>2. b * (p + 1) <= b * q /\ b * (p + 1) = b * p + b
    BY <1>1, <2>1
  <2>3. QED
    BY <1>1, <2>2
<1>3. ASSUME q < p PROVE FALSE
  <2>1. q + 1 <= p
    BY <1>1, <1>3
  <2>2. b * (q + 1) <= b * p /\ b * (q + 1) = b * q + b
    BY <1>1, <2>1
  <2>3. QED
    BY <1>1, <2>2
<1>4. QED
  BY <1>1, <1>2, <1>3 DEF p

\* A multiple.
LEMMA DivOfMultiple ==
    ASSUME NEW b \in Nat \ {0}, NEW q \in Nat
    PROVE  (q * b) % b = 0 /\ q * b \in Nat
<1> DEFINE m == q * b
           k == m % b
<1>1. m \in Nat /\ m = b * q
  OBVIOUS
<1>2. m \div b = q
  BY <1>1, DivBetween
<1>3. m = b * q + k /\ k \in 0 .. b - 1
  <2> HIDE DEF m
  <2>1. QED
    BY <1>1, <1>2, DivMod
<1>4. k = 0
  <2> HIDE DEF m, k
  <2>1. QED
    BY <1>1, <1>3
<1>5. QED
  BY <1>1, <1>4

\* Where a sector's cluster is looked up.
LEMMA SectorIndex ==
    ASSUME NEW d, FileShape(d), NEW s \in SectorsOf(d)
    PROVE  /\ s \in Nat /\ s \div ClusterSectors \in Nat /\ s % ClusterSectors \in 0 .. ClusterSectors - 1
           /\ (s \div ClusterSectors) \div L2Size \in DOMAIN d.l1 /\ Table(d, s) \in Clusters
           /\ (s \div ClusterSectors) % L2Size \in L2Slots
<1> DEFINE n == Cardinality(DOMAIN d.l1)
           m == n * L2Size
           v == s \div ClusterSectors
<1>1. n \in Nat /\ d.l1 \in [0 .. n - 1 -> Clusters] /\ DOMAIN d.l1 = 0 .. n - 1
  BY FS_CardinalityType DEF FileShape
<1>2. L2Size \in Nat \ {0} /\ ClusterSectors \in Nat \ {0}
  BY QcowAssumption
<1>3. s \in 0 .. m * ClusterSectors - 1
  BY DEF SectorsOf
<1> HIDE DEF n
<1>4. m \in Nat
  BY <1>1, <1>2
<1> HIDE DEF m
<1>5. s \in Nat /\ s < m * ClusterSectors
  BY <1>2, <1>3, <1>4
<1>6. v \in 0 .. m - 1 /\ s % ClusterSectors \in 0 .. ClusterSectors - 1
  BY <1>2, <1>4, <1>5, DivBelow, DivMod
<1> HIDE DEF v
<1>7. v \in Nat /\ v < n * L2Size
  BY <1>4, <1>6 DEF m
<1>8. v \div L2Size \in 0 .. n - 1 /\ v % L2Size \in 0 .. L2Size - 1
  BY <1>1, <1>2, <1>7, DivBelow, DivMod
<1>9. Table(d, s) \in Clusters
  BY <1>1, <1>8 DEF Table, v
<1>10. QED
  BY <1>1, <1>5, <1>6, <1>7, <1>8, <1>9 DEF v, L2Slots

\* The part of a request that lies in one cluster.
LEMMA PieceRange ==
    ASSUME cmd.at \in Nat, cmd.end \in Nat, cmd.at < cmd.end
    PROVE  /\ PieceEnd \in cmd.at + 1 .. cmd.end
           /\ PieceEnd = cmd.end \/ PieceEnd % ClusterSectors = 0
           /\ \A s \in Piece : s \in cmd.at .. cmd.end - 1 /\ s \div ClusterSectors = VCluster
<1> DEFINE b == ClusterSectors
           q == cmd.at \div b
           e == (q + 1) * b
<1>1. b \in Nat \ {0}
  BY QcowAssumption
<1>2. q \in Nat /\ cmd.at % b \in 0 .. b - 1 /\ cmd.at = b * q + (cmd.at % b)
  BY <1>1, DivMod
<1>3. PieceEnd = IF e < cmd.end THEN e ELSE cmd.end
  BY DEF PieceEnd
<1> HIDE DEF b, q
<1>4. e = b * q + b /\ e \in Nat /\ b * q \in Nat
  BY <1>1, <1>2
<1>5. e % b = 0
  <2>1. e = (q + 1) * b /\ q + 1 \in Nat
    BY <1>2
  <2>2. QED
    BY <1>1, <2>1, DivOfMultiple
<1>6. ASSUME NEW s \in Nat, s >= b * q, s < b * q + b PROVE s \div b = q
  BY <1>1, <1>2, <1>6, DivBetween
<1> HIDE DEF e
<1>7. PieceEnd \in cmd.at + 1 .. cmd.end
  BY <1>2, <1>3, <1>4, <1>1
<1>8. ASSUME NEW s \in Piece PROVE s \in cmd.at .. cmd.end - 1 /\ s \div b = q
  <2>1. s \in Nat /\ s >= cmd.at /\ s < PieceEnd
    BY <1>7 DEF Piece
  <2>2. s >= b * q /\ s < b * q + b /\ s \in cmd.at .. cmd.end - 1
    BY <1>1, <1>2, <1>3, <1>4, <1>7, <2>1
  <2>3. QED
    BY <1>6, <2>1, <2>2
<1>9. QED
  BY <1>3, <1>5, <1>7, <1>8 DEF b, q, VCluster

-----------------------------------------------------------------------------
(* What a change of the file does.                                         *)

\* The tables are the same and hold the same: so are the uses and the counts.
LEMMA SameTables ==
    ASSUME NEW h, NEW d, NEW d2, FileShape(d), Geometry(h, d), d2.l1 = d.l1, d2.rt = d.rt,
           \A c \in Clusters : IsTable(d, c) \/ IsBlock(d, c) => d2.cl[c] = d.cl[c]
    PROVE  /\ \A c : (IsTable(d2, c) <=> IsTable(d, c)) /\ (IsBlock(d2, c) <=> IsBlock(d, c))
           /\ \A t \in Clusters : \A i : IsTable(d, t) => Leads(d2, t, i) = Leads(d, t, i)
           /\ \A c : (IsData(d2, c) <=> IsData(d, c)) /\ (Used(h, d2, c) <=> Used(h, d, c))
           /\ \A b, c \in Clusters : IsBlock(d, b) => GetRefcount(d2.cl[b], c) = GetRefcount(d.cl[b], c)
           /\ Probe(h) = "qcow2" => \A c \in Clusters : Refcount(d2, c) = Refcount(d, c)
<1>1. \A c : (IsTable(d2, c) <=> IsTable(d, c)) /\ (IsBlock(d2, c) <=> IsBlock(d, c))
  BY DEF IsTable, IsBlock
<1>2. \A t \in Clusters : \A i : IsTable(d, t) => Leads(d2, t, i) = Leads(d, t, i)
  BY DEF Leads
<1>3. \A c : IsData(d2, c) <=> IsData(d, c)
  BY <1>1, <1>2 DEF IsData
<1>4. \A b, c \in Clusters : IsBlock(d, b) => GetRefcount(d2.cl[b], c) = GetRefcount(d.cl[b], c)
  OBVIOUS
<1>5. ASSUME Probe(h) = "qcow2", NEW c \in Clusters PROVE Refcount(d2, c) = Refcount(d, c)
  <2> DEFINE b == d.rt[c \div RcSlots]
  <2>1. c \div RcSlots \in DOMAIN d.rt /\ b \in Clusters
    BY <1>5 DEF Geometry, FileShape
  <2>2. b # 0 => IsBlock(d, b)
    BY <2>1 DEF IsBlock
  <2>3. b # 0 => d2.cl[b] = d.cl[b]
    BY <2>1, <2>2
  <2>4. QED
    BY <2>3 DEF Refcount
<1>6. \A c : Used(h, d2, c) <=> Used(h, d, c)
  BY <1>1, <1>3 DEF Used
<1>7. QED
  BY <1>1, <1>2, <1>3, <1>4, <1>5, <1>6

\* A cluster that is no table and no block is written, or the file grows.
LEMMA FileFrame ==
    ASSUME NEW h, NEW d, NEW d2, NEW late, FileInv(h, d, late), Geometry(h, d), FileShape(d2),
           d2.l1 = d.l1, d2.rt = d.rt, d2.end >= d.end,
           \A c \in Clusters : IsTable(d, c) \/ IsBlock(d, c) => d2.cl[c] = d.cl[c]
    PROVE  FileInv(h, d2, late)
<1>0. FileShape(d) /\ ContentsOk(d) /\ Exclusive(h, d) /\ Counts(h, d, late)
  BY DEF FileInv
<1>1. /\ \A c : (IsTable(d2, c) <=> IsTable(d, c)) /\ (IsBlock(d2, c) <=> IsBlock(d, c))
      /\ \A t \in Clusters : \A i : IsTable(d, t) => Leads(d2, t, i) = Leads(d, t, i)
      /\ \A c : (IsData(d2, c) <=> IsData(d, c)) /\ (Used(h, d2, c) <=> Used(h, d, c))
      /\ \A b, c \in Clusters : IsBlock(d, b) => GetRefcount(d2.cl[b], c) = GetRefcount(d.cl[b], c)
      /\ Probe(h) = "qcow2" => \A c \in Clusters : Refcount(d2, c) = Refcount(d, c)
  BY <1>0, SameTables
<1>2. ContentsOk(d2)
  BY <1>0, <1>1 DEF ContentsOk
<1>3. Exclusive(h, d2)
  <2>1. \A c \in Clusters : Used(h, d2, c) => c < d2.end
    <3> SUFFICES ASSUME NEW c \in Clusters, Used(h, d, c) PROVE c < d2.end
      BY <1>1
    <3>1. c < d.end
      BY <1>0 DEF Exclusive
    <3>2. c \in Nat /\ d.end \in Nat /\ d2.end \in Nat
      BY <1>0, QcowAssumption DEF FileShape, Clusters
    <3>3. QED
      BY <3>1, <3>2
  <2>2. QED
    BY <1>0, <1>1, <2>1 DEF Exclusive
<1>4. Counts(h, d2, late)
  <2>1. \A t \in Clusters, i \in L2Slots : IsTable(d, t) => Leads(d, t, i).at \in Clusters
    <3> SUFFICES ASSUME NEW t \in Clusters, NEW i \in L2Slots, IsTable(d, t) PROVE Leads(d, t, i).at \in Clusters
      OBVIOUS
    <3>1. Leads(d, t, i) \in EntryType
      BY <1>0 DEF ContentsOk
    <3>2. QED
      BY <3>1 DEF EntryType
  <2>2. QED
    BY <1>0, <1>1, <2>1 DEF Counts
<1>5. QED
  BY <1>2, <1>3, <1>4 DEF FileInv

\* An empty table is added to the L1 table.
LEMMA TableAdded ==
    ASSUME NEW h, NEW d, NEW d2, NEW late, NEW j \in DOMAIN d.l1, NEW k \in Clusters,
           FileInv(h, d, late), Geometry(h, d), FileShape(d2),
           d.l1[j] = 0, k # 0, ~Used(h, d, k), k < d.end, DOMAIN d.cl[k] = {},
           DOMAIN d2.l1 = DOMAIN d.l1, d2.l1[j] = k, \A i \in DOMAIN d.l1 : i # j => d2.l1[i] = d.l1[i],
           d2.rt = d.rt, d2.end = d.end, d2.cl = d.cl
    PROVE  /\ FileInv(h, d2, late \cup {k})
           /\ \A c : IsTable(d2, c) <=> IsTable(d, c) \/ c = k
           /\ \A c : IsBlock(d2, c) <=> IsBlock(d, c)
           /\ \A t, i : Leads(d2, t, i) = Leads(d, t, i)
           /\ \A i : Leads(d2, k, i) = NoEntry
<1>0. FileShape(d) /\ ContentsOk(d) /\ Exclusive(h, d) /\ Counts(h, d, late)
  BY DEF FileInv
<1>1. \A i \in DOMAIN d.l1 : i # j => d2.l1[i] = d.l1[i]
  OBVIOUS
<1>2. d2.l1[j] = k /\ DOMAIN d2.l1 = DOMAIN d.l1
  BY <1>0
<1>3. \A c : IsTable(d2, c) <=> IsTable(d, c) \/ c = k
  BY <1>1, <1>2 DEF IsTable
<1>4. \A c : IsBlock(d2, c) <=> IsBlock(d, c)
  BY DEF IsBlock
<1>5. \A t, i : Leads(d2, t, i) = Leads(d, t, i)
  BY DEF Leads
<1>6. \A i : Leads(d2, k, i) = NoEntry
  BY DEF Leads, Slot
<1>7. NoEntry \in EntryType /\ ~Full(NoEntry)
  BY QcowAssumption DEF NoEntry, EntryType, Full, Clusters
<1>8. \A c : IsData(d2, c) <=> IsData(d, c)
  BY <1>3, <1>5, <1>6, <1>7 DEF IsData
<1>9. \A c : Refcount(d2, c) = Refcount(d, c)
  BY DEF Refcount
<1>10. \A c : Used(h, d2, c) <=> Used(h, d, c) \/ c = k
  BY <1>3, <1>4, <1>8 DEF Used
<1>11. ContentsOk(d2)
  BY <1>0, <1>3, <1>4, <1>5, <1>6, <1>7 DEF ContentsOk
<1>12. Exclusive(h, d2)
  <2>1. \A i, m \in DOMAIN d2.l1 : d2.l1[i] = d2.l1[m] /\ d2.l1[i] # 0 => i = m
    <3>1. \A i \in DOMAIN d.l1 : d.l1[i] # k
      BY DEF Used, IsTable
    <3>2. QED
      BY <1>0, <1>1, <1>2, <3>1 DEF Exclusive
  <2>2. \A i, m \in DOMAIN d2.rt : d2.rt[i] = d2.rt[m] /\ d2.rt[i] # 0 => i = m
    BY <1>0 DEF Exclusive
  <2>3. ASSUME NEW t \in Clusters, NEW u \in Clusters, NEW i \in L2Slots, NEW m \in L2Slots,
               IsTable(d2, t), IsTable(d2, u), Full(Leads(d2, t, i)), Full(Leads(d2, u, m)),
               Leads(d2, t, i).at = Leads(d2, u, m).at
        PROVE  t = u /\ i = m
    <3>1. IsTable(d, t) /\ IsTable(d, u)
      BY <1>3, <1>6, <1>7, <2>3
    <3>2. QED
      BY <1>0, <1>5, <2>3, <3>1 DEF Exclusive
  <2>4. ASSUME NEW c \in Clusters
        PROVE  /\ ~(IsTable(d2, c) /\ IsBlock(d2, c)) /\ ~(IsTable(d2, c) /\ IsData(d2, c))
               /\ ~(IsBlock(d2, c) /\ IsData(d2, c))
               /\ c \in h.fixed => ~IsTable(d2, c) /\ ~IsBlock(d2, c) /\ ~IsData(d2, c)
               /\ Used(h, d2, c) => c < d2.end
    <3>1. CASE c = k
      BY <1>3, <1>4, <1>8, <3>1 DEF Used
    <3>2. CASE c # k
      BY <1>0, <1>3, <1>4, <1>8, <1>10, <3>2 DEF Exclusive
    <3>3. QED
      BY <3>1, <3>2
  <2>5. QED
    BY <2>1, <2>2, <2>3, <2>4 DEF Exclusive
<1>13. Counts(h, d2, late \cup {k})
  <2>1. ASSUME Probe(h) = "qcow2", NEW c \in Clusters, Used(h, d2, c)
        PROVE  Refcount(d2, c) >= 1 \/ c \in late \cup {k}
    BY <1>0, <1>9, <1>10, <2>1 DEF Counts
  <2>2. ASSUME Probe(h) = "qcow2", NEW t \in Clusters, NEW i \in L2Slots, IsTable(d2, t), Full(Leads(d2, t, i)),
               Leads(d2, t, i).copied
        PROVE  Refcount(d2, Leads(d2, t, i).at) = 1 \/ Leads(d2, t, i).at \in late \cup {k}
    <3>1. IsTable(d, t)
      BY <1>3, <1>6, <1>7, <2>2
    <3>2. QED
      BY <1>0, <1>5, <1>9, <2>2, <3>1 DEF Counts
  <2>3. QED
    BY <2>1, <2>2 DEF Counts
<1>14. QED
  BY <1>3, <1>4, <1>5, <1>6, <1>11, <1>12, <1>13 DEF FileInv

\* An empty block is added to the refcount table.
LEMMA BlockAdded ==
    ASSUME NEW h, NEW d, NEW d2, NEW late, NEW j \in DOMAIN d.rt, NEW k \in Clusters,
           FileInv(h, d, late), Geometry(h, d), FileShape(d2), Probe(h) = "qcow2",
           d.rt[j] = 0, k # 0, ~Used(h, d, k), k < d.end, DOMAIN d.cl[k] = {},
           DOMAIN d2.rt = DOMAIN d.rt, d2.rt[j] = k, \A i \in DOMAIN d.rt : i # j => d2.rt[i] = d.rt[i],
           d2.l1 = d.l1, d2.end = d.end, d2.cl = d.cl
    PROVE  /\ FileInv(h, d2, late \cup {k})
           /\ \A c : IsTable(d2, c) <=> IsTable(d, c)
           /\ \A c : IsBlock(d2, c) <=> IsBlock(d, c) \/ c = k
           /\ \A t, i : Leads(d2, t, i) = Leads(d, t, i)
           /\ \A c : Used(h, d2, c) <=> Used(h, d, c) \/ c = k
<1>0. FileShape(d) /\ ContentsOk(d) /\ Exclusive(h, d) /\ Counts(h, d, late)
  BY DEF FileInv
<1>1. \A i \in DOMAIN d.rt : i # j => d2.rt[i] = d.rt[i]
  OBVIOUS
<1>2. d2.rt[j] = k /\ DOMAIN d2.rt = DOMAIN d.rt
  BY <1>0
<1>3. \A c : IsBlock(d2, c) <=> IsBlock(d, c) \/ c = k
  BY <1>1, <1>2 DEF IsBlock
<1>4. \A c : IsTable(d2, c) <=> IsTable(d, c)
  BY DEF IsTable
<1>5. \A t, i : Leads(d2, t, i) = Leads(d, t, i)
  BY DEF Leads
<1>6. \A c : IsData(d2, c) <=> IsData(d, c)
  BY <1>4, <1>5 DEF IsData
<1>7. \A c : GetRefcount(d.cl[k], c) = 0
  BY DEF GetRefcount, Slot
<1>8. ASSUME NEW c \in Clusters PROVE Refcount(d2, c) = Refcount(d, c)
  <2>1. c \div RcSlots \in DOMAIN d.rt
    BY DEF Geometry
  <2>2. CASE c \div RcSlots = j
    BY <1>2, <1>7, <2>2 DEF Refcount
  <2>3. CASE c \div RcSlots # j
    <3>1. d2.rt[c \div RcSlots] = d.rt[c \div RcSlots]
      BY <1>1, <2>1, <2>3
    <3>2. QED
      BY <3>1 DEF Refcount
  <2>4. QED
    BY <2>2, <2>3
<1>9. \A c : Used(h, d2, c) <=> Used(h, d, c) \/ c = k
  BY <1>3, <1>4, <1>6 DEF Used
<1>10. ContentsOk(d2)
  <2>1. \A b, c \in Clusters : IsBlock(d2, b) => GetRefcount(d2.cl[b], c) \in Nat
    <3> SUFFICES ASSUME NEW b \in Clusters, NEW c \in Clusters, IsBlock(d2, b) PROVE GetRefcount(d.cl[b], c) \in Nat
      OBVIOUS
    <3>1. CASE b = k
      BY <1>7, <3>1
    <3>2. CASE b # k
      BY <1>0, <1>3, <3>2 DEF ContentsOk
    <3>3. QED
      BY <3>1, <3>2
  <2>2. QED
    BY <1>0, <1>4, <1>5, <2>1 DEF ContentsOk
<1>11. Exclusive(h, d2)
  <2>1. \A i, m \in DOMAIN d2.rt : d2.rt[i] = d2.rt[m] /\ d2.rt[i] # 0 => i = m
    <3>1. \A i \in DOMAIN d.rt : d.rt[i] # k
      BY DEF Used, IsBlock
    <3>2. QED
      BY <1>0, <1>1, <1>2, <3>1 DEF Exclusive
  <2>2. \A i, m \in DOMAIN d2.l1 : d2.l1[i] = d2.l1[m] /\ d2.l1[i] # 0 => i = m
    BY <1>0 DEF Exclusive
  <2>3. ASSUME NEW c \in Clusters
        PROVE  /\ ~(IsTable(d2, c) /\ IsBlock(d2, c)) /\ ~(IsTable(d2, c) /\ IsData(d2, c))
               /\ ~(IsBlock(d2, c) /\ IsData(d2, c))
               /\ c \in h.fixed => ~IsTable(d2, c) /\ ~IsBlock(d2, c) /\ ~IsData(d2, c)
               /\ Used(h, d2, c) => c < d2.end
    <3>1. CASE c = k
      BY <1>3, <1>4, <1>6, <3>1 DEF Used
    <3>2. CASE c # k
      BY <1>0, <1>3, <1>4, <1>6, <1>9, <3>2 DEF Exclusive
    <3>3. QED
      BY <3>1, <3>2
  <2>4. \A t, u \in Clusters, i, m \in L2Slots :
          /\ IsTable(d2, t) /\ IsTable(d2, u) /\ Full(Leads(d2, t, i)) /\ Full(Leads(d2, u, m))
          /\ Leads(d2, t, i).at = Leads(d2, u, m).at
          => t = u /\ i = m
    BY <1>0, <1>4, <1>5 DEF Exclusive
  <2>5. QED
    BY <2>1, <2>2, <2>3, <2>4 DEF Exclusive
<1>12. \A t \in Clusters, i \in L2Slots : IsTable(d, t) => Leads(d, t, i).at \in Clusters
  <2> SUFFICES ASSUME NEW t \in Clusters, NEW i \in L2Slots, IsTable(d, t) PROVE Leads(d, t, i).at \in Clusters
    OBVIOUS
  <2>1. Leads(d, t, i) \in EntryType
    BY <1>0 DEF ContentsOk
  <2>2. QED
    BY <2>1 DEF EntryType
<1>13. Counts(h, d2, late \cup {k})
  <2>1. ASSUME NEW c \in Clusters, Used(h, d2, c)
        PROVE  Refcount(d2, c) >= 1 \/ c \in late \cup {k}
    BY <1>0, <1>8, <1>9, <2>1 DEF Counts
  <2>2. ASSUME NEW t \in Clusters, NEW i \in L2Slots, IsTable(d2, t), Full(Leads(d2, t, i)),
               Leads(d2, t, i).copied
        PROVE  Refcount(d2, Leads(d2, t, i).at) = 1 \/ Leads(d2, t, i).at \in late \cup {k}
    BY <1>0, <1>4, <1>5, <1>8, <1>12, <2>2 DEF Counts
  <2>3. QED
    BY <2>1, <2>2 DEF Counts
<1>14. QED
  BY <1>3, <1>4, <1>5, <1>9, <1>10, <1>11, <1>13 DEF FileInv

\* Entries have clusters of the file as their targets.
LEMMA EntryTargets ==
    ASSUME NEW h, NEW d, NEW late, FileInv(h, d, late), NEW t \in Clusters, NEW i \in L2Slots, IsTable(d, t)
    PROVE  /\ Leads(d, t, i) \in EntryType /\ Leads(d, t, i).at \in Clusters
           /\ Full(Leads(d, t, i)) => Leads(d, t, i).at # 0 /\ IsData(d, Leads(d, t, i).at)
<1>1. Leads(d, t, i) \in EntryType /\ (Full(Leads(d, t, i)) => Leads(d, t, i).at # 0)
  BY DEF FileInv, ContentsOk
<1>2. Leads(d, t, i).at \in Clusters
  BY <1>1 DEF EntryType
<1>3. QED
  BY <1>1, <1>2 DEF IsData

\* An entry of an L2 table comes to lead to a cluster that was not used.
LEMMA EntryAdded ==
    ASSUME NEW h, NEW d, NEW d2, NEW late, NEW t \in Clusters, NEW i \in L2Slots, NEW k \in Clusters, NEW e \in EntryType,
           FileInv(h, d, late), Geometry(h, d), FileShape(d2), IsTable(d, t),
           e.at = k, Full(e), k # 0, ~Used(h, d, k), k < d.end,
           d2.l1 = d.l1, d2.rt = d.rt, d2.end = d.end, d2.cl = [d.cl EXCEPT ![t] = With(d.cl[t], i, e)]
    PROVE  /\ FileInv(h, d2, late \cup {k})
           /\ \A c : (IsTable(d2, c) <=> IsTable(d, c)) /\ (IsBlock(d2, c) <=> IsBlock(d, c))
           /\ \A u \in Clusters : \A m : IsTable(d, u) => Leads(d2, u, m) = IF u = t /\ m = i THEN e ELSE Leads(d, u, m)
           /\ \A c : Used(h, d2, c) => Used(h, d, c) \/ c = k
<1>0. FileShape(d) /\ ContentsOk(d) /\ Exclusive(h, d) /\ Counts(h, d, late) /\ DOMAIN d.cl = Clusters
  BY DEF FileInv, FileShape
<1>1. d2.cl[t] = With(d.cl[t], i, e) /\ \A c \in Clusters : c # t => d2.cl[c] = d.cl[c]
  BY <1>0
<1>2. \A c : (IsTable(d2, c) <=> IsTable(d, c)) /\ (IsBlock(d2, c) <=> IsBlock(d, c))
  BY DEF IsTable, IsBlock
<1>3. ASSUME NEW u \in Clusters, NEW m PROVE Leads(d2, u, m) = IF u = t /\ m = i THEN e ELSE Leads(d, u, m)
  <2>1. CASE u # t
    BY <1>1, <2>1 DEF Leads
  <2>2. CASE u = t
    <3>1. DOMAIN With(d.cl[t], i, e) = DOMAIN d.cl[t] \cup {i}
      BY DEF With
    <3>2. m \in DOMAIN With(d.cl[t], i, e) => With(d.cl[t], i, e)[m] = IF m = i THEN e ELSE d.cl[t][m]
      BY DEF With
    <3>3. QED
      BY <1>1, <2>2, <3>1, <3>2 DEF Leads, Slot
  <2>3. QED
    BY <2>1, <2>2
<1>4. ASSUME NEW c, IsData(d2, c) PROVE IsData(d, c) \/ c = k
  BY <1>2, <1>3, <1>4 DEF IsData
<1>5. ASSUME NEW c, Used(h, d2, c) PROVE Used(h, d, c) \/ c = k
  BY <1>2, <1>4, <1>5 DEF Used
<1>6. ~IsBlock(d, t)
  BY <1>0 DEF Exclusive
<1>7. \A b, c \in Clusters : IsBlock(d, b) => GetRefcount(d2.cl[b], c) = GetRefcount(d.cl[b], c)
  BY <1>1, <1>6
<1>8. ASSUME Probe(h) = "qcow2", NEW c \in Clusters PROVE Refcount(d2, c) = Refcount(d, c)
  <2> DEFINE b == d.rt[c \div RcSlots]
  <2>1. c \div RcSlots \in DOMAIN d.rt /\ b \in Clusters
    BY <1>0, <1>8 DEF Geometry, FileShape
  <2>2. b # 0 => IsBlock(d, b)
    BY <2>1 DEF IsBlock
  <2>3. b # 0 => d2.cl[b] = d.cl[b]
    BY <1>1, <1>6, <2>1, <2>2
  <2>4. QED
    BY <2>3 DEF Refcount
<1>9. ContentsOk(d2)
  <2>1. ASSUME NEW u \in Clusters, NEW m \in L2Slots, IsTable(d2, u)
        PROVE  Leads(d2, u, m) \in EntryType /\ (Full(Leads(d2, u, m)) => Leads(d2, u, m).at # 0)
    <3>1. CASE u = t /\ m = i
      BY <1>3, <3>1
    <3>2. CASE ~(u = t /\ m = i)
      BY <1>0, <1>2, <1>3, <2>1, <3>2 DEF ContentsOk
    <3>3. QED
      BY <3>1, <3>2
  <2>2. \A b, c \in Clusters : IsBlock(d2, b) => GetRefcount(d2.cl[b], c) \in Nat
    BY <1>0, <1>2, <1>7 DEF ContentsOk
  <2>3. QED
    BY <2>1, <2>2 DEF ContentsOk
<1>10. ASSUME NEW u \in Clusters, NEW m \in L2Slots, IsTable(d, u), Full(Leads(d2, u, m)), ~(u = t /\ m = i)
       PROVE  /\ Leads(d2, u, m) = Leads(d, u, m) /\ Leads(d, u, m).at # k
              /\ Leads(d, u, m).at \in Clusters
  <2>1. Leads(d2, u, m) = Leads(d, u, m)
    BY <1>3, <1>10
  <2>2. IsData(d, Leads(d, u, m).at) /\ Leads(d, u, m).at \in Clusters
    BY <1>10, <2>1, EntryTargets
  <2>3. QED
    BY <2>1, <2>2 DEF Used
<1>11. Exclusive(h, d2)
  <2>1. \A x, m \in DOMAIN d2.rt : d2.rt[x] = d2.rt[m] /\ d2.rt[x] # 0 => x = m
    BY <1>0 DEF Exclusive
  <2>2. \A x, m \in DOMAIN d2.l1 : d2.l1[x] = d2.l1[m] /\ d2.l1[x] # 0 => x = m
    BY <1>0 DEF Exclusive
  <2>3. ASSUME NEW c \in Clusters
        PROVE  /\ ~(IsTable(d2, c) /\ IsBlock(d2, c)) /\ ~(IsTable(d2, c) /\ IsData(d2, c))
               /\ ~(IsBlock(d2, c) /\ IsData(d2, c))
               /\ c \in h.fixed => ~IsTable(d2, c) /\ ~IsBlock(d2, c) /\ ~IsData(d2, c)
               /\ Used(h, d2, c) => c < d2.end
    <3>1. CASE c = k
      BY <1>2, <3>1 DEF Used
    <3>2. CASE c # k
      <4>1. (IsData(d2, c) => IsData(d, c)) /\ (Used(h, d2, c) => Used(h, d, c))
        BY <1>4, <1>5, <3>2
      <4>2. QED
        BY <1>0, <1>2, <4>1 DEF Exclusive
    <3>3. QED
      BY <3>1, <3>2
  <2>4. ASSUME NEW u \in Clusters, NEW w \in Clusters, NEW x \in L2Slots, NEW m \in L2Slots,
               IsTable(d2, u), IsTable(d2, w), Full(Leads(d2, u, x)), Full(Leads(d2, w, m)),
               Leads(d2, u, x).at = Leads(d2, w, m).at
        PROVE  u = w /\ x = m
    <3>1. IsTable(d, u) /\ IsTable(d, w)
      BY <1>2, <2>4
    <3>2. CASE u = t /\ x = i
      <4>1. Leads(d2, u, x).at = k
        BY <1>3, <3>2
      <4>2. QED
        BY <1>10, <2>4, <3>1, <3>2, <4>1
    <3>3. CASE w = t /\ m = i
      <4>1. Leads(d2, w, m).at = k
        BY <1>3, <3>3
      <4>2. QED
        BY <1>10, <2>4, <3>1, <3>3, <4>1
    <3>4. CASE ~(u = t /\ x = i) /\ ~(w = t /\ m = i)
      <4>1. Leads(d2, u, x) = Leads(d, u, x) /\ Leads(d2, w, m) = Leads(d, w, m)
        BY <1>3, <3>4
      <4>2. QED
        BY <1>0, <2>4, <3>1, <4>1 DEF Exclusive
    <3>5. QED
      BY <3>2, <3>3, <3>4
  <2>5. QED
    BY <2>1, <2>2, <2>3, <2>4 DEF Exclusive
<1>12. Counts(h, d2, late \cup {k})
  <2>1. ASSUME Probe(h) = "qcow2", NEW c \in Clusters, Used(h, d2, c)
        PROVE  Refcount(d2, c) >= 1 \/ c \in late \cup {k}
    BY <1>0, <1>5, <1>8, <2>1 DEF Counts
  <2>2. ASSUME Probe(h) = "qcow2", NEW u \in Clusters, NEW m \in L2Slots, IsTable(d2, u), Full(Leads(d2, u, m)),
               Leads(d2, u, m).copied
        PROVE  Refcount(d2, Leads(d2, u, m).at) = 1 \/ Leads(d2, u, m).at \in late \cup {k}
    <3>1. CASE u = t /\ m = i
      BY <1>3, <3>1
    <3>2. CASE ~(u = t /\ m = i)
      <4>1. IsTable(d, u)
        BY <1>2, <2>2
      <4>2. Leads(d2, u, m) = Leads(d, u, m) /\ Leads(d, u, m).at \in Clusters
        BY <1>10, <2>2, <3>2, <4>1
      <4>3. Refcount(d, Leads(d, u, m).at) = 1 \/ Leads(d, u, m).at \in late
        BY <1>0, <2>2, <4>1, <4>2 DEF Counts
      <4>4. QED
        BY <1>8, <2>2, <4>2, <4>3
    <3>3. QED
      BY <3>1, <3>2
  <2>3. QED
    BY <2>1, <2>2 DEF Counts
<1>13. QED
  BY <1>2, <1>3, <1>5, <1>9, <1>11, <1>12 DEF FileInv

\* A cluster is counted.
LEMMA CountOne ==
    ASSUME NEW h, NEW d, NEW d2, NEW late, NEW late2, NEW x \in Clusters,
           FileInv(h, d, late), Geometry(h, d), FileShape(d2), Probe(h) = "qcow2",
           d.rt[x \div RcSlots] # 0, late \subseteq late2 \cup {x},
           d2.l1 = d.l1, d2.rt = d.rt, d2.end = d.end,
           d2.cl = [d.cl EXCEPT ![d.rt[x \div RcSlots]] = SetRefcount(d.cl[d.rt[x \div RcSlots]], x)]
    PROVE  FileInv(h, d2, late2)
<1> DEFINE b == d.rt[x \div RcSlots]
<1>0. FileShape(d) /\ ContentsOk(d) /\ Exclusive(h, d) /\ Counts(h, d, late) /\ DOMAIN d.cl = Clusters
  BY DEF FileInv, FileShape
<1>1. b \in Clusters /\ IsBlock(d, b) /\ ~IsTable(d, b) /\ x \div RcSlots \in DOMAIN d.rt
  <2>1. x \div RcSlots \in DOMAIN d.rt
    BY DEF Geometry
  <2>2. b \in Clusters /\ IsBlock(d, b)
    BY <1>0, <2>1 DEF FileShape, IsBlock
  <2>3. QED
    BY <1>0, <2>1, <2>2 DEF Exclusive
<1>2. d2.cl[b] = SetRefcount(d.cl[b], x) /\ \A c \in Clusters : c # b => d2.cl[c] = d.cl[c]
  BY <1>0, <1>1
<1> HIDE DEF b
<1>3. \A c : (IsTable(d2, c) <=> IsTable(d, c)) /\ (IsBlock(d2, c) <=> IsBlock(d, c))
  BY DEF IsTable, IsBlock
<1>4. \A t \in Clusters : \A i : IsTable(d, t) => Leads(d2, t, i) = Leads(d, t, i)
  BY <1>1, <1>2 DEF Leads
<1>5. \A c : IsData(d2, c) <=> IsData(d, c)
  BY <1>3, <1>4 DEF IsData
<1>6. \A c : Used(h, d2, c) <=> Used(h, d, c)
  BY <1>3, <1>5 DEF Used
<1>7. \A c : GetRefcount(SetRefcount(d.cl[b], x), c) = IF c % RcSlots = x % RcSlots THEN 1 ELSE GetRefcount(d.cl[b], c)
  <2>1. DOMAIN SetRefcount(d.cl[b], x) = DOMAIN d.cl[b] \cup {x % RcSlots}
    BY DEF SetRefcount, With
  <2>2. \A m \in DOMAIN SetRefcount(d.cl[b], x) :
          SetRefcount(d.cl[b], x)[m] = IF m = x % RcSlots THEN 1 ELSE d.cl[b][m]
    BY DEF SetRefcount, With
  <2>3. QED
    BY <2>1, <2>2 DEF GetRefcount, Slot
<1>8. Refcount(d2, x) = 1
  BY <1>2, <1>7 DEF Refcount, b
<1>9. ASSUME NEW c \in Clusters, c # x PROVE Refcount(d2, c) = Refcount(d, c)
  <2> DEFINE a == d.rt[c \div RcSlots]
  <2>1. c \div RcSlots \in DOMAIN d.rt
    BY DEF Geometry
  <2>2. a \in Clusters
    BY <1>0, <2>1 DEF FileShape
  <2>3. CASE a # b
    <3>1. d2.cl[a] = d.cl[a]
      BY <1>2, <2>2, <2>3
    <3>2. QED
      BY <3>1 DEF Refcount
  <2>4. CASE a = b
    <3>1. c \div RcSlots = x \div RcSlots
      BY <1>0, <1>1, <2>1, <2>4 DEF Exclusive, b
    <3>2. c \in Nat /\ x \in Nat /\ RcSlots \in Nat \ {0}
      BY QcowAssumption DEF Clusters
    <3>3. c % RcSlots # x % RcSlots
      BY <1>9, <3>1, <3>2, DivModUnique
    <3>4. GetRefcount(d2.cl[a], c) = GetRefcount(d.cl[a], c)
      BY <1>2, <1>7, <2>4, <3>3
    <3>5. QED
      BY <3>4 DEF Refcount
  <2>5. QED
    BY <2>3, <2>4
<1>10. ContentsOk(d2)
  <2>1. ASSUME NEW a \in Clusters, NEW c \in Clusters, IsBlock(d2, a) PROVE GetRefcount(d2.cl[a], c) \in Nat
    <3>1. IsBlock(d, a) /\ GetRefcount(d.cl[a], c) \in Nat
      BY <1>0, <1>3, <2>1 DEF ContentsOk
    <3>2. CASE a = b
      BY <1>2, <1>7, <3>1, <3>2
    <3>3. CASE a # b
      BY <1>2, <3>1, <3>3
    <3>4. QED
      BY <3>2, <3>3
  <2>2. QED
    BY <1>0, <1>3, <1>4, <2>1 DEF ContentsOk
<1>11. Exclusive(h, d2)
  BY <1>0, <1>3, <1>4, <1>5, <1>6 DEF Exclusive
<1>12. Counts(h, d2, late2)
  <2>1. ASSUME NEW c \in Clusters, Used(h, d2, c) PROVE Refcount(d2, c) >= 1 \/ c \in late2
    BY <1>0, <1>6, <1>8, <1>9, <2>1 DEF Counts
  <2>2. ASSUME NEW t \in Clusters, NEW i \in L2Slots, IsTable(d2, t), Full(Leads(d2, t, i)), Leads(d2, t, i).copied
        PROVE  Refcount(d2, Leads(d2, t, i).at) = 1 \/ Leads(d2, t, i).at \in late2
    <3>1. IsTable(d, t) /\ Leads(d2, t, i) = Leads(d, t, i)
      BY <1>3, <1>4, <2>2
    <3>2. Leads(d, t, i).at \in Clusters
      BY <3>1, EntryTargets
    <3>3. Refcount(d, Leads(d, t, i).at) = 1 \/ Leads(d, t, i).at \in late
      BY <1>0, <2>2, <3>1 DEF Counts
    <3>4. QED
      BY <1>8, <1>9, <3>1, <3>2, <3>3
  <2>3. QED
    BY <2>1, <2>2 DEF Counts
<1>13. QED
  BY <1>10, <1>11, <1>12 DEF FileInv

\* A cluster that is about to be counted may be counted as one.
LEMMA LateMore ==
    ASSUME NEW h, NEW d, NEW late, NEW late2, FileInv(h, d, late), late \subseteq late2 \/ Probe(h) # "qcow2"
    PROVE  FileInv(h, d, late2)
<1>1. Counts(h, d, late2)
  BY DEF FileInv, Counts
<1>2. QED
  BY <1>1 DEF FileInv

\* The device has the size of its L1 table.
LEMMA GeometryFrame ==
    ASSUME NEW h, NEW d, NEW d2, DOMAIN d2.l1 = DOMAIN d.l1, DOMAIN d2.rt = DOMAIN d.rt
    PROVE  SectorsOf(d2) = SectorsOf(d) /\ (Geometry(h, d) => Geometry(h, d2))
<1>1. SectorsOf(d2) = SectorsOf(d)
  BY DEF SectorsOf
<1>2. QED
  BY <1>1 DEF Geometry

-----------------------------------------------------------------------------
(* What sectors read as.                                                   *)

\* The entry of a sector.
LEMMA OfSector ==
    ASSUME NEW h, NEW d, NEW late, FileInv(h, d, late), NEW s \in SectorsOf(d)
    PROVE  /\ Of(d, s) \in EntryType /\ Of(d, s).at \in Clusters
           /\ Table(d, s) \in Clusters /\ (Table(d, s) # 0 => IsTable(d, Table(d, s)))
           /\ Full(Of(d, s)) => Table(d, s) # 0 /\ Of(d, s).at # 0 /\ IsData(d, Of(d, s).at)
<1> DEFINE v == s \div ClusterSectors
<1>1. v \div L2Size \in DOMAIN d.l1 /\ Table(d, s) \in Clusters /\ v % L2Size \in L2Slots
  BY SectorIndex DEF FileInv
<1>2. CASE Table(d, s) = 0
  <2>1. Of(d, s) = NoEntry
    BY <1>2 DEF Of
  <2>2. NoEntry \in EntryType /\ NoEntry.at \in Clusters /\ ~Full(NoEntry)
    BY QcowAssumption DEF NoEntry, EntryType, Full, Clusters
  <2>3. QED
    BY <1>1, <1>2, <2>1, <2>2
<1>3. CASE Table(d, s) # 0
  <2>1. IsTable(d, Table(d, s))
    BY <1>1, <1>3 DEF IsTable, Table
  <2>2. Of(d, s) = Leads(d, Table(d, s), v % L2Size)
    BY <1>3 DEF Of
  <2>3. QED
    BY <1>1, <1>3, <2>1, <2>2, EntryTargets
<1>4. QED
  BY <1>2, <1>3

\* Sectors that are read from the same cluster of the file belong together.
LEMMA OneSource ==
    ASSUME NEW h, NEW d, NEW late, FileInv(h, d, late), NEW s \in SectorsOf(d), NEW z \in SectorsOf(d),
           Full(Of(d, s)), Full(Of(d, z)), Of(d, s).at = Of(d, z).at
    PROVE  s \div ClusterSectors = z \div ClusterSectors
<1> DEFINE v == s \div ClusterSectors
           w == z \div ClusterSectors
<1>1. /\ v \in Nat /\ v \div L2Size \in DOMAIN d.l1 /\ v % L2Size \in L2Slots
      /\ w \in Nat /\ w \div L2Size \in DOMAIN d.l1 /\ w % L2Size \in L2Slots
  BY SectorIndex DEF FileInv
<1>2. /\ Table(d, s) \in Clusters /\ Table(d, s) # 0 /\ IsTable(d, Table(d, s))
      /\ Table(d, z) \in Clusters /\ Table(d, z) # 0 /\ IsTable(d, Table(d, z))
  BY OfSector
<1>3. Of(d, s) = Leads(d, Table(d, s), v % L2Size) /\ Of(d, z) = Leads(d, Table(d, z), w % L2Size)
  BY <1>2 DEF Of
<1>4. Table(d, s) = Table(d, z) /\ v % L2Size = w % L2Size
  BY <1>1, <1>2, <1>3 DEF FileInv, Exclusive
<1>5. v \div L2Size = w \div L2Size
  BY <1>1, <1>2, <1>4 DEF FileInv, Exclusive, Table
<1> HIDE DEF v, w
<1>6. QED
  <2>1. L2Size \in Nat \ {0}
    BY QcowAssumption
  <2>2. v = w
    BY <1>1, <1>4, <1>5, <2>1, DivModUnique
  <2>3. QED
    BY <2>2 DEF v, w

\* A sector whose entry and whose cluster are the same reads the same.
LEMMA ReadsSame ==
    ASSUME NEW h, NEW d, NEW d2, NEW s, Probe(h) # "raw", Of(d, s) \in EntryType, Of(d2, s) = Of(d, s),
           Full(Of(d, s)) => d2.cl[Of(d, s).at] = d.cl[Of(d, s).at]
    PROVE  Reads(h, d2, s) = Reads(h, d, s)
<1>1. Of(d, s).kind \in {"none", "zero"} \/ Full(Of(d, s))
  BY DEF EntryType, Full
<1>2. CASE Of(d, s).kind \in {"none", "zero"}
  BY <1>2 DEF Reads
<1>3. CASE Full(Of(d, s))
  BY <1>3 DEF Reads, Stored
<1>4. QED
  BY <1>1, <1>2, <1>3

\* Clusters that are neither tables nor data may change.
LEMMA ReadsFrame ==
    ASSUME NEW h, NEW d, NEW d2, NEW late, FileInv(h, d, late), Probe(h) # "raw", d2.l1 = d.l1,
           \A c \in Clusters : IsTable(d, c) \/ IsData(d, c) => d2.cl[c] = d.cl[c]
    PROVE  \A s \in SectorsOf(d) : Reads(h, d2, s) = Reads(h, d, s) /\ Of(d2, s) = Of(d, s)
<1> SUFFICES ASSUME NEW s \in SectorsOf(d) PROVE Reads(h, d2, s) = Reads(h, d, s) /\ Of(d2, s) = Of(d, s)
  OBVIOUS
<1>1. /\ Of(d, s) \in EntryType /\ Of(d, s).at \in Clusters
      /\ Table(d, s) \in Clusters /\ (Table(d, s) # 0 => IsTable(d, Table(d, s)))
      /\ Full(Of(d, s)) => IsData(d, Of(d, s).at)
  BY OfSector
<1>2. Of(d2, s) = Of(d, s)
  BY <1>1 DEF Of, Table, Leads
<1>3. QED
  BY <1>1, <1>2, ReadsSame

PartOfPiece(P) == P \subseteq Piece

\* Writing a part of the piece of a request that lies in a cluster changes its
\* sectors only.
LEMMA PieceWritten ==
    ASSUME cmd.at \in Nat, cmd.end \in Nat, cmd.at < cmd.end, NEW P, PartOfPiece(P),
           NEW t, NEW top, \A m : m \in DOMAIN top <=> \E z \in P : m = z % ClusterSectors,
           \A i \in DOMAIN top : top[i] = cmd.val,
           NEW s \in Nat, s \div ClusterSectors = VCluster
    PROVE  Slot(Over(top, t), s % ClusterSectors, "zero") = IF s \in P THEN cmd.val ELSE Slot(t, s % ClusterSectors, "zero")
<1> DEFINE m == s % ClusterSectors
           S == DOMAIN top
           v == cmd.val
<1>1. m \in S <=> s \in P
  <2>1. ASSUME NEW z \in P, z % ClusterSectors = m PROVE s \in P
    <3>1. z \in cmd.at .. cmd.end - 1 /\ z \div ClusterSectors = VCluster
      BY PieceRange DEF PartOfPiece
    <3>2. z \in Nat /\ ClusterSectors \in Nat \ {0}
      BY <3>1, QcowAssumption
    <3>3. z = s
      BY <2>1, <3>1, <3>2, DivModUnique
    <3>4. QED
      BY <3>3
  <2>2. QED
    BY <2>1
<1> HIDE DEF m
<1>2. DOMAIN Over(top, t) = S \cup DOMAIN t
  BY DEF Over
<1>3. \A j \in S \cup DOMAIN t : Over(top, t)[j] = IF j \in S THEN v ELSE t[j]
  BY DEF Over
<1>4. Slot(Over(top, t), m, "zero") = IF s \in P THEN v ELSE Slot(t, m, "zero")
  BY <1>1, <1>2, <1>3 DEF Slot
<1>5. QED
  BY <1>4 DEF m

\* Sectors before a cluster's first one belong to other clusters.
LEMMA EarlierCluster ==
    ASSUME NEW a \in Nat, NEW s \in Nat, a % ClusterSectors = 0, s < a
    PROVE  s \div ClusterSectors # a \div ClusterSectors
<1> DEFINE b == ClusterSectors
<1>1. b \in Nat \ {0}
  BY QcowAssumption
<1>2. a = b * (a \div b) + (a % b) /\ s = b * (s \div b) + (s % b) /\ s % b \in 0 .. b - 1
  BY <1>1, DivMod
<1>3. SUFFICES ASSUME s \div b = a \div b PROVE FALSE
  OBVIOUS
<1>4. s = b * (a \div b) + (s % b) /\ a = b * (a \div b)
  <2>1. b * (a \div b) \in Int
    BY <1>1
  <2>2. QED
    BY <1>2, <1>3, <2>1
<1>5. QED
  BY <1>2, <1>4

-----------------------------------------------------------------------------
(* The command under way.                                                  *)

CmdShape ==
    /\ DOMAIN cmd = CmdFields /\ cmd.at \in cmd.from .. cmd.end /\ DOMAIN cmd.buf \subseteq Sectors /\ cmd.ok \in BOOLEAN
    /\ {cmd.l2, cmd.new, cmd.rb} \subseteq 0 .. FileClusters - 1 /\ cmd.scan \in 0 .. FileClusters
RestShape ==
    /\ dev \in {"closed", "open", "refused"} /\ cmds \in 0 .. MaxCmds /\ restarts \in 0 .. MaxRestarts
    /\ mem.free \in 0 .. FileClusters /\ DOMAIN truth = Sectors
    /\ FileShape(disk) /\ Geometry(image, disk)
    /\ DOMAIN mem = MemFields
    /\ dev # "open" => mem = Closed
    /\ dev = "open" => Probe(image) \in {"raw", "qcow", "qcow2"}

\* The two parts make up the shape of the state.
LEMMA ShapeParts == Shape <=> CmdShape /\ RestShape
<1>1. ASSUME FileShape(disk) PROVE disk.end \in 0 .. FileClusters /\ DOMAIN disk.cl = 0 .. FileClusters - 1
  BY <1>1, QcowAssumption DEF FileShape, Clusters
<1>2. QED
  BY <1>1 DEF Shape, TypeOK, CmdShape, RestShape

\* The same after a step.
LEMMA ShapePartsNext == ASSUME CmdShape', RestShape' PROVE Shape'
<1>1. FileShape(disk')
  BY DEF RestShape
<1>2. disk'.end \in 0 .. FileClusters /\ DOMAIN disk'.cl = 0 .. FileClusters - 1
  BY <1>1, QcowAssumption DEF FileShape, Clusters
<1>3. QED
  BY <1>1, <1>2 DEF Shape, TypeOK, CmdShape, RestShape

\* Steps of a command leave most of the state alone.
LEMMA RestShapeFrame ==
    ASSUME RestShape, Still, truth' = truth, disk' = disk, DOMAIN mem' = MemFields, mem'.free = mem.free, dev = "open"
    PROVE  RestShape'
  BY DEF RestShape, Still, Sectors

\* The device has whole sectors.
LEMMA SectorRange ==
    ASSUME FileShape(disk), NEW e \in Nat, e - 1 \in Sectors
    PROVE  \A s \in Nat : s < e => s \in Sectors
<1> DEFINE n == Cardinality(DOMAIN disk.l1)
<1>1. n \in Nat
  BY FS_CardinalityType DEF FileShape
<1>2. n * L2Size * ClusterSectors \in Nat
  BY <1>1, QcowAssumption
<1>3. Sectors = 0 .. n * L2Size * ClusterSectors - 1
  BY DEF Sectors, SectorsOf
<1>4. QED
  BY <1>2, <1>3

\* Where a command that is under way stands.
LEMMA Under ==
    ASSUME QcowInv, Sound, cmd.pc \in PCs \ {"idle", "done"}
    PROVE  /\ Shape /\ SoundInv /\ CmdShape /\ RestShape
           /\ dev = "open" /\ mem.l1 = disk.l1 /\ mem.rt = disk.rt
           /\ cmd.at \in Nat /\ cmd.end \in Nat /\ cmd.from \in Nat /\ cmd.from <= cmd.at /\ cmd.at < cmd.end
           /\ Format \in {"raw", "qcow", "qcow2"} /\ cmd.op \in {"read", "write"}
           /\ \A s \in Nat : s < cmd.end => s \in Sectors
           /\ cmd.at \in Sectors /\ VCluster \in Nat
<1>1. Shape /\ SoundInv /\ CmdShape /\ RestShape
  BY ShapeParts DEF QcowInv
<1>2. RangeInv /\ CacheInv
  BY <1>1 DEF SoundInv
<1>3. dev = "open"
  BY <1>2 DEF RangeInv, Idle
<1>4. mem.l1 = disk.l1 /\ mem.rt = disk.rt
  BY <1>2, <1>3 DEF CacheInv
<1>5. /\ cmd.end \in Nat /\ cmd.from \in Nat /\ cmd.at < cmd.end /\ cmd.end - 1 \in Sectors
      /\ Format \in {"raw", "qcow", "qcow2"} /\ cmd.op \in {"read", "write"}
  BY <1>2 DEF RangeInv
<1>6. cmd.at \in Nat /\ cmd.from <= cmd.at
  BY <1>1, <1>5 DEF CmdShape
<1>7. \A s \in Nat : s < cmd.end => s \in Sectors
  BY <1>1, <1>5, SectorRange DEF RestShape
<1>8. VCluster \in Nat
  BY <1>6, QcowAssumption DEF VCluster
<1>9. QED
  BY <1>1, <1>3, <1>4, <1>5, <1>6, <1>7, <1>8

\* The tables on the way to the cluster at hand.
LEMMA OnTheWay ==
    ASSUME QcowInv, Sound, cmd.pc \in PCs \ {"idle", "done"}
    PROVE  /\ Index \in DOMAIN disk.l1 /\ disk.l1[Index] \in Clusters /\ Within \in L2Slots
           /\ \A s : s \div ClusterSectors = VCluster =>
                /\ \A d : Table(d, s) = d.l1[Index]
                /\ (s \div ClusterSectors) % L2Size = Within
<1>1. FileShape(disk) /\ cmd.at \in SectorsOf(disk)
  BY Under DEF RestShape, Sectors
<1>2. Index \in DOMAIN disk.l1 /\ disk.l1[Index] \in Clusters /\ Within \in L2Slots
  BY <1>1, SectorIndex DEF Index, Within, VCluster, Table
<1>3. ASSUME NEW s, s \div ClusterSectors = VCluster
      PROVE  (\A d : Table(d, s) = d.l1[Index]) /\ (s \div ClusterSectors) % L2Size = Within
  BY <1>3 DEF Table, Index, Within
<1>4. QED
  BY <1>2, <1>3

\* Between allocations nothing is claimed of tables.
LEMMA Settled ==
    ASSUME cmd'.pc \in {"idle", "l1", "done"} \/ (cmd'.pc = "data" /\ Format' = "raw"), cmd'.rc = << >>
    PROVE  PathInv' /\ AllocInv' /\ Late' = {}
<1>1. /\ cmd'.pc \notin {"l2", "inflate", "scan", "alloc", "l1update", "l2update", "count", "rcupdate"}
      /\ cmd'.pc = "data" => Format' = "raw"
  OBVIOUS
<1>2. ~InCounting' /\ \A w : ~Allocating(w)'
  BY <1>1 DEF InCounting, Allocating
<1>3. Late' = {}
  BY DEF Late
<1>4. PathInv'
  BY <1>1, <1>2 DEF PathInv
<1>5. AllocInv'
  BY <1>1, <1>2, <1>3 DEF AllocInv
<1>6. QED
  BY <1>3, <1>4, <1>5

\* What "on to the rest" does to the command.
LEMMA OnwardEffect ==
    ASSUME DOMAIN cmd = CmdFields, NEW more, NEW lost, Onward(more, lost)
    PROVE  /\ DOMAIN cmd' = CmdFields /\ cmd'.at = PieceEnd /\ cmd'.buf = Over(more, cmd.buf) /\ cmd'.lost = cmd.lost \cup lost
           /\ cmd'.pc = IF PieceEnd = cmd.end THEN "done" ELSE IF Format = "raw" THEN "data" ELSE "l1"
           /\ cmd'.op = cmd.op /\ cmd'.end = cmd.end /\ cmd'.from = cmd.from /\ cmd'.val = cmd.val
           /\ cmd'.l2 = cmd.l2 /\ cmd'.new = cmd.new /\ cmd'.rb = cmd.rb /\ cmd'.scan = cmd.scan
           /\ cmd'.rc = cmd.rc /\ cmd'.ok = cmd.ok
  BY DEF Onward, CmdFields

\* What failing does to it.
LEMMA FailEffect ==
    ASSUME DOMAIN cmd = CmdFields, Fail
    PROVE  /\ DOMAIN cmd' = CmdFields /\ cmd'.at = cmd.at /\ cmd'.buf = cmd.buf /\ cmd'.lost = cmd.lost
           /\ cmd'.pc = "done" /\ cmd'.ok = FALSE
           /\ cmd'.op = cmd.op /\ cmd'.end = cmd.end /\ cmd'.from = cmd.from /\ cmd'.val = cmd.val
           /\ cmd'.l2 = cmd.l2 /\ cmd'.new = cmd.new /\ cmd'.rb = cmd.rb /\ cmd'.scan = cmd.scan
           /\ cmd'.rc = cmd.rc
  BY DEF Fail, CmdFields

\* Before a table leads to a new cluster there is nothing to be counted.
LEMMA NothingLate ==
    ASSUME AllocInv, ~InCounting
    PROVE  cmd.rc = << >> /\ Late = {}
  BY DEF AllocInv, Late

\* On to the rest of the request.
LEMMA OnwardStep ==
    ASSUME QcowInv, Sound, cmd.pc \in {"l1", "l2", "inflate", "data"}, NEW more, NEW lost, Onward(more, lost), DOMAIN more \subseteq Piece,
           Still, SectorsOf(disk') = SectorsOf(disk)
    PROVE  CmdShape' /\ RangeInv' /\ PathInv' /\ AllocInv' /\ Late' = {} /\ Late = {}
<1>1. /\ Shape /\ SoundInv /\ CmdShape /\ RestShape
      /\ dev = "open" /\ mem.l1 = disk.l1 /\ mem.rt = disk.rt
      /\ cmd.at \in Nat /\ cmd.end \in Nat /\ cmd.from \in Nat /\ cmd.from <= cmd.at /\ cmd.at < cmd.end
      /\ Format \in {"raw", "qcow", "qcow2"} /\ cmd.op \in {"read", "write"}
      /\ \A s \in Nat : s < cmd.end => s \in Sectors
  BY Under DEF PCs
<1>2. RangeInv /\ AllocInv
  BY <1>1 DEF SoundInv
<1>3. /\ DOMAIN cmd' = CmdFields /\ cmd'.at = PieceEnd /\ cmd'.buf = Over(more, cmd.buf) /\ cmd'.lost = cmd.lost \cup lost
      /\ cmd'.pc = IF PieceEnd = cmd.end THEN "done" ELSE IF Format = "raw" THEN "data" ELSE "l1"
      /\ cmd'.op = cmd.op /\ cmd'.end = cmd.end /\ cmd'.from = cmd.from /\ cmd'.val = cmd.val
      /\ cmd'.l2 = cmd.l2 /\ cmd'.new = cmd.new /\ cmd'.rb = cmd.rb /\ cmd'.scan = cmd.scan
      /\ cmd'.rc = cmd.rc /\ cmd'.ok = cmd.ok
  BY <1>1, OnwardEffect DEF CmdShape
<1>4. /\ PieceEnd \in cmd.at + 1 .. cmd.end /\ (PieceEnd = cmd.end \/ PieceEnd % ClusterSectors = 0)
      /\ \A s \in Piece : s \in cmd.at .. cmd.end - 1
  BY <1>1, PieceRange
<1>5. Format' = Format /\ Sectors' = Sectors /\ dev' = dev
  BY DEF Still, Format, Sectors
<1>6. cmd.rc = << >> /\ Late = {}
  <2>1. ~InCounting
    BY DEF InCounting, Allocating
  <2>2. QED
    BY <1>2, <2>1, NothingLate
<1>7. cmd'.pc \in {"idle", "l1", "done"} \/ (cmd'.pc = "data" /\ Format' = "raw")
  BY <1>3, <1>5
<1>8. PathInv' /\ AllocInv' /\ Late' = {}
  BY <1>3, <1>6, <1>7, Settled
<1>9. CmdShape'
  <2>1. DOMAIN cmd'.buf \subseteq Sectors
    <3>1. DOMAIN cmd'.buf = DOMAIN more \cup DOMAIN cmd.buf
      BY <1>3 DEF Over
    <3>2. Piece \subseteq Sectors
      <4> SUFFICES ASSUME NEW s \in Piece PROVE s \in Sectors
        OBVIOUS
      <4>1. s \in Nat /\ s < cmd.end
        BY <1>1, <1>4
      <4>2. QED
        BY <1>1, <4>1
    <3>3. QED
      BY <1>1, <3>1, <3>2 DEF CmdShape
  <2>2. cmd'.at \in cmd'.from .. cmd'.end
    BY <1>1, <1>3, <1>4
  <2>3. QED
    BY <1>1, <1>3, <1>5, <2>1, <2>2 DEF CmdShape
<1>10. RangeInv'
  <2>1. cmd'.end - 1 \in Sectors' /\ cmd'.from \in Nat /\ cmd'.end \in Nat
    BY <1>2, <1>3, <1>5, <1>1 DEF RangeInv
  <2>2. cmd'.pc # "done" => cmd'.at < cmd'.end
    BY <1>1, <1>3, <1>4
  <2>3. cmd'.pc = "done" => cmd'.at = cmd'.end
    BY <1>3
  <2>4. cmd'.at = cmd'.from \/ cmd'.at = cmd'.end \/ cmd'.at % ClusterSectors = 0
    BY <1>3, <1>4
  <2>5. cmd'.rc \in Seq(1 .. FileClusters - 1) /\ cmd'.pc \in PCs /\ cmd'.pc # "idle"
    BY <1>2, <1>3 DEF RangeInv, PCs
  <2>6. Format' = "raw" => cmd'.pc \in {"data", "done"}
    BY <1>3, <1>5
  <2>7. QED
    BY <1>1, <1>3, <1>5, <1>7, <2>1, <2>2, <2>3, <2>4, <2>5, <2>6 DEF RangeInv
<1>11. QED
  BY <1>6, <1>8, <1>9, <1>10

\* The command fails before a table leads to a new cluster.
LEMMA FailStep ==
    ASSUME QcowInv, Sound, cmd.pc \in PCs \ {"idle", "done"}, ~InCounting, Fail, Still, SectorsOf(disk') = SectorsOf(disk)
    PROVE  CmdShape' /\ RangeInv' /\ PathInv' /\ AllocInv' /\ Late' = {} /\ Late = {}
<1>1. /\ Shape /\ SoundInv /\ CmdShape /\ RestShape
      /\ dev = "open" /\ mem.l1 = disk.l1 /\ mem.rt = disk.rt
      /\ cmd.at \in Nat /\ cmd.end \in Nat /\ cmd.from \in Nat /\ cmd.from <= cmd.at /\ cmd.at < cmd.end
      /\ Format \in {"raw", "qcow", "qcow2"} /\ cmd.op \in {"read", "write"}
  BY Under
<1>2. RangeInv /\ AllocInv
  BY <1>1 DEF SoundInv
<1>3. /\ DOMAIN cmd' = CmdFields /\ cmd'.at = cmd.at /\ cmd'.buf = cmd.buf /\ cmd'.lost = cmd.lost
      /\ cmd'.pc = "done" /\ cmd'.ok = FALSE
      /\ cmd'.op = cmd.op /\ cmd'.end = cmd.end /\ cmd'.from = cmd.from /\ cmd'.val = cmd.val
      /\ cmd'.l2 = cmd.l2 /\ cmd'.new = cmd.new /\ cmd'.rb = cmd.rb /\ cmd'.scan = cmd.scan
      /\ cmd'.rc = cmd.rc
  BY <1>1, FailEffect DEF CmdShape
<1>4. Format' = Format /\ Sectors' = Sectors /\ dev' = dev
  BY DEF Still, Format, Sectors
<1>5. cmd.rc = << >> /\ Late = {}
  BY <1>2, NothingLate
<1>6. PathInv' /\ AllocInv' /\ Late' = {}
  BY <1>3, <1>5, Settled
<1>7. CmdShape'
  BY <1>1, <1>3, <1>4 DEF CmdShape
<1>8. RangeInv'
  BY <1>1, <1>2, <1>3, <1>4 DEF RangeInv, PCs
<1>9. QED
  BY <1>5, <1>6, <1>7, <1>8

\* A step that leaves the range of the command alone.
SameRange ==
    /\ cmd'.op = cmd.op /\ cmd'.end = cmd.end /\ cmd'.from = cmd.from /\ cmd'.at = cmd.at
    /\ cmd'.val = cmd.val /\ cmd'.buf = cmd.buf /\ cmd'.lost = cmd.lost /\ cmd'.ok = cmd.ok

\* It keeps the range.
LEMMA MoveRange ==
    ASSUME QcowInv, Sound, cmd.pc \in PCs \ {"idle", "done"}, Format # "raw", SameRange, Still,
           SectorsOf(disk') = SectorsOf(disk), cmd'.pc \in PCs \ {"idle", "done"}, cmd'.rc \in Seq(1 .. FileClusters - 1),
           cmd'.pc \in {"scan", "alloc", "l1update", "l2update", "count", "rcupdate"} => cmd.op = "write"
    PROVE  RangeInv' /\ Index' = Index /\ Within' = Within /\ VCluster' = VCluster
<1>1. /\ SoundInv /\ dev = "open" /\ cmd.at \in Nat /\ cmd.end \in Nat /\ cmd.from \in Nat /\ cmd.at < cmd.end
      /\ Format \in {"raw", "qcow", "qcow2"} /\ cmd.op \in {"read", "write"}
  BY Under
<1>2. RangeInv
  BY <1>1 DEF SoundInv
<1>3. Format' = Format /\ Sectors' = Sectors /\ dev' = dev
  BY DEF Still, Format, Sectors
<1>4. RangeInv'
  BY <1>1, <1>2, <1>3 DEF RangeInv, SameRange
<1>5. VCluster' = VCluster
  BY DEF VCluster, SameRange
<1>6. QED
  BY <1>4, <1>5 DEF Index, Within

\* It also keeps what is known of the contents if sectors read the same.
LEMMA KeepTruth ==
    ASSUME QcowInv, Sound, cmd.pc \in PCs \ {"idle", "done"}, Still, truth' = truth, SectorsOf(disk') = SectorsOf(disk),
           cmd'.op = cmd.op, cmd'.end = cmd.end, cmd'.from = cmd.from, cmd'.at = cmd.at,
           cmd'.val = cmd.val, cmd'.buf = cmd.buf /\ cmd'.lost = cmd.lost, cmd'.pc # "l2update",
           \A s \in Sectors : Reads(image, disk', s) = Reads(image, disk, s)
    PROVE  TruthInv'
<1>1. /\ SoundInv /\ cmd.at \in Nat /\ cmd.end \in Nat /\ cmd.from \in Nat /\ cmd.at < cmd.end
      /\ \A s \in Nat : s < cmd.end => s \in Sectors
  BY Under
<1>2. TruthInv
  BY <1>1 DEF SoundInv
<1>3. image' = image /\ Sectors' = Sectors
  BY DEF Still, Sectors
<1>4. \A s \in cmd.from .. cmd.at - 1 : s \in Sectors
  BY <1>1
<1>5. \A s \in Sectors' : Reads(image', disk', s) \in truth'[s]
  BY <1>2, <1>3 DEF TruthInv
<1>6. cmd'.op = "write" => /\ \A s \in cmd'.from .. cmd'.end - 1 : cmd'.val \in truth'[s]
                           /\ \A s \in cmd'.from .. cmd'.at - 1 : s \notin cmd'.lost => Reads(image', disk', s) = cmd'.val
  BY <1>2, <1>3, <1>4 DEF TruthInv
<1>7. cmd'.op = "read" => \A s \in cmd'.from .. cmd'.at - 1 : s \in DOMAIN cmd'.buf /\ cmd'.buf[s] \in truth'[s]
  BY <1>2 DEF TruthInv
<1>8. QED
  BY <1>5, <1>6, <1>7 DEF TruthInv

\* What is known of the contents when sectors may read as more than before.
LEMMA GrowTruth ==
    ASSUME QcowInv, Sound, cmd.pc \in PCs \ {"idle", "done"}, Still, SectorsOf(disk') = SectorsOf(disk),
           \A s \in Sectors : truth[s] \subseteq truth'[s],
           cmd'.op = cmd.op, cmd'.end = cmd.end, cmd'.from = cmd.from, cmd'.at = cmd.at, cmd'.val = cmd.val,
           cmd'.buf = cmd.buf /\ cmd'.lost = cmd.lost,
           \A s \in Sectors : Reads(image, disk', s) = Reads(image, disk, s),
           cmd'.pc = "l2update" =>
             \A s \in Sectors : s \div ClusterSectors = VCluster => Stored(disk', cmd'.new, s) \in truth'[s]
    PROVE  TruthInv'
<1>1. /\ SoundInv /\ cmd.at \in Nat /\ cmd.end \in Nat /\ cmd.from \in Nat /\ cmd.at < cmd.end
      /\ \A s \in Nat : s < cmd.end => s \in Sectors
  BY Under
<1>2. TruthInv
  BY <1>1 DEF SoundInv
<1>3. image' = image /\ Sectors' = Sectors /\ VCluster' = VCluster
  BY DEF Still, Sectors, VCluster
<1>4. \A s \in cmd.from .. cmd.end - 1 : s \in Sectors
  BY <1>1
<1>5. \A s \in Sectors' : Reads(image', disk', s) \in truth'[s]
  BY <1>2, <1>3 DEF TruthInv
<1>6. cmd'.op = "write" => \A s \in cmd'.from .. cmd'.end - 1 : cmd'.val \in truth'[s]
  BY <1>2, <1>4 DEF TruthInv
<1>7. ASSUME NEW s \in cmd.from .. cmd.at - 1
      PROVE  /\ cmd'.op = "write" => (s \notin cmd'.lost => Reads(image', disk', s) = cmd'.val)
             /\ cmd'.op = "read" => s \in DOMAIN cmd'.buf /\ cmd'.buf[s] \in truth'[s]
  <2>1. s \in Sectors
    BY <1>1
  <2>2. QED
    BY <1>2, <1>3, <2>1 DEF TruthInv
<1>8. QED
  BY <1>3, <1>5, <1>6, <1>7 DEF TruthInv

\* What has been read is what the sectors may read as.
LEMMA ReadStep ==
    ASSUME QcowInv, Sound, cmd.pc \in {"l1", "l2", "inflate", "data"}, cmd.op = "read", NEW content, ReadAs(content),
           \A s \in Piece : content[s] \in truth[s], Still, truth' = truth, disk' = disk
    PROVE  CmdShape' /\ RangeInv' /\ PathInv' /\ AllocInv' /\ Late' = {} /\ Late = {} /\ TruthInv'
<1> DEFINE more == [s \in Piece |-> content[s]]
<1>1. /\ SoundInv /\ CmdShape /\ cmd.at \in Nat /\ cmd.end \in Nat /\ cmd.from \in Nat /\ cmd.at < cmd.end
      /\ cmd.from <= cmd.at /\ \A s \in Nat : s < cmd.end => s \in Sectors
  BY Under DEF PCs
<1>2. TruthInv
  BY <1>1 DEF SoundInv
<1>3. Onward(more, {}) /\ DOMAIN more \subseteq Piece
  BY DEF ReadAs
<1>4. DOMAIN more = Piece /\ \A s \in Piece : more[s] \in truth[s]
  OBVIOUS
<1> HIDE DEF more
<1>5. CmdShape' /\ RangeInv' /\ PathInv' /\ AllocInv' /\ Late' = {} /\ Late = {}
  BY <1>3, OnwardStep
<1>6. /\ cmd'.at = PieceEnd /\ cmd'.buf = Over(more, cmd.buf) /\ cmd'.pc # "l2update"
      /\ cmd'.op = cmd.op /\ cmd'.end = cmd.end /\ cmd'.from = cmd.from /\ cmd'.val = cmd.val
  BY <1>1, <1>3, OnwardEffect DEF CmdShape
<1>7. PieceEnd \in cmd.at + 1 .. cmd.end
  BY <1>1, PieceRange
<1>8. ASSUME NEW s \in cmd.from .. PieceEnd - 1 PROVE s \in DOMAIN cmd'.buf /\ cmd'.buf[s] \in truth[s]
  <2>1. DOMAIN cmd'.buf = Piece \cup DOMAIN cmd.buf
    BY <1>4, <1>6 DEF Over
  <2>2. CASE s \in Piece
    <3>1. cmd'.buf[s] = more[s]
      BY <1>4, <1>6, <2>2 DEF Over
    <3>2. QED
      BY <1>4, <2>1, <2>2, <3>1
  <2>3. CASE s \notin Piece
    <3>1. s \in cmd.from .. cmd.at - 1
      BY <1>1, <1>7, <2>3 DEF Piece
    <3>2. s \in DOMAIN cmd.buf /\ cmd.buf[s] \in truth[s]
      BY <1>2, <3>1 DEF TruthInv
    <3>3. cmd'.buf[s] = cmd.buf[s]
      BY <1>4, <1>6, <2>3, <3>2 DEF Over
    <3>4. QED
      BY <2>1, <3>2, <3>3
  <2>4. QED
    BY <2>2, <2>3
<1>9. TruthInv'
  <2>1. image' = image /\ Sectors' = Sectors
    BY DEF Still, Sectors
  <2>2. \A s \in Sectors' : Reads(image', disk', s) \in truth'[s]
    BY <1>2, <2>1 DEF TruthInv
  <2>3. cmd'.op = "read" => \A s \in cmd'.from .. cmd'.at - 1 : s \in DOMAIN cmd'.buf /\ cmd'.buf[s] \in truth'[s]
    BY <1>6, <1>8
  <2>4. QED
    BY <1>6, <2>2, <2>3 DEF TruthInv
<1>10. QED
  BY <1>5, <1>9

\* A piece that the file has nothing for is read.
LEMMA UnallocatedStep ==
    ASSUME QcowInv, Sound, cmd.pc \in {"l1", "l2"}, cmd.op = "read", ReadUnallocated, Format # "raw",
           Still, truth' = truth, disk' = disk
    PROVE  /\ CmdShape'
           /\ (\A s \in Piece : Of(disk, s).kind = "none") =>
                RangeInv' /\ PathInv' /\ AllocInv' /\ Late' = {} /\ Late = {} /\ TruthInv'
<1>1. /\ SoundInv /\ CmdShape /\ cmd.at \in Nat /\ cmd.end \in Nat /\ cmd.at < cmd.end
      /\ \A s \in Nat : s < cmd.end => s \in Sectors
  BY Under DEF PCs
<1>2. TruthInv
  BY <1>1 DEF SoundInv
<1>3. CASE Fail
  <2>1. ~InCounting
    BY DEF InCounting, Allocating
  <2>2. CmdShape' /\ RangeInv' /\ PathInv' /\ AllocInv' /\ Late' = {} /\ Late = {}
    BY <1>3, <2>1, FailStep DEF PCs
  <2>3. /\ cmd'.op = cmd.op /\ cmd'.end = cmd.end /\ cmd'.from = cmd.from /\ cmd'.at = cmd.at
        /\ cmd'.val = cmd.val /\ cmd'.buf = cmd.buf /\ cmd'.lost = cmd.lost /\ cmd'.pc # "l2update"
    BY <1>1, <1>3, FailEffect DEF CmdShape
  <2>4. TruthInv'
    BY <2>3, KeepTruth DEF PCs
  <2>5. QED
    BY <2>2, <2>4
<1>4. CASE ReadAs([s \in Piece |-> Unallocated(s)])
  <2>1. CmdShape'
    <3>1. Onward([s \in Piece |-> [z \in Piece |-> Unallocated(z)][s]], {})
      BY <1>4 DEF ReadAs
    <3>2. QED
      BY <3>1, OnwardStep
  <2>2. ASSUME \A s \in Piece : Of(disk, s).kind = "none"
        PROVE  RangeInv' /\ PathInv' /\ AllocInv' /\ Late' = {} /\ Late = {} /\ TruthInv'
    <3>1. ASSUME NEW s \in Piece PROVE [z \in Piece |-> Unallocated(z)][s] \in truth[s]
      <4>1. s \in cmd.at .. cmd.end - 1
        BY <1>1, PieceRange
      <4>2. s \in Sectors
        BY <1>1, <4>1
      <4>3. Reads(image, disk, s) = Unallocated(s)
        BY <2>2 DEF Reads, Unallocated, Format
      <4>4. QED
        BY <1>2, <4>2, <4>3 DEF TruthInv
    <3>2. QED
      BY <1>4, <3>1, ReadStep
  <2>3. QED
    BY <2>1, <2>2
<1>5. QED
  BY <1>3, <1>4 DEF ReadUnallocated

-----------------------------------------------------------------------------
(* Looking up.                                                             *)

\* Steps that do not touch the file.
LEMMA Assemble ==
    ASSUME SoundInv, CmdShape', RestShape', disk' = disk, image' = image, Late \subseteq Late' \/ Format # "qcow2",
           CacheInv' /\ RangeInv' /\ PathInv' /\ AllocInv' /\ TruthInv'
    PROVE  QcowInv'
<1>1. Shape'
  BY ShapePartsNext
<1>2. Format' # "raw" => FileInv(image', disk', Late')
  BY LateMore DEF SoundInv, Format
<1>3. QED
  BY <1>1, <1>2 DEF QcowInv, SoundInv

\* The cache is as it was.
LEMMA CacheFrame ==
    ASSUME CacheInv, mem'.l1 = mem.l1, mem'.rt = mem.rt, mem'.l2c = mem.l2c, mem'.rcc = mem.rcc, disk' = disk, Still
    PROVE  CacheInv'
<1>1. Format' = Format /\ dev' = dev
  BY DEF Still, Format
<1>2. QED
  BY <1>1 DEF CacheInv

\* The L1 table.
LEMMA LookL1Step == ASSUME QcowInv, LookL1 PROVE QcowInv'
<1> DEFINE l2 == mem.l1[VCluster \div L2Size]
<1>0. Sound /\ cmd.pc = "l1" /\ mem' = mem /\ Still /\ disk' = disk /\ met' = met /\ truth' = truth
  BY DEF LookL1, At, NoIo, Still
<1>1. /\ Shape /\ SoundInv /\ CmdShape /\ RestShape
      /\ dev = "open" /\ mem.l1 = disk.l1 /\ mem.rt = disk.rt
      /\ cmd.at \in Nat /\ cmd.end \in Nat /\ cmd.from \in Nat /\ cmd.from <= cmd.at /\ cmd.at < cmd.end
      /\ cmd.op \in {"read", "write"} /\ cmd.pc \in PCs \ {"idle", "done"}
  BY <1>0, Under DEF PCs
<1>2. CacheInv /\ RangeInv /\ AllocInv /\ DOMAIN cmd = CmdFields
  BY <1>1 DEF SoundInv, CmdShape
<1>3. Format # "raw"
  BY <1>0, <1>2 DEF RangeInv
<1>4. RestShape' /\ CacheInv' /\ image' = image /\ SectorsOf(disk') = SectorsOf(disk)
  <2>1. RestShape'
    BY <1>0, <1>1, RestShapeFrame DEF RestShape
  <2>2. CacheInv'
    BY <1>0, <1>2, CacheFrame
  <2>3. QED
    BY <1>0, <2>1, <2>2 DEF Still
<1>5. ~InCounting
  BY <1>0 DEF InCounting, Allocating
<1>6. cmd.rc = << >> /\ Late = {}
  BY <1>2, <1>5, NothingLate
<1>7. l2 = disk.l1[Index] /\ l2 \in Clusters
  BY <1>0, <1>1, OnTheWay DEF Index
<1>8. CASE l2 # 0 /\ cmd' = [cmd EXCEPT !.pc = "l2", !.l2 = l2]
  <2>1. /\ DOMAIN cmd' = CmdFields /\ SameRange /\ cmd'.pc = "l2" /\ cmd'.l2 = l2 /\ cmd'.rc = cmd.rc
        /\ cmd'.new = cmd.new /\ cmd'.rb = cmd.rb /\ cmd'.scan = cmd.scan
    BY <1>2, <1>8 DEF CmdFields, SameRange
  <2>2. RangeInv' /\ Index' = Index
    BY <1>0, <1>1, <1>2, <1>3, <1>4, <2>1, MoveRange DEF PCs, RangeInv
  <2>3. CmdShape'
    BY <1>0, <1>1, <1>7, <2>1 DEF CmdShape, SameRange, Sectors, Clusters
  <2>4. ~InCounting' /\ (\A w : ~Allocating(w)') /\ Late' = {}
    BY <1>6, <2>1 DEF InCounting, Allocating, Late
  <2>5. PathInv'
    BY <1>0, <1>7, <1>8, <2>1, <2>2, <2>4 DEF PathInv
  <2>6. AllocInv'
    BY <1>6, <2>1, <2>4 DEF AllocInv
  <2>7. TruthInv'
    BY <1>0, <1>1, <1>4, <2>1, KeepTruth DEF SameRange
  <2>8. QED
    BY <1>0, <1>1, <1>4, <1>6, <2>2, <2>3, <2>4, <2>5, <2>6, <2>7, Assemble
<1>9. CASE l2 = 0 /\ cmd.op = "write" /\ cmd' = [cmd EXCEPT !.pc = "scan", !.why = "l2table", !.scan = mem.free]
  <2>1. /\ DOMAIN cmd' = CmdFields /\ SameRange /\ cmd'.pc = "scan" /\ cmd'.l2 = cmd.l2 /\ cmd'.rc = cmd.rc
        /\ cmd'.new = cmd.new /\ cmd'.rb = cmd.rb /\ cmd'.scan = mem.free /\ cmd'.why = "l2table"
    BY <1>2, <1>9 DEF CmdFields, SameRange
  <2>2. RangeInv' /\ Index' = Index
    BY <1>0, <1>1, <1>2, <1>3, <1>4, <1>9, <2>1, MoveRange DEF PCs, RangeInv
  <2>3. CmdShape' /\ mem.free \in Nat
    BY <1>0, <1>1, <2>1, QcowAssumption DEF CmdShape, RestShape, SameRange, Sectors
  <2>4. ~InCounting' /\ ~Allocating(Kinds)' /\ ~Allocating({"refblock"})' /\ Late' = {}
    BY <1>6, <2>1 DEF InCounting, Allocating, Late, Kinds
  <2>5. PathInv'
    BY <1>0, <1>7, <1>9, <2>1, <2>2, <2>4 DEF PathInv
  <2>6. AllocInv'
    BY <1>0, <1>6, <2>1, <2>3, <2>4 DEF AllocInv
  <2>7. TruthInv'
    BY <1>0, <1>1, <1>4, <2>1, KeepTruth DEF SameRange
  <2>8. QED
    BY <1>0, <1>1, <1>4, <1>6, <2>2, <2>3, <2>4, <2>5, <2>6, <2>7, Assemble
<1>10. CASE l2 = 0 /\ cmd.op = "read" /\ ReadUnallocated
  <2>1. \A s \in Piece : Of(disk, s).kind = "none"
    <3> SUFFICES ASSUME NEW s \in Piece PROVE Of(disk, s).kind = "none"
      OBVIOUS
    <3>1. s \div ClusterSectors = VCluster
      BY <1>1, PieceRange
    <3>2. Table(disk, s) = 0
      BY <1>0, <1>1, <1>7, <1>10, <3>1, OnTheWay
    <3>3. QED
      BY <3>2 DEF Of, NoEntry
  <2>2. CmdShape' /\ RangeInv' /\ PathInv' /\ AllocInv' /\ Late' = {} /\ TruthInv'
    BY <1>0, <1>3, <1>10, <2>1, UnallocatedStep
  <2>3. QED
    BY <1>0, <1>1, <1>4, <1>6, <2>2, Assemble
<1>11. QED
  <2>1. CASE l2 # 0
    BY <1>8, <2>1 DEF LookL1
  <2>2. CASE l2 = 0 /\ cmd.op = "write"
    BY <1>9, <2>2 DEF LookL1
  <2>3. CASE l2 = 0 /\ cmd.op = "read"
    BY <1>10, <2>3 DEF LookL1
  <2>4. QED
    BY <1>1, <2>1, <2>2, <2>3

\* A block is read into a cache; another may have to go.
LEMMA LookupCache ==
    ASSUME NEW old, NEW b, NEW cache \in Lookup(old, b), IsFiniteSet(DOMAIN old), Cardinality(DOMAIN old) <= CacheSize
    PROVE  /\ b \in DOMAIN cache /\ DOMAIN cache \subseteq DOMAIN old \cup {b}
           /\ \A c \in DOMAIN cache : cache[c] = IF c \in DOMAIN old THEN old[c] ELSE disk.cl[c]
           /\ IsFiniteSet(DOMAIN cache) /\ Cardinality(DOMAIN cache) <= CacheSize
<1>0. CacheSize \in Nat \ {0}
  BY QcowAssumption
<1>1. CASE b \in DOMAIN old
  <2>1. cache = old
    BY <1>1 DEF Lookup
  <2>2. QED
    BY <1>1, <2>1
<1>2. CASE b \notin DOMAIN old
  <2> DEFINE n == Cardinality(DOMAIN old)
             kept == IF n < CacheSize THEN {DOMAIN old} ELSE {DOMAIN old \ {e} : e \in DOMAIN old}
  <2>1. PICK k \in kept : cache = With([c \in k |-> old[c]], b, disk.cl[b])
    BY <1>2 DEF Lookup
  <2>2. n \in Nat /\ n <= CacheSize
    BY FS_CardinalityType
  <2>3. k \subseteq DOMAIN old /\ IsFiniteSet(k) /\ Cardinality(k) < CacheSize /\ Cardinality(k) \in Nat
    <3>1. CASE n < CacheSize
      BY <2>2, <3>1
    <3>2. CASE ~(n < CacheSize)
      <4>1. PICK e \in DOMAIN old : k = DOMAIN old \ {e}
        BY <3>2
      <4>2. IsFiniteSet(k) /\ Cardinality(k) = n - 1
        BY <4>1, FS_RemoveElement
      <4>3. Cardinality(k) \in Nat
        BY <4>2, FS_CardinalityType
      <4>4. QED
        BY <1>0, <2>2, <4>1, <4>2, <4>3
    <3>3. QED
      BY <3>1, <3>2
  <2> HIDE DEF n, kept
  <2>4. DOMAIN cache = k \cup {b}
    BY <2>1 DEF With
  <2>5. \A c \in k \cup {b} : cache[c] = IF c = b THEN disk.cl[b] ELSE old[c]
    BY <2>1 DEF With
  <2>6. IsFiniteSet(k \cup {b}) /\ Cardinality(k \cup {b}) = Cardinality(k) + 1
    BY <1>2, <2>3, FS_AddElement
  <2>7. Cardinality(DOMAIN cache) <= CacheSize
    BY <1>0, <2>3, <2>4, <2>6
  <2>8. QED
    BY <1>2, <2>3, <2>4, <2>5, <2>6, <2>7
<1>3. QED
  BY <1>1, <1>2

\* A table has been looked up.
LEMMA L2Cached ==
    ASSUME CacheInv, dev = "open", Format # "raw", Still, disk' = disk, NEW b \in Clusters, IsTable(disk, b),
           NEW cache \in L2CacheLookup(b), DOMAIN mem = MemFields, mem' = [mem EXCEPT !.l2c = cache]
    PROVE  /\ CacheInv' /\ DOMAIN mem' = MemFields /\ mem'.free = mem.free /\ mem'.l2c = cache
           /\ b \in DOMAIN cache /\ cache[b] = disk.cl[b]
<1>1. /\ DOMAIN mem' = MemFields /\ mem'.free = mem.free /\ mem'.l2c = cache /\ mem'.rcc = mem.rcc
      /\ mem'.l1 = mem.l1 /\ mem'.rt = mem.rt
  BY DEF MemFields
<1>2. IsFiniteSet(DOMAIN mem.l2c) /\ Cardinality(DOMAIN mem.l2c) <= CacheSize
  BY DEF CacheInv
<1>3. /\ b \in DOMAIN cache /\ DOMAIN cache \subseteq DOMAIN mem.l2c \cup {b}
      /\ \A c \in DOMAIN cache : cache[c] = IF c \in DOMAIN mem.l2c THEN mem.l2c[c] ELSE disk.cl[c]
      /\ IsFiniteSet(DOMAIN cache) /\ Cardinality(DOMAIN cache) <= CacheSize
  BY <1>2, LookupCache DEF L2CacheLookup
<1>4. \A c \in DOMAIN cache : c \in Clusters /\ IsTable(disk, c) /\ cache[c] = disk.cl[c]
  BY <1>3 DEF CacheInv
<1>5. Format' = Format /\ dev' = dev
  BY DEF Still, Format
<1>6. CacheInv'
  BY <1>1, <1>3, <1>4, <1>5 DEF CacheInv
<1>7. QED
  BY <1>1, <1>3, <1>4, <1>6

\* A refcount block has been looked up.
LEMMA RcCached ==
    ASSUME CacheInv, dev = "open", Format # "raw", Still, disk' = disk, NEW b \in Clusters, IsBlock(disk, b),
           NEW cache \in RcCacheLookup(b), DOMAIN mem = MemFields, mem' = [mem EXCEPT !.rcc = cache]
    PROVE  /\ CacheInv' /\ DOMAIN mem' = MemFields /\ mem'.free = mem.free /\ mem'.l2c = mem.l2c
           /\ b \in DOMAIN cache /\ cache[b] = disk.cl[b]
<1>1. /\ DOMAIN mem' = MemFields /\ mem'.free = mem.free /\ mem'.rcc = cache /\ mem'.l2c = mem.l2c
      /\ mem'.l1 = mem.l1 /\ mem'.rt = mem.rt
  BY DEF MemFields
<1>2. IsFiniteSet(DOMAIN mem.rcc) /\ Cardinality(DOMAIN mem.rcc) <= CacheSize
  BY DEF CacheInv
<1>3. /\ b \in DOMAIN cache /\ DOMAIN cache \subseteq DOMAIN mem.rcc \cup {b}
      /\ \A c \in DOMAIN cache : cache[c] = IF c \in DOMAIN mem.rcc THEN mem.rcc[c] ELSE disk.cl[c]
      /\ IsFiniteSet(DOMAIN cache) /\ Cardinality(DOMAIN cache) <= CacheSize
  BY <1>2, LookupCache DEF RcCacheLookup
<1>4. \A c \in DOMAIN cache : c \in Clusters /\ IsBlock(disk, c) /\ cache[c] = disk.cl[c]
  BY <1>3 DEF CacheInv
<1>5. Format' = Format /\ dev' = dev
  BY DEF Still, Format
<1>6. CacheInv'
  BY <1>1, <1>3, <1>4, <1>5 DEF CacheInv
<1>7. QED
  BY <1>1, <1>3, <1>4, <1>6

\* The entry at hand.
LEMMA EntryHere ==
    ASSUME QcowInv, Sound, cmd.pc \in PCs \ {"idle", "done"}, Format # "raw", cmd.l2 # 0, disk.l1[Index] = cmd.l2
    PROVE  /\ FileInv(image, disk, Late) /\ cmd.l2 \in Clusters /\ IsTable(disk, cmd.l2) /\ Here \in EntryType
           /\ Here.kind \in Kinds /\ Here.at \in Clusters
           /\ Full(Here) => Here.at # 0 /\ IsData(disk, Here.at)
           /\ \A s \in Sectors : s \div ClusterSectors = VCluster => Of(disk, s) = Here
<1>1. FileInv(image, disk, Late)
  BY Under DEF SoundInv
<1>2. Index \in DOMAIN disk.l1 /\ cmd.l2 \in Clusters /\ Within \in L2Slots
  BY OnTheWay
<1>3. IsTable(disk, cmd.l2)
  BY <1>2 DEF IsTable
<1>4. Here \in EntryType /\ Here.at \in Clusters /\ (Full(Here) => Here.at # 0 /\ IsData(disk, Here.at))
  BY <1>1, <1>2, <1>3, EntryTargets DEF Here
<1>5. Here.kind \in Kinds
  BY <1>4 DEF EntryType, Kinds
<1>6. ASSUME NEW s \in Sectors, s \div ClusterSectors = VCluster PROVE Of(disk, s) = Here
  <2>1. Table(disk, s) = cmd.l2 /\ (s \div ClusterSectors) % L2Size = Within
    BY <1>6, OnTheWay
  <2>2. QED
    BY <2>1 DEF Of, Here
<1>7. QED
  BY <1>1, <1>2, <1>3, <1>4, <1>5, <1>6

\* The L2 table.
LEMMA LookL2Step == ASSUME QcowInv, LookL2 PROVE QcowInv'
<1>0. Sound /\ cmd.pc = "l2" /\ Still /\ disk' = disk /\ truth' = truth
  BY DEF LookL2, At
<1>1. /\ Shape /\ SoundInv /\ CmdShape /\ RestShape
      /\ dev = "open" /\ mem.l1 = disk.l1 /\ mem.rt = disk.rt
      /\ cmd.at \in Nat /\ cmd.end \in Nat /\ cmd.from \in Nat /\ cmd.from <= cmd.at /\ cmd.at < cmd.end
      /\ cmd.op \in {"read", "write"} /\ cmd.pc \in PCs \ {"idle", "done"}
      /\ \A s \in Nat : s < cmd.end => s \in Sectors
  BY <1>0, Under DEF PCs
<1>2. CacheInv /\ RangeInv /\ AllocInv /\ PathInv /\ TruthInv /\ DOMAIN cmd = CmdFields /\ DOMAIN mem = MemFields
  BY <1>1 DEF SoundInv, CmdShape, RestShape
<1>3. Format # "raw"
  BY <1>0, <1>2 DEF RangeInv
<1>4. image' = image /\ SectorsOf(disk') = SectorsOf(disk)
  BY <1>0 DEF Still
<1>5. ~InCounting
  BY <1>0 DEF InCounting, Allocating
<1>6. cmd.rc = << >> /\ Late = {}
  BY <1>2, <1>5, NothingLate
<1>7. cmd.l2 # 0 /\ disk.l1[Index] = cmd.l2
  BY <1>0, <1>2, <1>3 DEF PathInv
<1>8. /\ cmd.l2 \in Clusters /\ IsTable(disk, cmd.l2) /\ Here \in EntryType /\ Here.kind \in Kinds /\ Here.at \in Clusters
      /\ \A s \in Sectors : s \div ClusterSectors = VCluster => Of(disk, s) = Here
  BY <1>0, <1>1, <1>3, <1>7, EntryHere
<1>9. ASSUME NEW s \in Piece PROVE s \in Sectors /\ Of(disk, s) = Here
  <2>1. s \in cmd.at .. cmd.end - 1 /\ s \div ClusterSectors = VCluster
    BY <1>1, PieceRange
  <2>2. s \in Sectors
    BY <1>1, <2>1
  <2>3. QED
    BY <1>8, <2>1, <2>2
<1>10. CASE ReadFails /\ (IF cmd.op = "write" THEN Fail ELSE ReadUnallocated) /\ mem' = mem
  <2>1. CmdShape'
    <3>1. CASE cmd.op = "write"
      BY <1>0, <1>1, <1>4, <1>5, <1>10, <3>1, FailStep
    <3>2. CASE cmd.op = "read"
      BY <1>0, <1>1, <1>3, <1>10, <3>2, UnallocatedStep
    <3>3. QED
      BY <1>1, <3>1, <3>2
  <2>2. RestShape'
    BY <1>0, <1>1, <1>2, <1>10, RestShapeFrame
  <2>3. ~Sound'
    BY <1>10 DEF ReadFails, Sound
  <2>4. QED
    BY <2>1, <2>2, <2>3, ShapePartsNext DEF QcowInv
<1>11. ASSUME NEW cache \in L2CacheLookup(cmd.l2), mem' = [mem EXCEPT !.l2c = cache],
              LET e == Slot(cache[cmd.l2], VCluster % L2Size, NoEntry)
                  alloc == cmd' = [cmd EXCEPT !.pc = "scan", !.why = e.kind, !.scan = mem.free]
              IN CASE e.kind = "none" /\ cmd.op = "read" -> ReadUnallocated
                   [] e.kind = "zero" /\ cmd.op = "read" -> ReadAs([s \in Piece |-> "zero"])
                   [] e.kind = "compressed" -> Step("inflate")
                   [] e.kind = "normal" /\ (cmd.op = "read" \/ (e.copied /\ Format = "qcow2")) ->
                        cmd' = [cmd EXCEPT !.pc = "data", !.new = e.at]
                   [] OTHER -> alloc
       PROVE QcowInv'
  <2>1. /\ CacheInv' /\ DOMAIN mem' = MemFields /\ mem'.free = mem.free /\ mem'.l2c = cache
        /\ cmd.l2 \in DOMAIN cache /\ cache[cmd.l2] = disk.cl[cmd.l2]
    BY <1>0, <1>1, <1>2, <1>3, <1>8, <1>11, L2Cached
  <2>2. Slot(cache[cmd.l2], VCluster % L2Size, NoEntry) = Here
    BY <2>1 DEF Here, Leads, Within
  <2>3. RestShape'
    BY <1>0, <1>1, <2>1, RestShapeFrame
  <2>4. CASE Here.kind = "none" /\ cmd.op = "read" /\ ReadUnallocated
    <3>1. \A s \in Piece : Of(disk, s).kind = "none"
      BY <1>9, <2>4
    <3>2. CmdShape' /\ RangeInv' /\ PathInv' /\ AllocInv' /\ Late' = {} /\ TruthInv'
      BY <1>0, <1>3, <2>4, <3>1, UnallocatedStep
    <3>3. QED
      BY <1>0, <1>1, <1>4, <1>6, <2>1, <2>3, <3>2, Assemble
  <2>5. CASE Here.kind = "zero" /\ cmd.op = "read" /\ ReadAs([s \in Piece |-> "zero"])
    <3>1. ASSUME NEW s \in Piece PROVE [z \in Piece |-> "zero"][s] \in truth[s]
      <4>1. Reads(image, disk, s) = "zero"
        BY <1>3, <1>9, <2>5 DEF Reads, Format
      <4>2. QED
        BY <1>2, <1>9, <4>1 DEF TruthInv
    <3>2. CmdShape' /\ RangeInv' /\ PathInv' /\ AllocInv' /\ Late' = {} /\ TruthInv'
      BY <1>0, <1>3, <2>5, <3>1, ReadStep
    <3>3. QED
      BY <1>0, <1>1, <1>4, <1>6, <2>1, <2>3, <3>2, Assemble
  <2>6. CASE Here.kind = "compressed" /\ Step("inflate")
    <3>1. /\ DOMAIN cmd' = CmdFields /\ SameRange /\ cmd'.pc = "inflate" /\ cmd'.l2 = cmd.l2 /\ cmd'.rc = cmd.rc
          /\ cmd'.new = cmd.new /\ cmd'.rb = cmd.rb /\ cmd'.scan = cmd.scan
      BY <1>2, <2>6 DEF CmdFields, SameRange, Step
    <3>2. RangeInv' /\ Index' = Index /\ Within' = Within
      BY <1>0, <1>1, <1>2, <1>3, <1>4, <3>1, MoveRange DEF PCs, RangeInv
    <3>3. CmdShape'
      BY <1>0, <1>1, <3>1 DEF CmdShape, SameRange, Sectors
    <3>4. ~InCounting' /\ (\A w : ~Allocating(w)') /\ Late' = {} /\ Here' = Here
      BY <1>0, <1>6, <3>1, <3>2 DEF InCounting, Allocating, Late, Here
    <3>5. PathInv'
      BY <1>0, <1>7, <2>1, <2>6, <3>1, <3>2, <3>4 DEF PathInv
    <3>6. AllocInv'
      BY <1>6, <3>1, <3>4 DEF AllocInv
    <3>7. TruthInv'
      BY <1>0, <1>1, <1>4, <3>1, KeepTruth DEF SameRange
    <3>8. QED
      BY <1>0, <1>1, <1>4, <1>6, <2>1, <2>3, <3>2, <3>3, <3>4, <3>5, <3>6, <3>7, Assemble
  <2>7. CASE Here.kind = "normal" /\ cmd' = [cmd EXCEPT !.pc = "data", !.new = Here.at]
    <3>1. /\ DOMAIN cmd' = CmdFields /\ SameRange /\ cmd'.pc = "data" /\ cmd'.l2 = cmd.l2 /\ cmd'.rc = cmd.rc
          /\ cmd'.new = Here.at /\ cmd'.rb = cmd.rb /\ cmd'.scan = cmd.scan
      BY <1>2, <2>7 DEF CmdFields, SameRange
    <3>2. RangeInv' /\ Index' = Index /\ Within' = Within
      BY <1>0, <1>1, <1>2, <1>3, <1>4, <3>1, MoveRange DEF PCs, RangeInv
    <3>3. CmdShape'
      BY <1>0, <1>1, <1>8, <3>1 DEF CmdShape, SameRange, Sectors, Clusters
    <3>4. ~InCounting' /\ (\A w : ~Allocating(w)') /\ Late' = {} /\ Here' = Here
      BY <1>0, <1>6, <3>1, <3>2 DEF InCounting, Allocating, Late, Here
    <3>5. PathInv'
      BY <1>0, <1>7, <2>1, <2>7, <3>1, <3>2, <3>4 DEF PathInv
    <3>6. AllocInv'
      BY <1>6, <3>1, <3>4 DEF AllocInv
    <3>7. TruthInv'
      BY <1>0, <1>1, <1>4, <3>1, KeepTruth DEF SameRange
    <3>8. QED
      BY <1>0, <1>1, <1>4, <1>6, <2>1, <2>3, <3>2, <3>3, <3>4, <3>5, <3>6, <3>7, Assemble
  <2>8. CASE cmd.op = "write" /\ cmd' = [cmd EXCEPT !.pc = "scan", !.why = Here.kind, !.scan = mem.free]
    <3>1. /\ DOMAIN cmd' = CmdFields /\ SameRange /\ cmd'.pc = "scan" /\ cmd'.l2 = cmd.l2 /\ cmd'.rc = cmd.rc
          /\ cmd'.new = cmd.new /\ cmd'.rb = cmd.rb /\ cmd'.scan = mem.free /\ cmd'.why = Here.kind
      BY <1>2, <2>8 DEF CmdFields, SameRange
    <3>2. RangeInv' /\ Index' = Index /\ Within' = Within
      BY <1>0, <1>1, <1>2, <1>3, <1>4, <2>8, <3>1, MoveRange DEF PCs, RangeInv
    <3>3. CmdShape' /\ mem.free \in Nat
      BY <1>0, <1>1, <3>1, QcowAssumption DEF CmdShape, RestShape, SameRange, Sectors
    <3>4. ~InCounting' /\ ~Allocating({"l2table"})' /\ ~Allocating({"refblock"})' /\ Late' = {} /\ Here' = Here
      BY <1>0, <1>6, <1>8, <3>1, <3>2 DEF InCounting, Allocating, Late, Here, Kinds
    <3>5. PathInv'
      BY <1>0, <1>7, <1>8, <2>1, <3>1, <3>2, <3>4 DEF PathInv
    <3>6. AllocInv'
      BY <1>0, <1>6, <2>1, <3>1, <3>3, <3>4 DEF AllocInv
    <3>7. TruthInv'
      BY <1>0, <1>1, <1>4, <3>1, KeepTruth DEF SameRange
    <3>8. QED
      BY <1>0, <1>1, <1>4, <1>6, <2>1, <2>3, <3>2, <3>3, <3>4, <3>5, <3>6, <3>7, Assemble
  <2>9. QED
    <3>1. CASE Here.kind = "none" /\ cmd.op = "read"
      BY <1>11, <2>2, <2>4, <3>1
    <3>2. CASE Here.kind = "zero" /\ cmd.op = "read"
      BY <1>11, <2>2, <2>5, <3>2
    <3>3. CASE Here.kind = "compressed"
      BY <1>11, <2>2, <2>6, <3>3
    <3>4. CASE Here.kind = "normal" /\ (cmd.op = "read" \/ (Here.copied /\ Format = "qcow2"))
      BY <1>11, <2>2, <2>7, <3>4
    <3>5. CASE Here.kind \in {"none", "zero", "normal"} /\ cmd.op = "write" /\ ~(Here.kind = "normal" /\ Here.copied /\ Format = "qcow2")
      BY <1>11, <2>2, <2>8, <3>5
    <3>6. QED
      BY <1>1, <1>8, <3>1, <3>2, <3>3, <3>4, <3>5 DEF Kinds
<1>12. QED
  BY <1>10, <1>11, ZenonT(60) DEF LookL2

\* The entry in the cache is the one in the file.
LEMMA EntryInCache ==
    ASSUME CacheInv, dev = "open", Format # "raw", cmd.l2 \in DOMAIN mem.l2c, Here.kind # "none"
    PROVE  Entry = Here
<1>1. mem.l2c[cmd.l2] = disk.cl[cmd.l2]
  BY DEF CacheInv
<1>2. Within \in DOMAIN disk.cl[cmd.l2]
  BY DEF Here, Leads, Slot, NoEntry
<1>3. QED
  BY <1>1, <1>2 DEF Entry, Here, Leads, Slot, Within

\* Steps that write to the file.
LEMMA RestShapeDisk ==
    ASSUME RestShape, Still, DOMAIN truth' = DOMAIN truth, FileShape(disk'), DOMAIN disk'.l1 = DOMAIN disk.l1,
           DOMAIN disk'.rt = DOMAIN disk.rt, DOMAIN mem' = MemFields, mem'.free \in 0 .. FileClusters, dev = "open"
    PROVE  RestShape' /\ SectorsOf(disk') = SectorsOf(disk) /\ Geometry(image, disk')
<1>1. SectorsOf(disk') = SectorsOf(disk) /\ Geometry(image, disk')
  BY GeometryFrame DEF RestShape
<1>2. QED
  BY <1>1 DEF RestShape, Still, Sectors

\* What has been inflated is what the sectors may read as.
LEMMA InflatedData ==
    ASSUME QcowInv, DecInv, Sound, cmd.pc = "inflate", NEW s \in Sectors, s \div ClusterSectors = VCluster
    PROVE  Slot(IF mem.dec.at = Entry.at THEN mem.dec.data ELSE disk.cl[Entry.at], s % ClusterSectors, "zero") \in truth[s]
<1>0. cmd.pc \in PCs \ {"idle", "done"}
  BY DEF PCs
<1>1. SoundInv /\ dev = "open"
  BY <1>0, Under
<1>2. CacheInv /\ PathInv /\ TruthInv /\ RangeInv
  BY <1>1 DEF SoundInv
<1>3. Format # "raw"
  BY <1>2 DEF RangeInv
<1>4. cmd.l2 # 0 /\ disk.l1[Index] = cmd.l2 /\ cmd.l2 \in DOMAIN mem.l2c /\ Here.kind = "compressed"
  BY <1>2, <1>3 DEF PathInv
<1>5. Entry = Here /\ Of(disk, s) = Here
  BY <1>0, <1>1, <1>2, <1>3, <1>4, EntryInCache, EntryHere
<1>6. CASE mem.dec.at = Entry.at
  BY <1>1, <1>3, <1>4, <1>5, <1>6 DEF DecInv, Inflated
<1>7. CASE mem.dec.at # Entry.at
  <2>1. Reads(image, disk, s) = Stored(disk, Here.at, s)
    BY <1>3, <1>4, <1>5 DEF Reads, Format
  <2>2. QED
    BY <1>2, <1>5, <1>7, <2>1 DEF TruthInv, Stored
<1>8. QED
  BY <1>6, <1>7

\* A compressed cluster.
LEMMA InflateStep == ASSUME QcowInv, Sound => DecInv, Inflate PROVE QcowInv'
<1> DEFINE data == IF mem.dec.at = Entry.at THEN mem.dec.data ELSE disk.cl[Entry.at]
<1>0. Sound /\ cmd.pc = "inflate" /\ Still /\ disk' = disk /\ met' = met
  BY DEF Inflate, At, Still
<1>1. /\ Shape /\ SoundInv /\ CmdShape /\ RestShape
      /\ dev = "open" /\ mem.l1 = disk.l1 /\ mem.rt = disk.rt
      /\ cmd.at \in Nat /\ cmd.end \in Nat /\ cmd.from \in Nat /\ cmd.from <= cmd.at /\ cmd.at < cmd.end
      /\ cmd.op \in {"read", "write"} /\ cmd.pc \in PCs \ {"idle", "done"}
      /\ \A s \in Nat : s < cmd.end => s \in Sectors
  BY <1>0, Under DEF PCs
<1>2. CacheInv /\ RangeInv /\ AllocInv /\ PathInv /\ TruthInv /\ DOMAIN cmd = CmdFields /\ DOMAIN mem = MemFields
  BY <1>1 DEF SoundInv, CmdShape, RestShape
<1>3. Format # "raw"
  BY <1>0, <1>2 DEF RangeInv
<1>4. image' = image /\ SectorsOf(disk') = SectorsOf(disk)
  BY <1>0 DEF Still
<1>5. ~InCounting
  BY <1>0 DEF InCounting, Allocating
<1>6. cmd.rc = << >> /\ Late = {}
  BY <1>2, <1>5, NothingLate
<1>7. cmd.l2 # 0 /\ disk.l1[Index] = cmd.l2 /\ cmd.l2 \in DOMAIN mem.l2c /\ Here.kind = "compressed"
  BY <1>0, <1>2, <1>3 DEF PathInv
<1>8. \A s \in Sectors : s \div ClusterSectors = VCluster => Of(disk, s) = Here
  BY <1>0, <1>1, <1>3, <1>7, EntryHere
<1>9. Entry = Here
  BY <1>1, <1>2, <1>3, <1>7, EntryInCache
<1>10. CASE Fail /\ mem' = mem /\ truth' = truth
  <2>1. CmdShape' /\ RangeInv' /\ PathInv' /\ AllocInv' /\ Late' = {} /\ Late = {}
    BY <1>0, <1>1, <1>4, <1>5, <1>10, FailStep
  <2>2. /\ cmd'.op = cmd.op /\ cmd'.end = cmd.end /\ cmd'.from = cmd.from /\ cmd'.at = cmd.at
        /\ cmd'.val = cmd.val /\ cmd'.buf = cmd.buf /\ cmd'.lost = cmd.lost /\ cmd'.pc # "l2update"
    BY <1>2, <1>10, FailEffect
  <2>3. TruthInv'
    BY <1>0, <1>1, <1>4, <1>10, <2>2, KeepTruth
  <2>4. RestShape' /\ CacheInv'
    BY <1>0, <1>1, <1>2, <1>10, RestShapeFrame, CacheFrame
  <2>5. QED
    BY <1>0, <1>1, <1>4, <2>1, <2>3, <2>4, Assemble
<1>11. CASE /\ Fail /\ mem' = [mem EXCEPT !.dec = [at |-> mem.dec.at, data |-> [i \in 0 .. ClusterSectors - 1 |-> "junk"]]]
            /\ truth' = [s \in DOMAIN truth |-> truth[s] \cup (IF Packed(s, mem.dec.at) THEN {"junk"} ELSE {})]
  <2>1. CmdShape' /\ RangeInv' /\ PathInv' /\ AllocInv' /\ Late' = {} /\ Late = {}
    BY <1>0, <1>1, <1>4, <1>5, <1>11, FailStep
  <2>2. /\ cmd'.op = cmd.op /\ cmd'.end = cmd.end /\ cmd'.from = cmd.from /\ cmd'.at = cmd.at
        /\ cmd'.val = cmd.val /\ cmd'.buf = cmd.buf /\ cmd'.lost = cmd.lost /\ cmd'.pc # "l2update"
    BY <1>2, <1>11, FailEffect
  <2>3. /\ DOMAIN mem' = MemFields /\ mem'.free = mem.free /\ mem'.l1 = mem.l1 /\ mem'.rt = mem.rt
        /\ mem'.l2c = mem.l2c /\ mem'.rcc = mem.rcc
    BY <1>2, <1>11 DEF MemFields
  <2>4. DOMAIN truth' = DOMAIN truth /\ \A s \in Sectors : truth[s] \subseteq truth'[s]
    BY <1>1, <1>11 DEF RestShape
  <2>5. TruthInv'
    BY <1>0, <1>1, <1>4, <2>2, <2>4, GrowTruth
  <2>6. RestShape' /\ CacheInv'
    <3>1. mem'.free \in 0 .. FileClusters /\ FileShape(disk')
      BY <1>0, <1>1, <2>3 DEF RestShape
    <3>2. QED
      BY <1>0, <1>1, <1>2, <2>3, <2>4, <3>1, RestShapeDisk, CacheFrame
  <2>7. QED
    BY <1>0, <1>1, <1>4, <2>1, <2>5, <2>6, Assemble
<1>12. CASE /\ mem' = [mem EXCEPT !.dec = [at |-> Entry.at, data |-> data]] /\ truth' = truth
            /\ IF cmd.op = "read" THEN ReadAs([s \in Piece |-> Slot(data, s % ClusterSectors, "zero")])
               ELSE cmd' = [cmd EXCEPT !.pc = "scan", !.why = "compressed", !.scan = mem.free]
  <2> HIDE DEF data
  <2>1. /\ DOMAIN mem' = MemFields /\ mem'.free = mem.free /\ mem'.l1 = mem.l1 /\ mem'.rt = mem.rt
        /\ mem'.l2c = mem.l2c /\ mem'.rcc = mem.rcc
    BY <1>2, <1>12 DEF MemFields
  <2>2. RestShape' /\ CacheInv'
    BY <1>0, <1>1, <1>2, <1>12, <2>1, RestShapeFrame, CacheFrame
  <2>3. CASE cmd.op = "read" /\ ReadAs([s \in Piece |-> Slot(data, s % ClusterSectors, "zero")])
    <3>1. ASSUME NEW s \in Piece PROVE [z \in Piece |-> Slot(data, z % ClusterSectors, "zero")][s] \in truth[s]
      <4>1. s \in cmd.at .. cmd.end - 1 /\ s \div ClusterSectors = VCluster
        BY <1>1, PieceRange
      <4>2. s \in Sectors
        BY <1>1, <4>1
      <4>3. QED
        BY <1>0, <4>1, <4>2, InflatedData DEF data
    <3>2. CmdShape' /\ RangeInv' /\ PathInv' /\ AllocInv' /\ Late' = {} /\ TruthInv'
      BY <1>0, <1>12, <2>3, <3>1, ReadStep
    <3>3. QED
      BY <1>0, <1>1, <1>4, <1>6, <2>2, <3>2, Assemble
  <2>4. CASE cmd.op = "write" /\ cmd' = [cmd EXCEPT !.pc = "scan", !.why = "compressed", !.scan = mem.free]
    <3>1. /\ DOMAIN cmd' = CmdFields /\ SameRange /\ cmd'.pc = "scan" /\ cmd'.l2 = cmd.l2 /\ cmd'.rc = cmd.rc
          /\ cmd'.new = cmd.new /\ cmd'.rb = cmd.rb /\ cmd'.scan = mem.free /\ cmd'.why = "compressed"
      BY <1>2, <2>4 DEF CmdFields, SameRange
    <3>2. RangeInv' /\ Index' = Index /\ Within' = Within
      BY <1>0, <1>1, <1>2, <1>3, <1>4, <2>4, <3>1, MoveRange DEF PCs, RangeInv
    <3>3. CmdShape' /\ mem.free \in Nat
      BY <1>0, <1>1, <3>1, QcowAssumption DEF CmdShape, RestShape, SameRange, Sectors
    <3>4. ~InCounting' /\ ~Allocating({"l2table"})' /\ ~Allocating({"refblock"})' /\ Late' = {} /\ Here' = Here
      BY <1>0, <1>6, <3>1, <3>2 DEF InCounting, Allocating, Late, Here, Kinds
    <3>5. PathInv'
      <4>1. cmd'.why \in Kinds /\ cmd'.l2 \in DOMAIN mem'.l2c /\ disk'.l1[Index'] = cmd'.l2 /\ cmd'.l2 # 0 /\ Here'.kind = cmd'.why
        BY <1>0, <1>7, <2>1, <3>1, <3>2, <3>4 DEF Kinds
      <4>2. QED
        BY <3>1, <3>4, <4>1 DEF PathInv
    <3>6. AllocInv'
      BY <1>0, <1>6, <2>1, <3>1, <3>3, <3>4 DEF AllocInv
    <3>7. TruthInv'
      BY <1>0, <1>1, <1>4, <1>12, <3>1, KeepTruth DEF SameRange
    <3>8. QED
      BY <1>0, <1>1, <1>4, <1>6, <2>2, <3>2, <3>3, <3>4, <3>5, <3>6, <3>7, Assemble
  <2>5. QED
    BY <1>1, <1>12, <2>3, <2>4
<1>13. QED
  BY <1>10, <1>11, <1>12 DEF Inflate

\* The cached tables and blocks are not written to.
LEMMA CacheDisk ==
    ASSUME CacheInv, Still, mem'.l1 = mem.l1, mem'.rt = mem.rt, mem'.l2c = mem.l2c, mem'.rcc = mem.rcc,
           disk'.l1 = disk.l1, disk'.rt = disk.rt,
           Format # "raw" => \A c \in Clusters : IsTable(disk, c) \/ IsBlock(disk, c) => disk'.cl[c] = disk.cl[c]
    PROVE  CacheInv'
<1>1. Format' = Format /\ dev' = dev
  BY DEF Still, Format
<1>2. \A c : (IsTable(disk', c) <=> IsTable(disk, c)) /\ (IsBlock(disk', c) <=> IsBlock(disk, c))
  BY DEF IsTable, IsBlock
<1>3. ASSUME dev = "open", Format # "raw"
      PROVE  /\ \A c \in DOMAIN mem.l2c : c \in Clusters /\ IsTable(disk', c) /\ mem.l2c[c] = disk'.cl[c]
             /\ \A c \in DOMAIN mem.rcc : c \in Clusters /\ IsBlock(disk', c) /\ mem.rcc[c] = disk'.cl[c]
  BY <1>2, <1>3 DEF CacheInv
<1>4. QED
  BY <1>1, <1>3 DEF CacheInv

\* The state after a step that changed the file.
LEMMA AssembleDisk ==
    ASSUME CmdShape', RestShape', Format' # "raw" => FileInv(image', disk', Late'),
           CacheInv' /\ RangeInv' /\ PathInv' /\ AllocInv' /\ TruthInv'
    PROVE  QcowInv'
  BY ShapePartsNext DEF QcowInv, SoundInv

\* The cluster that holds the data at hand.
LEMMA DataCluster ==
    ASSUME QcowInv, Sound, cmd.pc = "data", NEW at, at = IF Format = "raw" THEN VCluster ELSE cmd.new
    PROVE  /\ at \in Clusters
           /\ \A s \in Sectors : s \div ClusterSectors = VCluster => Reads(image, disk, s) = Stored(disk, at, s)
           /\ \A s \in Sectors : Format = "raw" /\ s \div ClusterSectors # VCluster =>
                s \div ClusterSectors \in Clusters /\ s \div ClusterSectors # at
           /\ \A s \in Sectors : Format # "raw" /\ s \div ClusterSectors # VCluster /\ Full(Of(disk, s)) => Of(disk, s).at # at
           /\ Format # "raw" => /\ IsData(disk, at) /\ FileInv(image, disk, Late) /\ ~IsTable(disk, at) /\ ~IsBlock(disk, at)
<1>0. cmd.pc \in PCs \ {"idle", "done"}
  BY DEF PCs
<1>1. SoundInv /\ RestShape /\ cmd.at \in Sectors
  BY <1>0, Under
<1>2. CASE Format = "raw"
  <2>1. \A s \in Sectors : s \div ClusterSectors \in Clusters
    BY <1>1, <1>2 DEF RestShape, Geometry, Format, Sectors
  <2>2. at = VCluster /\ at \in Clusters
    BY <1>1, <1>2, <2>1 DEF VCluster
  <2>3. QED
    BY <1>2, <2>1, <2>2 DEF Reads, Format
<1>3. CASE Format # "raw"
  <2>1. cmd.l2 # 0 /\ disk.l1[Index] = cmd.l2 /\ Here.kind = "normal" /\ Here.at = at
    BY <1>1, <1>3 DEF SoundInv, PathInv
  <2>2. /\ FileInv(image, disk, Late) /\ at \in Clusters /\ IsData(disk, at) /\ Full(Here)
        /\ \A s \in Sectors : s \div ClusterSectors = VCluster => Of(disk, s) = Here
    BY <1>0, <1>3, <2>1, EntryHere DEF Full
  <2>3. ~IsTable(disk, at) /\ ~IsBlock(disk, at)
    BY <2>2 DEF FileInv, Exclusive
  <2>4. \A s \in Sectors : s \div ClusterSectors = VCluster => Reads(image, disk, s) = Stored(disk, at, s)
    BY <1>3, <2>1, <2>2 DEF Reads, Format
  <2>5. ASSUME NEW s \in Sectors, s \div ClusterSectors # VCluster, Full(Of(disk, s)), Of(disk, s).at = at
        PROVE  FALSE
    <3>1. Of(disk, cmd.at) = Here
      BY <1>1, <2>2 DEF VCluster
    <3>2. s \div ClusterSectors = cmd.at \div ClusterSectors
      BY <1>1, <2>1, <2>2, <2>5, <3>1, OneSource DEF Sectors
    <3>3. QED
      BY <2>5, <3>2 DEF VCluster
  <2>6. QED
    BY <1>3, <2>2, <2>3, <2>4, <2>5
<1>4. QED
  BY <1>2, <1>3

\* A part of a cluster's data has been written: its sectors read as written, the
\* others as before.
LEMMA DataWritten ==
    ASSUME QcowInv, Sound, cmd.pc = "data", NEW P, PartOfPiece(P), NEW at, at = IF Format = "raw" THEN VCluster ELSE cmd.new,
           NEW new, disk' = [disk EXCEPT !.cl[at] = new],
           \A s \in Nat : s \div ClusterSectors = VCluster =>
             Slot(new, s % ClusterSectors, "zero") = IF s \in P THEN cmd.val ELSE Slot(disk.cl[at], s % ClusterSectors, "zero")
    PROVE  /\ FileShape(disk') /\ disk'.l1 = disk.l1 /\ disk'.rt = disk.rt /\ disk'.end = disk.end
           /\ \A c \in Clusters : c # at => disk'.cl[c] = disk.cl[c]
           /\ \A s \in Sectors : Reads(image, disk', s) = IF s \in P THEN cmd.val ELSE Reads(image, disk, s)
<1>0. cmd.pc \in PCs \ {"idle", "done"}
  BY DEF PCs
<1>1. RestShape /\ cmd.at \in Nat /\ cmd.end \in Nat /\ cmd.at < cmd.end
  BY <1>0, Under
<1>2. FileShape(disk) /\ DOMAIN disk = DiskFields /\ DOMAIN disk.cl = Clusters
  BY <1>1 DEF RestShape, FileShape
<1>3. /\ at \in Clusters
      /\ \A s \in Sectors : s \div ClusterSectors = VCluster => Reads(image, disk, s) = Stored(disk, at, s)
      /\ \A s \in Sectors : Format = "raw" /\ s \div ClusterSectors # VCluster =>
           s \div ClusterSectors \in Clusters /\ s \div ClusterSectors # at
      /\ \A s \in Sectors : Format # "raw" /\ s \div ClusterSectors # VCluster /\ Full(Of(disk, s)) => Of(disk, s).at # at
      /\ Format # "raw" => IsData(disk, at) /\ FileInv(image, disk, Late) /\ ~IsTable(disk, at) /\ ~IsBlock(disk, at)
  BY DataCluster
<1>4. \A s \in Nat : s \div ClusterSectors = VCluster =>
        Slot(new, s % ClusterSectors, "zero") = IF s \in P THEN cmd.val ELSE Slot(disk.cl[at], s % ClusterSectors, "zero")
  OBVIOUS
<1>5. /\ DOMAIN disk' = DiskFields /\ disk'.l1 = disk.l1 /\ disk'.rt = disk.rt /\ disk'.end = disk.end
      /\ DOMAIN disk'.cl = Clusters /\ disk'.cl[at] = new /\ \A c \in Clusters : c # at => disk'.cl[c] = disk.cl[c]
  BY <1>2, <1>3 DEF DiskFields
<1>6. FileShape(disk')
  BY <1>2, <1>5 DEF FileShape
<1>7. \A s \in Sectors : s \in Nat
  BY <1>2, SectorIndex DEF Sectors
<1>8. \A s \in P : s \div ClusterSectors = VCluster
  BY <1>1, PieceRange DEF PartOfPiece
<1>9. ASSUME NEW s \in Sectors PROVE Reads(image, disk', s) = IF s \in P THEN cmd.val ELSE Reads(image, disk, s)
  <2>1. Stored(disk', at, s) = Slot(new, s % ClusterSectors, "zero") /\ Stored(disk, at, s) = Slot(disk.cl[at], s % ClusterSectors, "zero")
    BY <1>5 DEF Stored
  <2>2. CASE Format = "raw"
    <3>1. Reads(image, disk', s) = Stored(disk', s \div ClusterSectors, s) /\ Reads(image, disk, s) = Stored(disk, s \div ClusterSectors, s)
      BY <2>2 DEF Reads, Format
    <3>2. CASE s \div ClusterSectors = VCluster
      <4>1. s \div ClusterSectors = at
        BY <2>2, <3>2
      <4>2. QED
        BY <1>4, <1>7, <2>1, <3>1, <3>2, <4>1
    <3>3. CASE s \div ClusterSectors # VCluster
      <4>1. disk'.cl[s \div ClusterSectors] = disk.cl[s \div ClusterSectors]
        BY <1>3, <1>5, <2>2, <3>3
      <4>2. QED
        BY <1>8, <3>1, <3>3, <4>1 DEF Stored
    <3>4. QED
      BY <3>2, <3>3
  <2>3. CASE Format # "raw"
    <3>1. \A c \in Clusters : IsTable(disk, c) => disk'.cl[c] = disk.cl[c]
      BY <1>3, <1>5, <2>3
    <3>2. /\ Of(disk, s) \in EntryType /\ Of(disk, s).at \in Clusters
          /\ Table(disk, s) \in Clusters /\ (Table(disk, s) # 0 => IsTable(disk, Table(disk, s)))
      BY <1>3, <2>3, OfSector DEF Sectors
    <3>3. Of(disk', s) = Of(disk, s)
      BY <1>5, <3>1, <3>2 DEF Of, Table, Leads
    <3>4. CASE s \div ClusterSectors = VCluster
      <4>1. cmd.l2 # 0 /\ disk.l1[Index] = cmd.l2 /\ Here.kind = "normal" /\ Here.at = at
        BY <1>0, <2>3, Under DEF SoundInv, PathInv
      <4>2. Of(disk, s) = Here
        BY <1>0, <2>3, <3>4, <4>1, EntryHere
      <4>3. Reads(image, disk', s) = Stored(disk', at, s)
        BY <2>3, <3>3, <4>1, <4>2 DEF Reads, Format
      <4>4. QED
        BY <1>3, <1>4, <1>7, <2>1, <3>4, <4>3
    <3>5. CASE s \div ClusterSectors # VCluster
      <4>1. Full(Of(disk, s)) => disk'.cl[Of(disk, s).at] = disk.cl[Of(disk, s).at]
        BY <1>3, <1>5, <2>3, <3>2, <3>5
      <4>2. Reads(image, disk', s) = Reads(image, disk, s)
        <5>1. Probe(image) # "raw" /\ Of(disk, s) \in EntryType
          BY <2>3, <3>2 DEF Format
        <5>2. \A d2 : Of(d2, s) = Of(disk, s) /\ (Full(Of(disk, s)) => d2.cl[Of(disk, s).at] = disk.cl[Of(disk, s).at])
                => Reads(image, d2, s) = Reads(image, disk, s)
          BY <5>1, ReadsSame
        <5>3. QED
          BY <3>3, <4>1, <5>2
      <4>3. QED
        BY <1>8, <3>5, <4>2
    <3>6. QED
      BY <3>4, <3>5
  <2>4. QED
    BY <2>2, <2>3
<1>10. QED
  BY <1>5, <1>6, <1>9

\* Data is read or written.
LEMMA DataStep == ASSUME QcowInv, Data PROVE QcowInv'
<1> DEFINE at == IF Format = "raw" THEN VCluster ELSE cmd.new
<1>0. Sound /\ cmd.pc = "data" /\ Still /\ mem' = mem /\ truth' = truth
  BY DEF Data, At
<1>1. /\ Shape /\ SoundInv /\ CmdShape /\ RestShape
      /\ dev = "open" /\ mem.l1 = disk.l1 /\ mem.rt = disk.rt
      /\ cmd.at \in Nat /\ cmd.end \in Nat /\ cmd.from \in Nat /\ cmd.from <= cmd.at /\ cmd.at < cmd.end
      /\ cmd.op \in {"read", "write"} /\ cmd.pc \in PCs \ {"idle", "done"}
      /\ \A s \in Nat : s < cmd.end => s \in Sectors
  BY <1>0, Under DEF PCs
<1>2. CacheInv /\ RangeInv /\ AllocInv /\ PathInv /\ TruthInv /\ DOMAIN cmd = CmdFields /\ DOMAIN mem = MemFields
  BY <1>1 DEF SoundInv, CmdShape, RestShape
<1>3. ~InCounting
  BY <1>0 DEF InCounting, Allocating
<1>4. /\ at \in Clusters
      /\ \A s \in Sectors : s \div ClusterSectors = VCluster => Reads(image, disk, s) = Stored(disk, at, s)
      /\ Format # "raw" => IsData(disk, at) /\ FileInv(image, disk, Late) /\ ~IsTable(disk, at) /\ ~IsBlock(disk, at)
  BY <1>0, DataCluster
<1>5. CASE Fail /\ disk' = disk /\ met' = met
  <2>1. SectorsOf(disk') = SectorsOf(disk) /\ image' = image
    BY <1>0, <1>5 DEF Still
  <2>2. CmdShape' /\ RangeInv' /\ PathInv' /\ AllocInv' /\ Late' = {} /\ Late = {}
    BY <1>0, <1>1, <1>3, <1>5, <2>1, FailStep
  <2>3. /\ cmd'.op = cmd.op /\ cmd'.end = cmd.end /\ cmd'.from = cmd.from /\ cmd'.at = cmd.at
        /\ cmd'.val = cmd.val /\ cmd'.buf = cmd.buf /\ cmd'.lost = cmd.lost /\ cmd'.pc # "l2update"
    BY <1>2, <1>5, FailEffect
  <2>4. TruthInv'
    BY <1>0, <1>1, <1>5, <2>1, <2>3, KeepTruth
  <2>5. RestShape' /\ CacheInv'
    BY <1>0, <1>1, <1>2, <1>5, RestShapeFrame, CacheFrame
  <2>6. QED
    BY <1>1, <1>5, <2>1, <2>2, <2>4, <2>5, Assemble
<1>6. CASE cmd.op = "read" /\ ReadAs([s \in Piece |-> InFile(at, s)]) /\ disk' = disk /\ met' = met
  <2>1. ASSUME NEW s \in Piece PROVE [z \in Piece |-> InFile(at, z)][s] \in truth[s]
    <3>1. s \in cmd.at .. cmd.end - 1 /\ s \div ClusterSectors = VCluster
      BY <1>1, PieceRange
    <3>2. s \in Sectors
      BY <1>1, <3>1
    <3>3. Reads(image, disk, s) = InFile(at, s)
      BY <1>4, <3>1, <3>2 DEF InFile, Stored
    <3>4. QED
      BY <1>2, <3>2, <3>3 DEF TruthInv
  <2>2. CmdShape' /\ RangeInv' /\ PathInv' /\ AllocInv' /\ Late' = {} /\ Late = {} /\ TruthInv'
    BY <1>0, <1>6, <2>1, ReadStep
  <2>3. RestShape' /\ CacheInv' /\ image' = image
    BY <1>0, <1>1, <1>2, <1>6, RestShapeFrame, CacheFrame DEF Still
  <2>4. QED
    BY <1>1, <1>6, <2>2, <2>3, Assemble
<1>7. ASSUME NEW k \in cmd.at .. PieceEnd, cmd.op = "write", Onward(<< >>, k .. PieceEnd - 1), met' = met,
             disk' = [disk EXCEPT !.cl[at] = Over([i \in {s % ClusterSectors : s \in cmd.at .. k - 1} |-> cmd.val], @)]
      PROVE  QcowInv'
  <2> DEFINE P == cmd.at .. k - 1
  <2>0. PartOfPiece(P) /\ P \subseteq Piece /\ \A s \in Piece : s \notin P => s \in k .. PieceEnd - 1
    <3>1. PieceEnd \in cmd.at + 1 .. cmd.end
      BY <1>1, PieceRange
    <3>2. QED
      BY <1>1, <3>1 DEF Piece, PartOfPiece
  <2>1. /\ FileShape(disk') /\ disk'.l1 = disk.l1 /\ disk'.rt = disk.rt /\ disk'.end = disk.end
        /\ \A c \in Clusters : c # at => disk'.cl[c] = disk.cl[c]
        /\ \A s \in Sectors : Reads(image, disk', s) = IF s \in P THEN cmd.val ELSE Reads(image, disk, s)
    <3> DEFINE S == {s % ClusterSectors : s \in P}
               top == [i \in S |-> cmd.val]
               new == Over(top, disk.cl[at])
    <3>1. disk' = [disk EXCEPT !.cl[at] = new]
      BY <1>7
    <3>2. at = IF Format = "raw" THEN VCluster ELSE cmd.new
      OBVIOUS
    <3>3. (\A m : m \in DOMAIN top <=> \E z \in P : m = z % ClusterSectors) /\ \A i \in DOMAIN top : top[i] = cmd.val
      OBVIOUS
    <3> HIDE DEF P, at, S, top
    <3>4. \A s \in Nat : s \div ClusterSectors = VCluster =>
            Slot(new, s % ClusterSectors, "zero") = IF s \in P THEN cmd.val ELSE Slot(disk.cl[at], s % ClusterSectors, "zero")
      <4> SUFFICES ASSUME NEW s \in Nat, s \div ClusterSectors = VCluster
                   PROVE  Slot(new, s % ClusterSectors, "zero") = IF s \in P THEN cmd.val ELSE Slot(disk.cl[at], s % ClusterSectors, "zero")
        OBVIOUS
      <4> DEFINE t == disk.cl[at]
      <4> HIDE DEF t
      <4>1. Slot(Over(top, t), s % ClusterSectors, "zero") = IF s \in P THEN cmd.val ELSE Slot(t, s % ClusterSectors, "zero")
        BY <1>1, <2>0, <3>3, PieceWritten
      <4>2. QED
        BY <4>1 DEF t
    <3> HIDE DEF new
    <3>5. QED
      BY <1>0, <2>0, <3>1, <3>2, <3>4, DataWritten
  <2> HIDE DEF P
  <2>2. RestShape' /\ SectorsOf(disk') = SectorsOf(disk)
    <3>1. mem'.free \in 0 .. FileClusters /\ DOMAIN mem' = MemFields /\ DOMAIN truth' = DOMAIN truth
      BY <1>0, <1>1 DEF RestShape
    <3>2. QED
      BY <1>0, <1>1, <2>1, <3>1, RestShapeDisk
  <2>3. CmdShape' /\ RangeInv' /\ PathInv' /\ AllocInv' /\ Late' = {} /\ Late = {}
    <3>1. DOMAIN << >> \subseteq Piece
      OBVIOUS
    <3>2. QED
      BY <1>0, <1>7, <2>2, <3>1, OnwardStep
  <2>4. Format # "raw" => \A c \in Clusters : IsTable(disk, c) \/ IsBlock(disk, c) => disk'.cl[c] = disk.cl[c]
    BY <1>4, <2>1
  <2>5. CacheInv'
    BY <1>0, <1>2, <2>1, <2>4, CacheDisk
  <2>6. image' = image /\ Sectors' = Sectors /\ Format' = Format
    BY <1>0, <2>2 DEF Still, Sectors, Format
  <2>7. Format' # "raw" => FileInv(image', disk', Late')
    <3> SUFFICES ASSUME Format # "raw" PROVE FileInv(image, disk', Late)
      BY <2>3, <2>6
    <3>1. disk'.end >= disk.end /\ Geometry(image, disk)
      BY <1>1, <2>1 DEF FileShape, RestShape
    <3>2. QED
      BY <1>4, <2>1, <2>4, <3>1, FileFrame
  <2>8. /\ cmd'.at = PieceEnd /\ cmd'.pc # "l2update" /\ cmd'.lost = cmd.lost \cup (k .. PieceEnd - 1)
        /\ cmd'.op = cmd.op /\ cmd'.end = cmd.end /\ cmd'.from = cmd.from /\ cmd'.val = cmd.val
    <3> DEFINE L == k .. PieceEnd - 1
    <3>1. Onward(<< >>, L)
      BY <1>7
    <3> HIDE DEF L
    <3>2. /\ cmd'.at = PieceEnd /\ cmd'.pc # "l2update" /\ cmd'.lost = cmd.lost \cup L
          /\ cmd'.op = cmd.op /\ cmd'.end = cmd.end /\ cmd'.from = cmd.from /\ cmd'.val = cmd.val
      BY <1>2, <3>1, OnwardEffect
    <3>3. QED
      BY <3>2 DEF L
  <2>9. /\ PieceEnd \in cmd.at + 1 .. cmd.end
        /\ \A s \in Piece : s \in cmd.at .. cmd.end - 1
    BY <1>1, PieceRange
  <2>10. \A s \in cmd.from .. cmd.end - 1 : cmd.val \in truth[s]
    BY <1>2, <1>7 DEF TruthInv
  <2>11. ASSUME NEW s \in Sectors PROVE Reads(image, disk', s) \in truth[s]
    <3>1. CASE s \in P
      <4>1. s \in cmd.from .. cmd.end - 1
        BY <1>1, <2>0, <2>9, <3>1
      <4>2. QED
        BY <2>1, <2>10, <3>1, <4>1
    <3>2. CASE s \notin P
      BY <1>2, <2>1, <3>2 DEF TruthInv
    <3>3. QED
      BY <3>1, <3>2
  <2>12. ASSUME NEW s \in cmd.from .. PieceEnd - 1, s \notin cmd'.lost PROVE Reads(image, disk', s) = cmd.val
    <3>1. s \in Nat /\ s < cmd.end
      BY <1>1, <2>9
    <3>2. s \in Sectors
      BY <1>1, <3>1
    <3>3. CASE s \in Piece
      BY <2>0, <2>1, <2>8, <2>12, <3>2, <3>3
    <3>4. CASE s \notin Piece
      <4>1. s \in cmd.from .. cmd.at - 1
        BY <1>1, <2>9, <3>4 DEF Piece
      <4>2. QED
        BY <1>2, <1>7, <2>0, <2>1, <2>8, <2>12, <3>2, <3>4, <4>1 DEF TruthInv
    <3>5. QED
      BY <3>3, <3>4
  <2>13. TruthInv'
    BY <1>0, <1>7, <2>6, <2>8, <2>10, <2>11, <2>12 DEF TruthInv
  <2>14. QED
    BY <2>2, <2>3, <2>5, <2>7, <2>13, AssembleDisk
<1>8. QED
  BY <1>5, <1>6, <1>7 DEF Data

-----------------------------------------------------------------------------
(* Allocating.                                                             *)

\* A cluster that is not counted and not about to be counted is not used.
LEMMA NotCounted ==
    ASSUME FileInv(image, disk, Late), Format = "qcow2", NEW c \in Clusters, Refcount(disk, c) = 0, c \notin Late
    PROVE  ~Used(image, disk, c)
  BY DEF FileInv, Counts, Format

\* The search for a free cluster.
LEMMA ScanStep == ASSUME QcowInv, Scan PROVE QcowInv'
<1> DEFINE block == mem.rt[cmd.scan \div RcSlots]
<1>0. Sound /\ cmd.pc = "scan" /\ Still /\ disk' = disk /\ truth' = truth
  BY DEF Scan, At
<1>1. /\ Shape /\ SoundInv /\ CmdShape /\ RestShape
      /\ dev = "open" /\ mem.l1 = disk.l1 /\ mem.rt = disk.rt
      /\ cmd.op \in {"read", "write"} /\ cmd.pc \in PCs \ {"idle", "done"} /\ Format \in {"raw", "qcow", "qcow2"}
  BY <1>0, Under DEF PCs
<1>2. CacheInv /\ RangeInv /\ AllocInv /\ PathInv /\ TruthInv /\ DOMAIN cmd = CmdFields /\ DOMAIN mem = MemFields
  BY <1>1 DEF SoundInv, CmdShape, RestShape
<1>3. Format # "raw" /\ cmd.op = "write"
  BY <1>0, <1>2 DEF RangeInv
<1>4. image' = image /\ SectorsOf(disk') = SectorsOf(disk) /\ Sectors' = Sectors /\ Format' = Format
  BY <1>0 DEF Still, Sectors, Format
<1>5. FileInv(image, disk, Late) /\ Geometry(image, disk) /\ FileShape(disk)
  BY <1>1, <1>3 DEF SoundInv, RestShape
<1>6. ASSUME DOMAIN cmd' = CmdFields, SameRange, cmd'.pc \in {"scan", "alloc"}, cmd'.l2 = cmd.l2, cmd'.rc = cmd.rc,
             cmd'.new = cmd.new, cmd'.rb = cmd.rb, cmd'.why = cmd.why, cmd'.ret = cmd.ret, cmd'.scan \in 0 .. FileClusters,
             DOMAIN mem' = MemFields, mem'.free = mem.free, mem'.l2c = mem.l2c, CacheInv',
             cmd'.pc = "scan" => cmd'.scan >= mem.free,
             cmd'.pc = "alloc" => /\ Format = "qcow2" => cmd'.scan >= mem.free
                                  /\ cmd'.scan < FileClusters => ~Used(image, disk, cmd'.scan)
                                  /\ Format = "qcow" => cmd'.scan = disk.end
      PROVE  QcowInv'
  <2>1. RangeInv' /\ Index' = Index /\ Within' = Within
    BY <1>0, <1>1, <1>2, <1>3, <1>4, <1>6, MoveRange DEF PCs, RangeInv
  <2>2. CmdShape' /\ RestShape'
    <3>1. CmdShape'
      BY <1>1, <1>4, <1>6 DEF CmdShape, SameRange
    <3>2. RestShape'
      BY <1>0, <1>1, <1>6, RestShapeFrame
    <3>3. QED
      BY <3>1, <3>2
  <2>3. (\A w : Allocating(w)' <=> Allocating(w)) /\ Late' = Late /\ Here' = Here /\ (InCounting' <=> InCounting)
    BY <1>0, <1>6, <2>1 DEF InCounting, Allocating, Late, Here
  <2>4. PathInv'
    BY <1>0, <1>2, <1>3, <1>4, <1>6, <2>1, <2>3 DEF PathInv
  <2>5. AllocInv'
    BY <1>0, <1>2, <1>4, <1>6, <2>3 DEF AllocInv
  <2>6. TruthInv'
    BY <1>0, <1>1, <1>4, <1>6, KeepTruth DEF SameRange
  <2>7. QED
    BY <1>0, <1>1, <1>4, <1>6, <2>1, <2>2, <2>3, <2>4, <2>5, <2>6, Assemble
<1>7. CASE Format = "qcow" /\ cmd' = [cmd EXCEPT !.pc = "alloc", !.scan = disk.end] /\ mem' = mem
  <2>1. /\ DOMAIN cmd' = CmdFields /\ SameRange /\ cmd'.pc = "alloc" /\ cmd'.l2 = cmd.l2 /\ cmd'.rc = cmd.rc
        /\ cmd'.new = cmd.new /\ cmd'.rb = cmd.rb /\ cmd'.why = cmd.why /\ cmd'.ret = cmd.ret /\ cmd'.scan = disk.end
    BY <1>2, <1>7 DEF CmdFields, SameRange
  <2>2. CacheInv'
    BY <1>0, <1>2, <1>7, CacheFrame
  <2>3. disk.end \in 0 .. FileClusters /\ (disk.end < FileClusters => ~Used(image, disk, disk.end))
    <3>1. disk.end \in 1 .. FileClusters
      BY <1>5 DEF FileShape
    <3>2. ASSUME disk.end < FileClusters, Used(image, disk, disk.end) PROVE FALSE
      <4>1. disk.end \in Clusters
        BY <3>1, <3>2, QcowAssumption DEF Clusters
      <4>2. disk.end < disk.end
        BY <1>5, <3>2, <4>1 DEF FileInv, Exclusive
      <4>3. QED
        BY <3>1, <4>2
    <3>3. QED
      BY <3>1, <3>2, QcowAssumption
  <2>4. QED
    BY <1>2, <1>6, <1>7, <2>1, <2>2, <2>3
<1>8. ASSUME Step("alloc"), Format = "qcow2", CacheInv', DOMAIN mem' = MemFields, mem'.free = mem.free, mem'.l2c = mem.l2c,
             cmd.scan < FileClusters => Refcount(disk, cmd.scan) = 0
      PROVE  QcowInv'
  <2>1. /\ DOMAIN cmd' = CmdFields /\ SameRange /\ cmd'.pc = "alloc" /\ cmd'.l2 = cmd.l2 /\ cmd'.rc = cmd.rc
        /\ cmd'.new = cmd.new /\ cmd'.rb = cmd.rb /\ cmd'.why = cmd.why /\ cmd'.ret = cmd.ret /\ cmd'.scan = cmd.scan
    BY <1>2, <1>8 DEF CmdFields, SameRange, Step
  <2>2. cmd.scan \in 0 .. FileClusters /\ cmd.scan >= mem.free /\ mem.free \in Nat
    BY <1>0, <1>1, <1>2, QcowAssumption DEF CmdShape, AllocInv, RestShape
  <2>3. ASSUME cmd.scan < FileClusters PROVE ~Used(image, disk, cmd.scan)
    <3>1. cmd.scan \in Clusters
      BY <2>2, <2>3, QcowAssumption DEF Clusters
    <3>2. cmd.scan \notin Late
      <4>1. cmd.scan \in Late => cmd.scan < mem.free
        BY <1>2 DEF AllocInv
      <4>2. QED
        BY <2>2, <4>1
    <3>3. QED
      BY <1>5, <1>8, <2>3, <3>1, <3>2, NotCounted
  <2>4. QED
    BY <1>6, <1>8, <2>1, <2>2, <2>3
<1>9. ASSUME Format = "qcow2", cmd.scan # FileClusters
      PROVE  /\ cmd.scan \in Clusters /\ block \in Clusters /\ cmd.scan < FileClusters
             /\ block # 0 => IsBlock(disk, block)
             /\ Refcount(disk, cmd.scan) = IF block = 0 THEN 0 ELSE GetRefcount(disk.cl[block], cmd.scan)
  <2>1. cmd.scan \in Clusters /\ cmd.scan < FileClusters
    BY <1>1, <1>9, QcowAssumption DEF CmdShape, Clusters
  <2>2. cmd.scan \div RcSlots \in DOMAIN disk.rt
    BY <1>5, <1>9, <2>1 DEF Geometry, Format
  <2>3. block \in Clusters
    BY <1>1, <1>5, <2>2 DEF FileShape
  <2>4. block # 0 => IsBlock(disk, block)
    BY <1>1, <2>2 DEF IsBlock
  <2>5. QED
    BY <1>1, <2>1, <2>3, <2>4 DEF Refcount
<1>10. CASE Format = "qcow2" /\ (cmd.scan = FileClusters \/ block = 0) /\ Step("alloc") /\ mem' = mem
  <2>1. CacheInv' /\ DOMAIN mem' = MemFields /\ mem'.free = mem.free /\ mem'.l2c = mem.l2c
    BY <1>0, <1>2, <1>10, CacheFrame
  <2>2. cmd.scan < FileClusters => Refcount(disk, cmd.scan) = 0
    <3> SUFFICES ASSUME cmd.scan < FileClusters PROVE Refcount(disk, cmd.scan) = 0
      OBVIOUS
    <3>1. cmd.scan # FileClusters
      BY QcowAssumption
    <3>2. QED
      BY <1>9, <1>10, <3>1
  <2>3. QED
    BY <1>8, <1>10, <2>1, <2>2
<1>11. CASE ReadFails /\ Step("alloc") /\ mem' = mem
  <2>1. /\ DOMAIN cmd' = CmdFields /\ SameRange /\ cmd'.pc = "alloc" /\ cmd'.l2 = cmd.l2
        /\ cmd'.new = cmd.new /\ cmd'.rb = cmd.rb /\ cmd'.scan = cmd.scan
    BY <1>2, <1>11 DEF CmdFields, SameRange, Step
  <2>2. CmdShape'
    BY <1>1, <1>4, <2>1 DEF CmdShape, SameRange
  <2>3. RestShape'
    BY <1>0, <1>1, <1>2, <1>11, RestShapeFrame
  <2>4. ~Sound'
    BY <1>11 DEF ReadFails, Sound
  <2>5. QED
    BY <2>2, <2>3, <2>4, ShapePartsNext DEF QcowInv
<1>12. ASSUME Format = "qcow2", cmd.scan # FileClusters, block # 0, NEW cache \in RcCacheLookup(block),
              mem' = [mem EXCEPT !.rcc = cache],
              IF GetRefcount(cache[block], cmd.scan) = 0 THEN Step("alloc") ELSE cmd' = [cmd EXCEPT !.scan = @ + 1]
       PROVE  QcowInv'
  <2>1. /\ cmd.scan \in Clusters /\ block \in Clusters /\ cmd.scan < FileClusters /\ IsBlock(disk, block)
        /\ Refcount(disk, cmd.scan) = GetRefcount(disk.cl[block], cmd.scan)
    BY <1>9, <1>12
  <2>2. /\ CacheInv' /\ DOMAIN mem' = MemFields /\ mem'.free = mem.free /\ mem'.l2c = mem.l2c
        /\ block \in DOMAIN cache /\ cache[block] = disk.cl[block]
    BY <1>0, <1>1, <1>2, <1>3, <1>12, <2>1, RcCached
  <2>3. CASE GetRefcount(cache[block], cmd.scan) = 0
    <3>1. Step("alloc") /\ Refcount(disk, cmd.scan) = 0
      BY <1>12, <2>1, <2>2, <2>3
    <3>2. QED
      BY <1>8, <1>12, <2>2, <3>1
  <2>4. CASE cmd' = [cmd EXCEPT !.scan = @ + 1]
    <3>1. /\ DOMAIN cmd' = CmdFields /\ SameRange /\ cmd'.pc = "scan" /\ cmd'.l2 = cmd.l2 /\ cmd'.rc = cmd.rc
          /\ cmd'.new = cmd.new /\ cmd'.rb = cmd.rb /\ cmd'.why = cmd.why /\ cmd'.ret = cmd.ret /\ cmd'.scan = cmd.scan + 1
      BY <1>0, <1>2, <2>4 DEF CmdFields, SameRange
    <3>2. cmd.scan + 1 \in 0 .. FileClusters /\ cmd.scan + 1 >= mem.free
      <4>1. cmd.scan >= mem.free /\ mem.free \in Nat
        BY <1>0, <1>1, <1>2, QcowAssumption DEF AllocInv, RestShape
      <4>2. QED
        BY <2>1, <4>1, QcowAssumption DEF Clusters
    <3>3. QED
      BY <1>6, <2>2, <3>1, <3>2
  <2>5. QED
    BY <1>12, <2>3, <2>4
<1>13. QED
  <2>1. CASE Format = "qcow"
    BY <1>7, <2>1 DEF Scan
  <2>2. CASE Format = "qcow2" /\ (cmd.scan = FileClusters \/ block = 0)
    BY <1>10, <2>2 DEF Scan
  <2>3. CASE Format = "qcow2" /\ ~(cmd.scan = FileClusters \/ block = 0)
    BY <1>11, <1>12, <2>3 DEF Scan
  <2>4. QED
    BY <1>1, <1>3, <2>1, <2>2, <2>3

\* The clusters that are about to be counted.
LEMMA LateRange ==
    ASSUME cmd.rc \in Seq(1 .. FileClusters - 1)
    PROVE  \A b \in Late : b \in 1 .. FileClusters - 1
<1> DEFINE S == 1 .. FileClusters - 1
<1> HIDE DEF S
<1>1. cmd.rc \in Seq(S)
  BY DEF S
<1>2. \A k \in DOMAIN cmd.rc : cmd.rc[k] \in S
  BY <1>1
<1>3. QED
  BY <1>2 DEF Late, S

\* What writing a cluster, at the end of the file or inside, does to the file.
LEMMA FreshEffect ==
    ASSUME FileShape(disk), NEW c \in Clusters, NEW f, disk' = [disk EXCEPT !.cl[c] = f, !.end = IF c < @ THEN @ ELSE c + 1]
    PROVE  /\ DOMAIN disk' = DiskFields /\ disk'.l1 = disk.l1 /\ disk'.rt = disk.rt /\ disk'.end = IF c < disk.end THEN disk.end ELSE c + 1
           /\ DOMAIN disk'.cl = Clusters /\ disk'.cl[c] = f /\ \A b \in Clusters : b # c => disk'.cl[b] = disk.cl[b]
<1>1. DOMAIN disk = DiskFields /\ DOMAIN disk.cl = Clusters
  BY DEF FileShape
<1>2. QED
  BY <1>1 DEF DiskFields

\* A cluster that is not used is written.
LEMMA FreshCluster ==
    ASSUME RestShape, FileInv(image, disk, Late), Format # "raw", NEW c \in Clusters, ~Used(image, disk, c), NEW f,
           DOMAIN disk' = DiskFields, disk'.l1 = disk.l1, disk'.rt = disk.rt, disk'.end = IF c < disk.end THEN disk.end ELSE c + 1,
           DOMAIN disk'.cl = Clusters, disk'.cl[c] = f, \A b \in Clusters : b # c => disk'.cl[b] = disk.cl[b]
    PROVE  /\ FileShape(disk') /\ c < disk'.end
           /\ \A b \in Clusters : IsTable(disk, b) \/ IsBlock(disk, b) \/ IsData(disk, b) => disk'.cl[b] = disk.cl[b]
           /\ FileInv(image, disk', Late)
           /\ \A b : Used(image, disk', b) <=> Used(image, disk, b)
           /\ \A s \in Sectors : Reads(image, disk', s) = Reads(image, disk, s)
<1>1. FileShape(disk) /\ Geometry(image, disk) /\ disk.end \in 1 .. FileClusters
  BY DEF RestShape, FileShape
<1>3. c \in Nat /\ c < FileClusters /\ FileClusters \in Nat
  BY QcowAssumption DEF Clusters
<1>4. disk'.end \in 1 .. FileClusters /\ disk'.end >= disk.end /\ c < disk'.end
  BY <1>1, <1>3
<1>5. FileShape(disk')
  BY <1>1, <1>4 DEF FileShape
<1>6. \A b \in Clusters : IsTable(disk, b) \/ IsBlock(disk, b) \/ IsData(disk, b) => disk'.cl[b] = disk.cl[b]
  BY DEF Used
<1>7. FileInv(image, disk', Late)
  BY <1>1, <1>4, <1>5, <1>6, FileFrame
<1>8. \A b : Used(image, disk', b) <=> Used(image, disk, b)
  BY <1>1, <1>6, SameTables
<1>9. \A s \in Sectors : Reads(image, disk', s) = Reads(image, disk, s)
  BY <1>6, ReadsFrame DEF Format, Sectors
<1>10. QED
  BY <1>4, <1>5, <1>6, <1>7, <1>8, <1>9

\* What the return of qcow2_set_refcount does to the command.
LEMMA CountedEffect ==
    ASSUME DOMAIN cmd = CmdFields, cmd' = Counted
    PROVE  /\ DOMAIN cmd' = CmdFields /\ SameRange /\ cmd'.l2 = cmd.l2 /\ cmd'.new = cmd.new /\ cmd'.rb = cmd.rb
           /\ cmd'.scan = cmd.scan /\ cmd'.ret = cmd.ret /\ cmd'.rc = Tail(cmd.rc)
           /\ cmd'.pc = IF Len(cmd.rc) = 1 THEN cmd.ret ELSE "count"
  BY DEF Counted, CmdFields, SameRange

\* The contents of a new cluster are what its sectors may read as.
LEMMA Filled ==
    ASSUME QcowInv, DecInv, Sound, cmd.pc = "alloc", Format # "raw", cmd.why \in Kinds, NEW s \in Sectors, s \div ClusterSectors = VCluster
    PROVE  Slot(Fill, s % ClusterSectors, "zero") \in truth[s] \cup (CASE cmd.why = "none" -> {"zero"}
                                               [] cmd.why = "zero" -> {"header"} [] OTHER -> {})
<1>0. cmd.pc \in PCs \ {"idle", "done"}
  BY DEF PCs
<1>1. SoundInv /\ RestShape /\ dev = "open"
  BY <1>0, Under
<1>2. CacheInv /\ PathInv /\ TruthInv /\ Allocating(Kinds)
  BY <1>1 DEF SoundInv, Allocating
<1>3. cmd.l2 # 0 /\ disk.l1[Index] = cmd.l2 /\ cmd.l2 \in DOMAIN mem.l2c /\ Here.kind = cmd.why
  BY <1>2 DEF PathInv
<1>4. CASE cmd.why = "none"
  <2>1. Fill = << >>
    BY <1>4 DEF Fill
  <2>2. Slot(Fill, s % ClusterSectors, "zero") = "zero"
    BY <2>1 DEF Slot
  <2>3. QED
    BY <1>4, <2>2
<1>5. CASE cmd.why = "zero"
  <2>1. Fill = [i \in 0 .. ClusterSectors - 1 |-> "header"]
    BY <1>5 DEF Fill
  <2>2. s % ClusterSectors \in 0 .. ClusterSectors - 1
    BY <1>1, SectorIndex DEF RestShape, Sectors
  <2>3. Slot(Fill, s % ClusterSectors, "zero") = "header"
    BY <2>1, <2>2 DEF Slot
  <2>4. QED
    BY <1>5, <2>3
<1>6. CASE cmd.why = "normal"
  <2>1. Entry = Here
    BY <1>1, <1>2, <1>3, <1>6, EntryInCache
  <2>2. Fill = disk.cl[Here.at]
    BY <1>6, <2>1 DEF Fill
  <2>3. Of(disk, s) = Here
    BY <1>0, <1>3, EntryHere
  <2>4. Reads(image, disk, s) = Stored(disk, Here.at, s)
    BY <1>3, <1>6, <2>3 DEF Reads, Format
  <2>5. Slot(Fill, s % ClusterSectors, "zero") \in truth[s]
    BY <1>2, <2>2, <2>4 DEF TruthInv, Stored
  <2>6. QED
    BY <2>5
<1>7. CASE cmd.why = "compressed"
  <2>1. Fill = mem.dec.data /\ Of(disk, s) = Here /\ Allocating({"compressed"})
    BY <1>0, <1>3, <1>7, EntryHere DEF Fill, Allocating
  <2>2. Slot(Fill, s % ClusterSectors, "zero") \in truth[s]
    BY <1>1, <1>3, <1>7, <2>1 DEF DecInv, Inflated
  <2>3. QED
    BY <2>2
<1>8. QED
  BY <1>4, <1>5, <1>6, <1>7 DEF Kinds

\* A new cluster.
LEMMA AllocateStep == ASSUME QcowInv, Sound => DecInv, Allocate PROVE QcowInv'
<1> DEFINE c == cmd.scan
<1>0. Sound /\ cmd.pc = "alloc" /\ Still
  BY DEF Allocate, At
<1>1. /\ Shape /\ SoundInv /\ CmdShape /\ RestShape
      /\ dev = "open" /\ mem.l1 = disk.l1 /\ mem.rt = disk.rt
      /\ cmd.op \in {"read", "write"} /\ cmd.pc \in PCs \ {"idle", "done"} /\ Format \in {"raw", "qcow", "qcow2"}
  BY <1>0, Under DEF PCs
<1>2. CacheInv /\ RangeInv /\ AllocInv /\ PathInv /\ TruthInv /\ DOMAIN cmd = CmdFields /\ DOMAIN mem = MemFields
  BY <1>1 DEF SoundInv, CmdShape, RestShape
<1>3. Format # "raw" /\ cmd.op = "write" /\ cmd.rc \in Seq(1 .. FileClusters - 1)
  BY <1>0, <1>2 DEF RangeInv
<1>4. cmd.why \in Kinds \cup {"l2table", "refblock"}
  BY <1>0, <1>2, <1>3 DEF PathInv
<1>5. FileInv(image, disk, Late) /\ 0 \in image.fixed /\ mem.free \in 0 .. FileClusters /\ FileClusters \in Nat \ {0}
  BY <1>1, <1>3, QcowAssumption DEF SoundInv, RestShape, Geometry
<1>6. image' = image /\ Format' = Format
  BY <1>0 DEF Still, Format
<1>7. ASSUME c < FileClusters
      PROVE  /\ c \in Clusters /\ c \in 1 .. FileClusters - 1 /\ ~Used(image, disk, c)
             /\ Format = "qcow2" => c >= mem.free
  <2>1. c \in Clusters
    BY <1>1, <1>7, QcowAssumption DEF CmdShape, Clusters
  <2>2. ~Used(image, disk, c) /\ (Format = "qcow2" => c >= mem.free)
    BY <1>0, <1>2, <1>7 DEF AllocInv
  <2>3. c # 0
    BY <1>5, <2>2 DEF Used
  <2>4. QED
    BY <2>1, <2>2, <2>3, QcowAssumption DEF Clusters
<1>8. ASSUME cmd.why # "refblock", Fail, RestShape', CacheInv', FileInv(image, disk', Late), SectorsOf(disk') = SectorsOf(disk),
             \A s \in Sectors : Reads(image, disk', s) = Reads(image, disk, s), truth' = truth
      PROVE  QcowInv'
  <2>1. ~InCounting
    BY <1>0, <1>8 DEF InCounting, Allocating
  <2>2. CmdShape' /\ RangeInv' /\ PathInv' /\ AllocInv' /\ Late' = {} /\ Late = {}
    BY <1>0, <1>1, <1>8, <2>1, FailStep
  <2>3. /\ cmd'.op = cmd.op /\ cmd'.end = cmd.end /\ cmd'.from = cmd.from /\ cmd'.at = cmd.at
        /\ cmd'.val = cmd.val /\ cmd'.buf = cmd.buf /\ cmd'.lost = cmd.lost /\ cmd'.pc # "l2update"
    BY <1>2, <1>8, FailEffect
  <2>4. TruthInv'
    BY <1>0, <1>1, <1>8, <2>3, KeepTruth
  <2>5. QED
    BY <1>6, <1>8, <2>2, <2>4, AssembleDisk
<1>9. CASE cmd.why = "refblock" /\ cmd' = Counted /\ met' = met \cup {"uncounted"} /\ disk' = disk /\ mem' = mem /\ truth' = truth
  <2>1. /\ DOMAIN cmd' = CmdFields /\ SameRange /\ cmd'.l2 = cmd.l2 /\ cmd'.new = cmd.new /\ cmd'.rb = cmd.rb
        /\ cmd'.scan = cmd.scan
    BY <1>2, <1>9, CountedEffect
  <2>2. CmdShape'
    BY <1>1, <1>9, <2>1 DEF CmdShape, SameRange, Sectors
  <2>3. RestShape'
    BY <1>0, <1>1, <1>2, <1>9, RestShapeFrame
  <2>4. ~Sound'
    BY <1>9 DEF Sound
  <2>5. QED
    BY <2>2, <2>3, <2>4, ShapePartsNext DEF QcowInv
<1>10. CASE cmd.why # "refblock" /\ Fail /\ disk' = disk /\ mem' = mem /\ truth' = truth
  <2>1. RestShape' /\ CacheInv'
    BY <1>0, <1>1, <1>2, <1>10, RestShapeFrame, CacheFrame
  <2>2. QED
    BY <1>5, <1>8, <1>10, <2>1
<1>11. ASSUME c < FileClusters, NEW f, disk' = [disk EXCEPT !.cl[c] = f, !.end = IF c < @ THEN @ ELSE c + 1],
              mem' = IF Format = "qcow2" THEN [mem EXCEPT !.free = c + 1] ELSE mem, DOMAIN truth' = DOMAIN truth
       PROVE  /\ RestShape' /\ CacheInv' /\ FileInv(image, disk', Late) /\ SectorsOf(disk') = SectorsOf(disk)
              /\ disk'.l1 = disk.l1 /\ disk'.rt = disk.rt /\ disk'.cl[c] = f /\ c < disk'.end
              /\ \A b \in Clusters : IsTable(disk, b) => disk'.cl[b] = disk.cl[b]
              /\ \A b : Used(image, disk', b) <=> Used(image, disk, b)
              /\ \A s \in Sectors : Reads(image, disk', s) = Reads(image, disk, s)
              /\ mem'.l2c = mem.l2c /\ mem'.free = IF Format = "qcow2" THEN c + 1 ELSE mem.free
  <2>1. c \in Clusters /\ ~Used(image, disk, c)
    BY <1>7, <1>11
  <2>2. /\ FileShape(disk') /\ disk'.l1 = disk.l1 /\ disk'.rt = disk.rt /\ disk'.cl[c] = f /\ c < disk'.end
        /\ \A b \in Clusters : IsTable(disk, b) \/ IsBlock(disk, b) \/ IsData(disk, b) => disk'.cl[b] = disk.cl[b]
        /\ FileInv(image, disk', Late)
        /\ \A b : Used(image, disk', b) <=> Used(image, disk, b)
        /\ \A s \in Sectors : Reads(image, disk', s) = Reads(image, disk, s)
    <3>1. /\ DOMAIN disk' = DiskFields /\ disk'.l1 = disk.l1 /\ disk'.rt = disk.rt /\ disk'.end = IF c < disk.end THEN disk.end ELSE c + 1
          /\ DOMAIN disk'.cl = Clusters /\ disk'.cl[c] = f /\ \A b \in Clusters : b # c => disk'.cl[b] = disk.cl[b]
      BY <1>1, <1>11, <2>1, FreshEffect DEF RestShape
    <3>2. QED
      BY <1>1, <1>3, <1>5, <2>1, <3>1, FreshCluster
  <2>3. /\ DOMAIN mem' = MemFields /\ mem'.free = IF Format = "qcow2" THEN c + 1 ELSE mem.free
        /\ mem'.l1 = mem.l1 /\ mem'.rt = mem.rt /\ mem'.l2c = mem.l2c /\ mem'.rcc = mem.rcc
    BY <1>2, <1>11 DEF MemFields
  <2>4. mem'.free \in 0 .. FileClusters
    <3>1. c \in 0 .. FileClusters
      BY <1>1 DEF CmdShape
    <3>2. QED
      BY <1>5, <1>11, <2>3, <3>1
  <2>5. RestShape' /\ SectorsOf(disk') = SectorsOf(disk)
    BY <1>0, <1>1, <1>11, <2>2, <2>3, <2>4, RestShapeDisk
  <2>6. CacheInv'
    BY <1>0, <1>2, <2>2, <2>3, CacheDisk
  <2>7. QED
    BY <2>2, <2>3, <2>5, <2>6
<1>12. CASE /\ c < FileClusters /\ cmd.why \in {"normal", "zero", "compressed"} /\ Fail /\ truth' = truth
            /\ disk' = [disk EXCEPT !.cl[c] = << >>, !.end = IF c < @ THEN @ ELSE c + 1]
            /\ mem' = IF Format = "qcow2" THEN [mem EXCEPT !.free = c + 1] ELSE mem
  BY <1>8, <1>11, <1>12
<1>13. CASE /\ c < FileClusters
            /\ disk' = [disk EXCEPT !.cl[c] = Fill, !.end = IF c < @ THEN @ ELSE c + 1]
            /\ mem' = IF Format = "qcow2" THEN [mem EXCEPT !.free = c + 1] ELSE mem
            /\ Took(c)
            /\ truth' = [s \in DOMAIN truth |->
                           IF s \div ClusterSectors # VCluster THEN truth[s]
                           ELSE truth[s] \cup (CASE cmd.why = "none" -> {"zero"}
                                                 [] cmd.why = "zero" -> {"header"} [] OTHER -> {})]
  <2>1. DOMAIN truth' = DOMAIN truth /\ DOMAIN truth = Sectors
    BY <1>1, <1>13 DEF RestShape
  <2>2. /\ RestShape' /\ CacheInv' /\ FileInv(image, disk', Late) /\ SectorsOf(disk') = SectorsOf(disk)
        /\ disk'.l1 = disk.l1 /\ disk'.rt = disk.rt /\ disk'.cl[c] = Fill /\ c < disk'.end
        /\ \A b \in Clusters : IsTable(disk, b) => disk'.cl[b] = disk.cl[b]
        /\ \A b : Used(image, disk', b) <=> Used(image, disk, b)
        /\ \A s \in Sectors : Reads(image, disk', s) = Reads(image, disk, s)
        /\ mem'.l2c = mem.l2c /\ mem'.free = IF Format = "qcow2" THEN c + 1 ELSE mem.free
    BY <1>11, <1>13, <2>1
  <2>3. c \in Clusters /\ c \in 1 .. FileClusters - 1 /\ ~Used(image, disk, c) /\ (Format = "qcow2" => c >= mem.free)
    BY <1>7, <1>13
  <2>4. /\ DOMAIN cmd' = CmdFields /\ SameRange /\ cmd'.l2 = cmd.l2 /\ cmd'.rc = cmd.rc /\ cmd'.scan = cmd.scan
        /\ cmd'.ret = cmd.ret
        /\ cmd.why = "refblock" => cmd'.pc = "rcupdate" /\ cmd'.rb = c /\ cmd'.new = cmd.new
        /\ cmd.why = "l2table" => cmd'.pc = "l1update" /\ cmd'.new = c /\ cmd'.rb = cmd.rb
        /\ cmd.why \in Kinds => cmd'.pc = "l2update" /\ cmd'.new = c /\ cmd'.rb = cmd.rb
    <3>1. CASE cmd.why = "refblock"
      <4>1. cmd' = [cmd EXCEPT !.rb = c, !.pc = "rcupdate"]
        BY <1>13, <3>1 DEF Took
      <4>2. QED
        BY <1>2, <3>1, <4>1 DEF CmdFields, SameRange, Kinds
    <3>2. CASE cmd.why = "l2table"
      <4>1. cmd' = [cmd EXCEPT !.new = c, !.pc = "l1update"]
        BY <1>13, <3>2 DEF Took
      <4>2. QED
        BY <1>2, <3>2, <4>1 DEF CmdFields, SameRange, Kinds
    <3>3. CASE cmd.why \in Kinds
      <4>1. cmd' = [cmd EXCEPT !.new = c, !.pc = "l2update"]
        BY <1>13, <3>3 DEF Took, Kinds
      <4>2. QED
        BY <1>2, <3>3, <4>1 DEF CmdFields, SameRange, Kinds
    <3>4. QED
      BY <1>4, <3>1, <3>2, <3>3
  <2>5. RangeInv' /\ Index' = Index /\ Within' = Within /\ VCluster' = VCluster
    <3>1. cmd'.pc \in {"rcupdate", "l1update", "l2update"}
      BY <1>4, <2>4
    <3>2. QED
      BY <1>0, <1>1, <1>3, <2>2, <2>4, <3>1, MoveRange DEF PCs
  <2>6. CmdShape'
    <3>1. {cmd'.l2, cmd'.new, cmd'.rb} \subseteq 0 .. FileClusters - 1
      BY <1>1, <1>4, <2>3, <2>4 DEF CmdShape, Clusters
    <3>2. Sectors' = Sectors
      BY <2>2 DEF Sectors
    <3>3. QED
      BY <1>1, <2>4, <3>1, <3>2 DEF CmdShape, SameRange
  <2>7. \A b \in Late : b < mem'.free /\ b \in 1 .. FileClusters - 1
    <3> SUFFICES ASSUME NEW b \in Late PROVE b < mem'.free /\ b \in 1 .. FileClusters - 1
      OBVIOUS
    <3>1. b \in 1 .. FileClusters - 1
      BY <1>3, LateRange
    <3>2. b < mem.free
      BY <1>2 DEF AllocInv
    <3>3. mem'.free >= mem.free /\ mem'.free \in Int /\ mem.free \in Int
      BY <1>5, <2>2, <2>3
    <3>4. QED
      BY <3>1, <3>2, <3>3
  <2>8. c \in 1 .. FileClusters - 1 /\ ~Used(image', disk', c) /\ c < disk'.end /\ (Format' = "qcow2" => c < mem'.free)
    BY <1>6, <2>2, <2>3
  <2>9. Late' = Late /\ (\A w : ~Allocating(w)') /\ (InCounting' <=> cmd'.pc = "rcupdate")
    <3>1. cmd'.pc \in {"rcupdate", "l1update", "l2update"}
      BY <1>4, <2>4
    <3>2. QED
      BY <2>4, <3>1 DEF Late, Allocating, InCounting
  <2>10. InCounting <=> cmd.why = "refblock"
    BY <1>0 DEF InCounting, Allocating
  <2>11. cmd.l2 # 0 /\ disk.l1[Index] = cmd.l2 => Here' = Here
    <3> SUFFICES ASSUME cmd.l2 # 0, disk.l1[Index] = cmd.l2 PROVE Here' = Here
      OBVIOUS
    <3>1. cmd.l2 \in Clusters /\ IsTable(disk, cmd.l2)
      BY <1>0, <1>1, <1>3, EntryHere
    <3>2. disk'.cl[cmd.l2] = disk.cl[cmd.l2]
      BY <2>2, <3>1
    <3>3. QED
      BY <2>4, <2>5, <3>2 DEF Here, Leads
  <2>12. PathInv'
    <3>1. CASE cmd.why = "refblock"
      <4>1. cmd.ret = "data" => cmd.l2 # 0 /\ disk.l1[Index] = cmd.l2 /\ Here.kind = "normal" /\ Here.at = cmd.new
        BY <1>2, <1>3, <2>10, <3>1 DEF PathInv
      <4>2. cmd'.pc = "rcupdate" /\ cmd'.new = cmd.new
        BY <2>4, <3>1
      <4>3. QED
        BY <2>2, <2>4, <2>5, <2>9, <2>11, <4>1, <4>2 DEF PathInv
    <3>2. CASE cmd.why = "l2table"
      <4>1. disk.l1[Index] = 0
        BY <1>0, <1>2, <1>3, <3>2 DEF PathInv, Allocating
      <4>2. cmd'.pc = "l1update"
        BY <2>4, <3>2
      <4>3. QED
        BY <2>2, <2>5, <2>9, <4>1, <4>2 DEF PathInv
    <3>3. CASE cmd.why \in Kinds
      <4>1. cmd.l2 # 0 /\ disk.l1[Index] = cmd.l2 /\ cmd.l2 \in DOMAIN mem.l2c
        BY <1>0, <1>2, <1>3, <3>3 DEF PathInv, Allocating
      <4>2. cmd'.pc = "l2update"
        BY <2>4, <3>3
      <4>3. QED
        BY <2>2, <2>4, <2>5, <2>9, <4>1, <4>2 DEF PathInv
    <3>4. QED
      BY <1>4, <3>1, <3>2, <3>3
  <2>13. AllocInv'
    <3>1. cmd.why \in {"refblock", "l2table"} => DOMAIN disk'.cl[c] = {}
      <4> SUFFICES ASSUME cmd.why \in {"refblock", "l2table"} PROVE DOMAIN disk'.cl[c] = {}
        OBVIOUS
      <4>1. Fill = << >>
        BY DEF Fill
      <4>2. QED
        BY <2>2, <4>1
    <3>3. CASE cmd.why = "refblock"
      <4>1. cmd'.pc = "rcupdate" /\ cmd'.rb = c
        BY <2>4, <3>3
      <4>2. /\ cmd.rc # << >> /\ Format = "qcow2" /\ cmd.ret \in {"l1", "data"} /\ disk.rt[Head(cmd.rc) \div RcSlots] = 0
        BY <1>0, <1>2, <2>10, <3>3 DEF AllocInv, Allocating
      <4>3. Spare(cmd.rb)'
        BY <2>8, <4>1 DEF Spare
      <4>4. QED
        BY <1>6, <2>2, <2>4, <2>7, <2>9, <3>1, <3>3, <4>1, <4>2, <4>3 DEF AllocInv
    <3>4. CASE cmd.why # "refblock"
      <4>1. cmd'.pc \in {"l1update", "l2update"} /\ cmd'.new = c /\ (cmd'.pc = "l1update" => cmd.why = "l2table")
        BY <1>4, <2>4, <3>4 DEF Kinds
      <4>2. cmd.rc = << >>
        BY <1>2, <2>10, <3>4 DEF AllocInv
      <4>3. Spare(cmd.new)'
        BY <2>8, <4>1 DEF Spare
      <4>4. QED
        BY <1>6, <2>2, <2>4, <2>7, <2>9, <3>1, <4>1, <4>2, <4>3 DEF AllocInv
    <3>5. QED
      BY <3>3, <3>4
  <2>14. TruthInv'
    <3>1. \A s \in Sectors : truth[s] \subseteq truth'[s]
      BY <1>13, <2>1
    <3>2. ASSUME cmd'.pc = "l2update", NEW s \in Sectors, s \div ClusterSectors = VCluster
          PROVE  Stored(disk', cmd'.new, s) \in truth'[s]
      <4>1. cmd.why \in Kinds /\ cmd'.new = c
        BY <1>4, <2>4, <3>2
      <4>2. Slot(Fill, s % ClusterSectors, "zero") \in truth[s] \cup (CASE cmd.why = "none" -> {"zero"}
                                               [] cmd.why = "zero" -> {"header"} [] OTHER -> {})
        BY <1>0, <1>3, <3>2, <4>1, Filled
      <4>3. truth'[s] = truth[s] \cup (CASE cmd.why = "none" -> {"zero"}
                                               [] cmd.why = "zero" -> {"header"} [] OTHER -> {})
        BY <1>13, <2>1, <3>2
      <4>4. Stored(disk', cmd'.new, s) = Slot(Fill, s % ClusterSectors, "zero")
        BY <2>2, <4>1 DEF Stored
      <4>5. QED
        BY <4>2, <4>3, <4>4
    <3>3. QED
      BY <1>0, <1>1, <1>3, <2>2, <2>4, <3>1, <3>2, GrowTruth DEF SameRange
  <2>15. QED
    BY <1>6, <2>2, <2>5, <2>6, <2>9, <2>12, <2>13, <2>14, AssembleDisk
<1>14. QED
  BY <1>9, <1>10, <1>12, <1>13 DEF Allocate

-----------------------------------------------------------------------------
(* The tables come to lead to the new cluster.                             *)

\* What the call of qcow2_set_refcount does to the command.
LEMMA CountingEffect ==
    ASSUME DOMAIN cmd = CmdFields, NEW ret, Counting(ret)
    PROVE  /\ DOMAIN cmd' = CmdFields /\ SameRange /\ cmd'.l2 = cmd.l2 /\ cmd'.new = cmd.new /\ cmd'.rb = cmd.rb
           /\ cmd'.scan = cmd.scan /\ cmd'.ret = ret
           /\ Format = "qcow2" => cmd'.pc = "count" /\ cmd'.rc = <<cmd.new>>
           /\ Format # "qcow2" => cmd'.pc = ret /\ cmd'.rc = << >>
  BY DEF Counting, CmdFields, SameRange

\* Nothing else is under way when a table is to be updated.
LEMMA Updating ==
    ASSUME QcowInv, Sound, cmd.pc \in {"l1update", "l2update"}, Still
    PROVE  /\ Shape /\ SoundInv /\ CmdShape /\ RestShape /\ dev = "open" /\ mem.l1 = disk.l1 /\ mem.rt = disk.rt
           /\ Format \in {"qcow", "qcow2"} /\ cmd.op = "write" /\ cmd.pc \in PCs \ {"idle", "done"}
           /\ CacheInv /\ RangeInv /\ AllocInv /\ PathInv /\ TruthInv /\ DOMAIN cmd = CmdFields /\ DOMAIN mem = MemFields
           /\ FileInv(image, disk, {}) /\ FileShape(disk) /\ Geometry(image, disk) /\ Late = {}
           /\ Spare(cmd.new) /\ cmd.new \in Clusters /\ cmd.new # 0 /\ ~Used(image, disk, cmd.new) /\ cmd.new < disk.end
           /\ image' = image /\ Format' = Format
<1>1. /\ Shape /\ SoundInv /\ CmdShape /\ RestShape /\ dev = "open" /\ mem.l1 = disk.l1 /\ mem.rt = disk.rt
      /\ Format \in {"raw", "qcow", "qcow2"} /\ cmd.pc \in PCs \ {"idle", "done"}
  BY Under DEF PCs
<1>2. CacheInv /\ RangeInv /\ AllocInv /\ PathInv /\ TruthInv /\ DOMAIN cmd = CmdFields /\ DOMAIN mem = MemFields
  BY <1>1 DEF SoundInv, CmdShape, RestShape
<1>3. Format # "raw" /\ cmd.op = "write"
  BY <1>2 DEF RangeInv
<1>4. ~InCounting
  BY DEF InCounting, Allocating
<1>5. Late = {}
  BY <1>2, <1>4, NothingLate
<1>6. FileInv(image, disk, {}) /\ FileShape(disk) /\ Geometry(image, disk)
  BY <1>1, <1>3, <1>5 DEF SoundInv, RestShape
<1>7. Spare(cmd.new)
  BY <1>2 DEF AllocInv
<1>8. cmd.new \in Clusters /\ cmd.new # 0 /\ ~Used(image, disk, cmd.new) /\ cmd.new < disk.end
  BY <1>7, QcowAssumption DEF Spare, Clusters
<1>9. image' = image /\ Format' = Format
  BY DEF Still, Format
<1>10. QED
  BY <1>1, <1>2, <1>3, <1>5, <1>6, <1>7, <1>8, <1>9

\* A write that failed is not followed.
LEMMA LostWrite ==
    ASSUME RestShape, Still, truth' = truth, disk' = disk, DOMAIN mem' = MemFields, mem'.free = mem.free, dev = "open",
           CmdShape', NEW fault, met' = met \cup {fault}
    PROVE  QcowInv'
<1>1. RestShape'
  BY RestShapeFrame
<1>2. ~Sound'
  BY DEF Sound
<1>3. QED
  BY <1>1, <1>2, ShapePartsNext DEF QcowInv

\* The command is to be counted next, or goes on.
LEMMA CountingStep ==
    ASSUME QcowInv, Sound, cmd.pc \in {"l1update", "l2update"}, Still, NEW ret \in {"l1", "data"}, Counting(ret),
           SectorsOf(disk') = SectorsOf(disk)
    PROVE  /\ CmdShape' /\ RangeInv' /\ Index' = Index /\ Within' = Within /\ VCluster' = VCluster
           /\ \A w : ~Allocating(w)'
           /\ Format = "qcow2" => Late' = {cmd.new}
           /\ mem'.free = mem.free => AllocInv'
<1>1. /\ CmdShape /\ Format \in {"qcow", "qcow2"} /\ cmd.op = "write" /\ cmd.pc \in PCs \ {"idle", "done"}
      /\ DOMAIN cmd = CmdFields /\ Spare(cmd.new) /\ Format' = Format
  BY Updating
<1>2. /\ DOMAIN cmd' = CmdFields /\ SameRange /\ cmd'.l2 = cmd.l2 /\ cmd'.new = cmd.new /\ cmd'.rb = cmd.rb
      /\ cmd'.scan = cmd.scan /\ cmd'.ret = ret
      /\ Format = "qcow2" => cmd'.pc = "count" /\ cmd'.rc = <<cmd.new>>
      /\ Format # "qcow2" => cmd'.pc = ret /\ cmd'.rc = << >>
  BY <1>1, CountingEffect
<1>3. cmd'.pc \in {"count", "l1", "data"}
  BY <1>2
<1>4. cmd'.rc \in Seq(1 .. FileClusters - 1)
  <2>1. cmd.new \in 1 .. FileClusters - 1
    BY <1>1 DEF Spare
  <2>2. <<cmd.new>> \in Seq(1 .. FileClusters - 1)
    <3> DEFINE S == 1 .. FileClusters - 1
    <3> HIDE DEF S
    <3>1. cmd.new \in S
      BY <2>1 DEF S
    <3>2. <<cmd.new>> \in Seq(S)
      BY <3>1
    <3>3. QED
      BY <3>2 DEF S
  <2>3. << >> \in Seq(1 .. FileClusters - 1)
    OBVIOUS
  <2>4. QED
    BY <1>2, <2>2, <2>3
<1>5. RangeInv' /\ Index' = Index /\ Within' = Within /\ VCluster' = VCluster
  BY <1>1, <1>2, <1>3, <1>4, MoveRange DEF PCs
<1>6. CmdShape'
  <2>1. Sectors' = Sectors
    BY DEF Sectors
  <2>2. QED
    BY <1>1, <1>2, <2>1 DEF CmdShape, SameRange
<1>7. (\A w : ~Allocating(w)') /\ (InCounting' <=> cmd'.pc = "count")
  BY <1>3 DEF Allocating, InCounting
<1>8. CASE Format = "qcow2"
  <2>1. Late' = {cmd.new}
    <3>1. cmd'.rc = <<cmd.new>>
      BY <1>2, <1>8
    <3>2. QED
      BY <3>1 DEF Late
  <2>2. cmd.new < mem.free
    BY <1>1, <1>8 DEF Spare
  <2>3. cmd'.rc # << >> /\ cmd'.pc = "count"
    <3>1. cmd'.rc = <<cmd.new>> /\ cmd'.pc = "count"
      BY <1>2, <1>8
    <3>2. Len(<<cmd.new>>) = 1 /\ Len(<< >>) = 0
      OBVIOUS
    <3>3. QED
      BY <3>1, <3>2
  <2>4. ASSUME mem'.free = mem.free PROVE AllocInv'
    BY <1>1, <1>2, <1>7, <1>8, <2>1, <2>2, <2>3, <2>4 DEF AllocInv
  <2>5. QED
    BY <1>5, <1>6, <1>7, <2>1, <2>4
<1>9. CASE Format # "qcow2"
  <2>1. cmd'.rc = << >> /\ cmd'.pc \in {"l1", "data"} /\ Late' = {}
    BY <1>2, <1>9 DEF Late
  <2>2. AllocInv'
    BY <1>7, <2>1 DEF AllocInv
  <2>3. QED
    BY <1>5, <1>6, <1>7, <1>9, <2>2
<1>10. QED
  BY <1>8, <1>9

\* The L1 table.
LEMMA L1UpdateStep == ASSUME QcowInv, L1Update PROVE QcowInv'
<1>0. Sound /\ cmd.pc = "l1update" /\ Still /\ truth' = truth /\ Counting("l1")
  BY DEF L1Update, At
<1>1. /\ Shape /\ SoundInv /\ CmdShape /\ RestShape /\ dev = "open" /\ mem.l1 = disk.l1 /\ mem.rt = disk.rt
      /\ Format \in {"qcow", "qcow2"} /\ cmd.op = "write" /\ cmd.pc \in PCs \ {"idle", "done"}
      /\ CacheInv /\ RangeInv /\ AllocInv /\ PathInv /\ TruthInv /\ DOMAIN cmd = CmdFields /\ DOMAIN mem = MemFields
      /\ FileInv(image, disk, {}) /\ FileShape(disk) /\ Geometry(image, disk) /\ Late = {}
      /\ Spare(cmd.new) /\ cmd.new \in Clusters /\ cmd.new # 0 /\ ~Used(image, disk, cmd.new) /\ cmd.new < disk.end
      /\ image' = image /\ Format' = Format
  BY <1>0, Updating
<1>2. Index \in DOMAIN disk.l1 /\ disk.l1[Index] = 0 /\ DOMAIN disk.cl[cmd.new] = {} /\ Format # "raw"
  BY <1>0, <1>1, OnTheWay DEF PathInv, AllocInv
<1>3. mem' = [mem EXCEPT !.l1[Index] = cmd.new] /\ Wrote([disk EXCEPT !.l1[Index] = cmd.new])
  BY DEF L1Update, Index
<1>4. /\ DOMAIN mem' = MemFields /\ mem'.free = mem.free /\ mem'.l1 = [disk.l1 EXCEPT ![Index] = cmd.new] /\ mem'.rt = mem.rt
      /\ mem'.l2c = mem.l2c /\ mem'.rcc = mem.rcc
  BY <1>1, <1>3 DEF MemFields
<1>5. CASE disk' = disk /\ met' = met \cup {"writefail"}
  <2>1. CmdShape'
    BY <1>0, <1>5, CountingStep
  <2>2. QED
    BY <1>0, <1>1, <1>4, <1>5, <2>1, LostWrite
<1>6. CASE disk' = [disk EXCEPT !.l1[Index] = cmd.new]
  <2>1. /\ DOMAIN disk' = DiskFields /\ disk'.l1 = [disk.l1 EXCEPT ![Index] = cmd.new] /\ disk'.rt = disk.rt
        /\ disk'.cl = disk.cl /\ disk'.end = disk.end
    BY <1>1, <1>6 DEF FileShape, DiskFields
  <2>2. FileShape(disk') /\ DOMAIN disk'.l1 = DOMAIN disk.l1
    <3>1. DOMAIN disk'.l1 = DOMAIN disk.l1 /\ disk'.l1 \in [0 .. Cardinality(DOMAIN disk.l1) - 1 -> Clusters]
      BY <1>1, <2>1 DEF FileShape
    <3>2. QED
      BY <1>1, <2>1, <3>1 DEF FileShape
  <2>3. RestShape' /\ SectorsOf(disk') = SectorsOf(disk)
    <3>1. mem'.free \in 0 .. FileClusters
      BY <1>1, <1>4 DEF RestShape
    <3>2. QED
      BY <1>0, <1>1, <1>4, <2>1, <2>2, <3>1, RestShapeDisk
  <2>4. /\ CmdShape' /\ RangeInv' /\ Index' = Index /\ AllocInv'
        /\ \A w : ~Allocating(w)'
        /\ Format = "qcow2" => Late' = {cmd.new}
    BY <1>0, <1>4, <2>3, CountingStep
  <2>5. /\ FileInv(image, disk', {} \cup {cmd.new})
        /\ \A c : IsTable(disk', c) <=> IsTable(disk, c) \/ c = cmd.new
        /\ \A c : IsBlock(disk', c) <=> IsBlock(disk, c)
        /\ \A t, i : Leads(disk', t, i) = Leads(disk, t, i)
        /\ \A i : Leads(disk', cmd.new, i) = NoEntry
    <3>1. /\ FileInv(image, disk, {}) /\ Geometry(image, disk) /\ cmd.new \in Clusters /\ cmd.new # 0
          /\ ~Used(image, disk, cmd.new) /\ cmd.new < disk.end
      BY <1>1
    <3>2. disk'.l1[Index] = cmd.new /\ \A i \in DOMAIN disk.l1 : i # Index => disk'.l1[i] = disk.l1[i]
      BY <1>2, <2>1
    <3>3. QED
      BY <1>2, <2>1, <2>2, <3>1, <3>2, TableAdded
  <2>6. FileInv(image', disk', Late')
    <3>1. {cmd.new} \subseteq Late' \/ Probe(image) # "qcow2"
      BY <2>4 DEF Format
    <3>2. FileInv(image, disk', {cmd.new})
      BY <2>5
    <3>3. QED
      BY <1>1, <3>1, <3>2, LateMore
  <2>7. CacheInv'
    <3>1. dev' = dev
      BY <1>0 DEF Still
    <3>2. QED
      BY <1>1, <1>4, <2>1, <2>5, <3>1 DEF CacheInv
  <2>8. PathInv'
    <3>1. cmd'.pc \in {"count", "l1"} /\ cmd'.ret = "l1"
      BY <1>0, <1>1, CountingEffect
    <3>2. QED
      BY <2>4, <3>1 DEF PathInv, InCounting
  <2>9. ASSUME NEW s \in Sectors PROVE Reads(image, disk', s) = Reads(image, disk, s)
    <3> DEFINE i == (s \div ClusterSectors) \div L2Size
    <3>1. Of(disk', s) = Of(disk, s)
      <4>1. i \in DOMAIN disk.l1
        BY <1>1, SectorIndex DEF Sectors
      <4>2. CASE i = Index
        <5>1. Table(disk, s) = 0 /\ Table(disk', s) = cmd.new
          BY <1>2, <2>1, <4>1, <4>2 DEF Table
        <5>2. QED
          BY <1>1, <2>5, <5>1 DEF Of
      <4>3. CASE i # Index
        <5>1. Table(disk', s) = Table(disk, s)
          BY <2>1, <4>1, <4>3 DEF Table
        <5>2. QED
          BY <2>5, <5>1 DEF Of
      <4>4. QED
        BY <4>2, <4>3
    <3>2. Of(disk, s) \in EntryType
      BY <1>1, OfSector DEF Sectors
    <3>3. Probe(image) # "raw"
      BY <1>2 DEF Format
    <3>4. QED
      BY <2>1, <3>1, <3>2, <3>3, ReadsSame
  <2>10. TruthInv'
    <3>1. cmd'.pc # "l2update" /\ SameRange
      BY <1>0, <1>1, CountingEffect
    <3>2. QED
      BY <1>0, <1>1, <2>3, <2>9, <3>1, KeepTruth DEF SameRange
  <2>11. QED
    BY <2>3, <2>4, <2>6, <2>7, <2>8, <2>10, AssembleDisk
<1>7. QED
  BY <1>3, <1>5, <1>6 DEF Wrote

\* The L2 table.
LEMMA L2UpdateStep == ASSUME QcowInv, L2Update PROVE QcowInv'
<1> DEFINE e == [at |-> cmd.new, kind |-> "normal", copied |-> Format = "qcow2"]
<1>0. Sound /\ cmd.pc = "l2update" /\ Still /\ truth' = truth /\ Counting("data")
  BY DEF L2Update, At
<1>1. /\ Shape /\ SoundInv /\ CmdShape /\ RestShape /\ dev = "open" /\ mem.l1 = disk.l1 /\ mem.rt = disk.rt
      /\ Format \in {"qcow", "qcow2"} /\ cmd.op = "write" /\ cmd.pc \in PCs \ {"idle", "done"}
      /\ CacheInv /\ RangeInv /\ AllocInv /\ PathInv /\ TruthInv /\ DOMAIN cmd = CmdFields /\ DOMAIN mem = MemFields
      /\ FileInv(image, disk, {}) /\ FileShape(disk) /\ Geometry(image, disk) /\ Late = {}
      /\ Spare(cmd.new) /\ cmd.new \in Clusters /\ cmd.new # 0 /\ ~Used(image, disk, cmd.new) /\ cmd.new < disk.end
      /\ image' = image /\ Format' = Format
  BY <1>0, Updating
<1>2. /\ Index \in DOMAIN disk.l1 /\ disk.l1[Index] = cmd.l2 /\ cmd.l2 # 0 /\ cmd.l2 \in DOMAIN mem.l2c
      /\ Within \in L2Slots /\ Format # "raw"
  BY <1>0, <1>1, OnTheWay DEF PathInv
<1>3. cmd.l2 \in Clusters /\ IsTable(disk, cmd.l2) /\ ~IsBlock(disk, cmd.l2) /\ ~IsData(disk, cmd.l2) /\ cmd.l2 # cmd.new
  <2>1. cmd.l2 \in Clusters /\ IsTable(disk, cmd.l2)
    BY <1>0, <1>1, <1>2, EntryHere
  <2>2. QED
    BY <1>1, <2>1 DEF FileInv, Exclusive, Used
<1>4. e \in EntryType /\ e.at = cmd.new /\ Full(e) /\ e.kind = "normal"
  BY <1>1 DEF EntryType, Full
<1>5. /\ mem' = [mem EXCEPT !.l2c[cmd.l2] = With(@, Within, e)]
      /\ Wrote([disk EXCEPT !.cl[cmd.l2] = With(@, Within, e)])
  BY DEF L2Update, Within
<1> HIDE DEF e
<1>6. /\ DOMAIN mem' = MemFields /\ mem'.free = mem.free /\ mem'.l1 = mem.l1 /\ mem'.rt = mem.rt
      /\ mem'.l2c = [mem.l2c EXCEPT ![cmd.l2] = With(mem.l2c[cmd.l2], Within, e)] /\ mem'.rcc = mem.rcc
  BY <1>1, <1>5 DEF MemFields
<1>7. CASE disk' = disk /\ met' = met \cup {"writefail"}
  <2>1. CmdShape'
    BY <1>0, <1>7, CountingStep
  <2>2. QED
    BY <1>0, <1>1, <1>6, <1>7, <2>1, LostWrite
<1>8. CASE disk' = [disk EXCEPT !.cl[cmd.l2] = With(@, Within, e)]
  <2>1. /\ DOMAIN disk' = DiskFields /\ disk'.l1 = disk.l1 /\ disk'.rt = disk.rt /\ disk'.end = disk.end
        /\ disk'.cl = [disk.cl EXCEPT ![cmd.l2] = With(disk.cl[cmd.l2], Within, e)]
    BY <1>1, <1>8 DEF FileShape, DiskFields
  <2>2. FileShape(disk') /\ disk'.cl[cmd.l2] = With(disk.cl[cmd.l2], Within, e) /\ \A c \in Clusters : c # cmd.l2 => disk'.cl[c] = disk.cl[c]
    BY <1>1, <1>3, <2>1 DEF FileShape
  <2>3. RestShape' /\ SectorsOf(disk') = SectorsOf(disk)
    <3>1. mem'.free \in 0 .. FileClusters
      BY <1>1, <1>6 DEF RestShape
    <3>2. QED
      BY <1>0, <1>1, <1>6, <2>1, <2>2, <3>1, RestShapeDisk
  <2>4. /\ CmdShape' /\ RangeInv' /\ Index' = Index /\ Within' = Within /\ VCluster' = VCluster /\ AllocInv'
        /\ \A w : ~Allocating(w)'
        /\ Format = "qcow2" => Late' = {cmd.new}
    BY <1>0, <1>6, <2>3, CountingStep
  <2>5. /\ FileInv(image, disk', {} \cup {cmd.new})
        /\ \A c : (IsTable(disk', c) <=> IsTable(disk, c)) /\ (IsBlock(disk', c) <=> IsBlock(disk, c))
        /\ \A u \in Clusters : \A m : IsTable(disk, u) => Leads(disk', u, m) = IF u = cmd.l2 /\ m = Within THEN e ELSE Leads(disk, u, m)
    BY <1>1, <1>2, <1>3, <1>4, <2>1, <2>2, EntryAdded, SMTT(30)
  <2>6. FileInv(image', disk', Late')
    <3>1. {cmd.new} \subseteq Late' \/ Probe(image) # "qcow2"
      BY <2>4 DEF Format
    <3>2. FileInv(image, disk', {cmd.new})
      BY <2>5
    <3>3. QED
      BY <1>1, <3>1, <3>2, LateMore
  <2>7. CacheInv'
    <3>1. dev' = dev
      BY <1>0 DEF Still
    <3>2. DOMAIN mem'.l2c = DOMAIN mem.l2c
      BY <1>6
    <3>3. ASSUME NEW c \in DOMAIN mem.l2c PROVE c \in Clusters /\ IsTable(disk', c) /\ mem'.l2c[c] = disk'.cl[c]
      <4>1. c \in Clusters /\ IsTable(disk', c) /\ mem.l2c[c] = disk.cl[c]
        BY <1>1, <1>2, <2>5 DEF CacheInv
      <4>2. CASE c = cmd.l2
        BY <1>2, <1>6, <2>2, <4>1, <4>2
      <4>3. CASE c # cmd.l2
        BY <1>6, <2>2, <4>1, <4>3
      <4>4. QED
        BY <4>1, <4>2, <4>3
    <3>4. ASSUME NEW c \in DOMAIN mem.rcc PROVE c \in Clusters /\ IsBlock(disk', c) /\ mem'.rcc[c] = disk'.cl[c]
      <4>1. c \in Clusters /\ IsBlock(disk, c) /\ mem.rcc[c] = disk.cl[c]
        BY <1>1, <1>2 DEF CacheInv
      <4>2. c # cmd.l2
        BY <1>3, <4>1
      <4>3. QED
        BY <1>6, <2>2, <2>5, <4>1, <4>2
    <3>5. /\ IsFiniteSet(DOMAIN mem'.l2c) /\ Cardinality(DOMAIN mem'.l2c) <= CacheSize
          /\ IsFiniteSet(DOMAIN mem'.rcc) /\ Cardinality(DOMAIN mem'.rcc) <= CacheSize
      BY <1>1, <1>6, <3>2 DEF CacheInv
    <3>6. QED
      BY <1>1, <1>6, <2>1, <3>1, <3>2, <3>3, <3>4, <3>5 DEF CacheInv
  <2>8. PathInv'
    <3>1. cmd'.pc \in {"count", "data"} /\ cmd'.ret = "data" /\ cmd'.l2 = cmd.l2 /\ cmd'.new = cmd.new
      BY <1>0, <1>1, CountingEffect
    <3>2. Here' = e
      <4>1. Here' = Leads(disk', cmd.l2, Within)
        BY <2>4, <3>1 DEF Here
      <4>2. QED
        BY <1>3, <2>5, <4>1
    <3>3. QED
      BY <1>2, <1>4, <2>1, <2>4, <3>1, <3>2 DEF PathInv
  <2>9. ASSUME NEW s \in Sectors
        PROVE  Reads(image, disk', s) = IF s \div ClusterSectors = VCluster THEN Stored(disk, cmd.new, s) ELSE Reads(image, disk, s)
    <3> DEFINE v == s \div ClusterSectors
    <3>1. /\ v \in Nat /\ v \div L2Size \in DOMAIN disk.l1 /\ v % L2Size \in L2Slots
      BY <1>1, SectorIndex DEF Sectors
    <3>2. /\ Of(disk, s) \in EntryType /\ Of(disk, s).at \in Clusters
          /\ Table(disk, s) \in Clusters /\ (Table(disk, s) # 0 => IsTable(disk, Table(disk, s)))
          /\ Full(Of(disk, s)) => IsData(disk, Of(disk, s).at)
      BY <1>1, OfSector DEF Sectors
    <3>3. Table(disk', s) = Table(disk, s)
      BY <2>1 DEF Table
    <3>4. Probe(image) # "raw"
      BY <1>2 DEF Format
    <3>5. CASE v = VCluster
      <4>1. Table(disk, s) = cmd.l2 /\ v % L2Size = Within
        BY <1>0, <1>1, <1>2, <3>5, OnTheWay
      <4>2. Of(disk', s) = e
        BY <1>2, <1>3, <2>5, <3>3, <4>1 DEF Of
      <4>3. Reads(image, disk', s) = Stored(disk', cmd.new, s)
        BY <1>4, <3>4, <4>2 DEF Reads
      <4>4. Stored(disk', cmd.new, s) = Stored(disk, cmd.new, s)
        BY <1>1, <1>3, <2>2 DEF Stored
      <4>5. QED
        BY <3>5, <4>3, <4>4
    <3>6. CASE v # VCluster
      <4>1. ~(Table(disk, s) = cmd.l2 /\ v % L2Size = Within)
        <5>1. SUFFICES ASSUME Table(disk, s) = cmd.l2, v % L2Size = Within PROVE FALSE
          OBVIOUS
        <5>2. v \div L2Size = Index
          BY <1>1, <1>2, <3>1, <5>1 DEF Table, FileInv, Exclusive
        <5>3. VCluster \in Nat /\ L2Size \in Nat \ {0}
          BY <1>0, <1>1, Under, QcowAssumption
        <5>4. v = VCluster
          <6> HIDE DEF v
          <6>1. v \div L2Size = VCluster \div L2Size /\ v % L2Size = VCluster % L2Size /\ v \in Nat
            BY <3>1, <5>1, <5>2 DEF Index, Within
          <6>2. QED
            BY <5>3, <6>1, DivModUnique
        <5>5. QED
          BY <3>6, <5>4
      <4>2. Of(disk', s) = Of(disk, s)
        BY <2>5, <3>2, <3>3, <4>1 DEF Of
      <4>3. Full(Of(disk, s)) => disk'.cl[Of(disk, s).at] = disk.cl[Of(disk, s).at]
        BY <1>3, <2>2, <3>2
      <4>4. Reads(image, disk', s) = Reads(image, disk, s)
        BY <3>2, <3>4, <4>2, <4>3, ReadsSame
      <4>5. QED
        BY <3>6, <4>4
    <3>7. QED
      BY <3>5, <3>6
  <2>10. TruthInv'
    <3>1. cmd'.pc # "l2update" /\ SameRange
      BY <1>0, <1>1, CountingEffect
    <3>2. image' = image /\ Sectors' = Sectors
      BY <1>1, <2>3 DEF Sectors
    <3>3. /\ cmd.at \in Nat /\ cmd.end \in Nat /\ cmd.from \in Nat /\ cmd.at < cmd.end
          /\ \A s \in Nat : s < cmd.end => s \in Sectors
      BY <1>0, <1>1, Under
    <3>4. \A s \in Sectors : Reads(image, disk', s) \in truth[s]
      BY <1>0, <1>1, <2>9 DEF TruthInv
    <3>5. ASSUME NEW s \in cmd.from .. cmd.at - 1, s \notin cmd.lost PROVE Reads(image, disk', s) = cmd.val
      <4>1. s \in Nat /\ s < cmd.at /\ s < cmd.end /\ s >= cmd.from
        BY <3>3
      <4>2. cmd.at % ClusterSectors = 0
        <5>1. cmd.at = cmd.from \/ cmd.at = cmd.end \/ cmd.at % ClusterSectors = 0
          BY <1>0, <1>1 DEF RangeInv
        <5>2. QED
          BY <3>3, <4>1, <5>1
      <4>3. s \div ClusterSectors # VCluster
        BY <3>3, <4>1, <4>2, EarlierCluster DEF VCluster
      <4>4. s \in Sectors
        BY <3>3, <4>1
      <4>5. Reads(image, disk, s) = cmd.val
        BY <1>1, <3>5 DEF TruthInv
      <4>6. QED
        BY <2>9, <4>3, <4>4, <4>5
    <3>6. \A s \in cmd.from .. cmd.end - 1 : cmd.val \in truth[s]
      BY <1>1 DEF TruthInv
    <3>7. QED
      BY <1>0, <1>1, <3>1, <3>2, <3>4, <3>5, <3>6 DEF TruthInv, SameRange
  <2>11. QED
    BY <2>3, <2>4, <2>6, <2>7, <2>8, <2>10, AssembleDisk
<1>9. QED
  BY <1>5, <1>7, <1>8 DEF Wrote

-----------------------------------------------------------------------------
(* Counting.                                                               *)

\* What is in a sequence.
Elems(q) == {q[k] : k \in DOMAIN q}

\* The first of a sequence and the others.
LEMMA Popped ==
    ASSUME NEW S, NEW q \in Seq(S), q # << >>
    PROVE  /\ Head(q) \in S /\ Tail(q) \in Seq(S) /\ Len(q) \in Nat \ {0} /\ (Len(q) = 1 <=> Tail(q) = << >>)
           /\ Elems(q) \subseteq Elems(Tail(q)) \cup {Head(q)} /\ Elems(Tail(q)) \subseteq Elems(q)
<1>1. Len(q) \in Nat \ {0} /\ DOMAIN q = 1 .. Len(q) /\ Head(q) = q[1] /\ Head(q) \in S
  BY EmptySeq
<1>2. Tail(q) \in Seq(S) /\ Len(Tail(q)) = Len(q) - 1 /\ DOMAIN Tail(q) = 1 .. Len(q) - 1
      /\ \A k \in 1 .. Len(q) - 1 : Tail(q)[k] = q[k + 1]
  BY <1>1, HeadTailProperties
<1>3. Len(q) = 1 <=> Tail(q) = << >>
  <2>1. Tail(q) = << >> <=> Len(Tail(q)) = 0
    BY <1>2, EmptySeq
  <2>2. QED
    BY <1>1, <1>2, <2>1
<1>4. ASSUME NEW k \in DOMAIN q PROVE q[k] = Head(q) \/ \E m \in DOMAIN Tail(q) : Tail(q)[m] = q[k]
  <2>1. CASE k = 1
    BY <1>1, <2>1
  <2>2. CASE k # 1
    <3>1. k - 1 \in 1 .. Len(q) - 1 /\ k - 1 + 1 = k
      BY <1>1, <2>2
    <3>2. Tail(q)[k - 1] = q[k]
      BY <1>2, <3>1
    <3>3. QED
      BY <1>2, <3>1, <3>2
  <2>3. QED
    BY <2>1, <2>2
<1>5. ASSUME NEW k \in DOMAIN Tail(q) PROVE \E m \in DOMAIN q : q[m] = Tail(q)[k]
  <2>1. k + 1 \in DOMAIN q /\ Tail(q)[k] = q[k + 1]
    BY <1>1, <1>2
  <2>2. QED
    BY <2>1
<1>6. QED
  BY <1>1, <1>2, <1>3, <1>4, <1>5 DEF Elems

\* One more in front of a sequence.
LEMMA Pushed ==
    ASSUME NEW S, NEW q \in Seq(S), NEW x \in S
    PROVE  /\ <<x>> \o q \in Seq(S) /\ <<x>> \o q # << >>
           /\ Elems(<<x>> \o q) = Elems(q) \cup {x}
<1> DEFINE p == <<x>> \o q
<1>1. p \in Seq(S) /\ Len(p) = Len(q) + 1 /\ Len(q) \in Nat /\ DOMAIN q = 1 .. Len(q) /\ DOMAIN p = 1 .. Len(q) + 1
  OBVIOUS
<1>2. p[1] = x /\ \A k \in 1 .. Len(q) : p[k + 1] = q[k]
  OBVIOUS
<1>3. p # << >>
  <2>1. Len(<< >>) = 0
    OBVIOUS
  <2>2. QED
    BY <1>1, <2>1
<1> HIDE DEF p
<1>4. ASSUME NEW k \in DOMAIN p PROVE p[k] = x \/ \E m \in DOMAIN q : q[m] = p[k]
  <2>1. CASE k = 1
    BY <1>2, <2>1
  <2>2. CASE k # 1
    <3>1. k - 1 \in 1 .. Len(q) /\ k - 1 + 1 = k
      BY <1>1, <2>2
    <3>2. p[k] = q[k - 1]
      BY <1>2, <3>1
    <3>3. QED
      BY <1>1, <3>1, <3>2
  <2>3. QED
    BY <2>1, <2>2
<1>5. ASSUME NEW k \in DOMAIN q PROVE \E m \in DOMAIN p : p[m] = q[k]
  <2>1. k + 1 \in DOMAIN p /\ p[k + 1] = q[k]
    BY <1>1, <1>2
  <2>2. QED
    BY <2>1
<1>6. 1 \in DOMAIN p
  BY <1>1
<1>7. Elems(p) = Elems(q) \cup {x}
  BY <1>2, <1>4, <1>5, <1>6 DEF Elems
<1>8. QED
  BY <1>1, <1>3, <1>7 DEF p

\* What is counted, and where.
LEMMA AtCount ==
    ASSUME QcowInv, Sound, cmd.pc \in {"count", "rcupdate"}, Still
    PROVE  /\ Shape /\ SoundInv /\ CmdShape /\ RestShape /\ dev = "open" /\ mem.l1 = disk.l1 /\ mem.rt = disk.rt
           /\ Format = "qcow2" /\ cmd.op = "write" /\ cmd.pc \in PCs \ {"idle", "done"} /\ cmd.ret \in {"l1", "data"}
           /\ CacheInv /\ RangeInv /\ AllocInv /\ PathInv /\ TruthInv /\ DOMAIN cmd = CmdFields /\ DOMAIN mem = MemFields
           /\ FileInv(image, disk, Late) /\ FileShape(disk) /\ Geometry(image, disk)
           /\ cmd.rc \in Seq(1 .. FileClusters - 1) /\ cmd.rc # << >> /\ Head(cmd.rc) \in 1 .. FileClusters - 1
           /\ Head(cmd.rc) \in Clusters /\ Head(cmd.rc) \div RcSlots \in DOMAIN disk.rt
           /\ disk.rt[Head(cmd.rc) \div RcSlots] \in Clusters
           /\ cmd.ret = "data" => cmd.l2 # 0 /\ disk.l1[Index] = cmd.l2 /\ Here.kind = "normal" /\ Here.at = cmd.new
           /\ image' = image /\ Format' = Format /\ dev' = dev
<1>1. /\ Shape /\ SoundInv /\ CmdShape /\ RestShape /\ dev = "open" /\ mem.l1 = disk.l1 /\ mem.rt = disk.rt
      /\ cmd.pc \in PCs \ {"idle", "done"}
  BY Under DEF PCs
<1>2. CacheInv /\ RangeInv /\ AllocInv /\ PathInv /\ TruthInv /\ DOMAIN cmd = CmdFields /\ DOMAIN mem = MemFields
  BY <1>1 DEF SoundInv, CmdShape, RestShape
<1>3. InCounting
  BY DEF InCounting
<1>4. Format = "qcow2" /\ cmd.ret \in {"l1", "data"} /\ cmd.rc # << >>
  BY <1>2, <1>3 DEF AllocInv
<1>5. cmd.op = "write" /\ cmd.rc \in Seq(1 .. FileClusters - 1)
  BY <1>2 DEF RangeInv
<1>6. FileInv(image, disk, Late) /\ FileShape(disk) /\ Geometry(image, disk)
  BY <1>1, <1>4 DEF SoundInv, RestShape
<1>7. Head(cmd.rc) \in 1 .. FileClusters - 1
  BY <1>4, <1>5, Popped
<1>8. Head(cmd.rc) \in Clusters
  BY <1>7, QcowAssumption DEF Clusters
<1>9. Head(cmd.rc) \div RcSlots \in DOMAIN disk.rt
  BY <1>4, <1>6, <1>8 DEF Geometry, Format
<1>10. disk.rt[Head(cmd.rc) \div RcSlots] \in Clusters
  BY <1>6, <1>9 DEF FileShape
<1>11. cmd.ret = "data" => cmd.l2 # 0 /\ disk.l1[Index] = cmd.l2 /\ Here.kind = "normal" /\ Here.at = cmd.new
  BY <1>2, <1>3, <1>4 DEF PathInv
<1>12. image' = image /\ Format' = Format /\ dev' = dev
  BY DEF Still, Format
<1>13. QED
  BY <1>1, <1>2, <1>4, <1>5, <1>6, <1>7, <1>8, <1>9, <1>10, <1>11, <1>12

\* A cluster is counted.
LEMMA CountStep == ASSUME QcowInv, Count PROVE QcowInv'
<1> DEFINE c == Head(cmd.rc)
           k == c \div RcSlots
           block == disk.rt[k]
<1>0. Sound /\ cmd.pc = "count" /\ Still /\ truth' = truth
  BY DEF Count, At
<1>1. /\ Shape /\ SoundInv /\ CmdShape /\ RestShape /\ dev = "open" /\ mem.l1 = disk.l1 /\ mem.rt = disk.rt
      /\ Format = "qcow2" /\ cmd.op = "write" /\ cmd.pc \in PCs \ {"idle", "done"} /\ cmd.ret \in {"l1", "data"}
      /\ CacheInv /\ RangeInv /\ AllocInv /\ PathInv /\ TruthInv /\ DOMAIN cmd = CmdFields /\ DOMAIN mem = MemFields
      /\ FileInv(image, disk, Late) /\ FileShape(disk) /\ Geometry(image, disk)
      /\ cmd.rc \in Seq(1 .. FileClusters - 1) /\ cmd.rc # << >> /\ c \in 1 .. FileClusters - 1
      /\ c \in Clusters /\ k \in DOMAIN disk.rt /\ block \in Clusters
      /\ cmd.ret = "data" => cmd.l2 # 0 /\ disk.l1[Index] = cmd.l2 /\ Here.kind = "normal" /\ Here.at = cmd.new
      /\ image' = image /\ Format' = Format /\ dev' = dev
  BY <1>0, AtCount
<1> HIDE DEF c, k
<1>2. /\ Tail(cmd.rc) \in Seq(1 .. FileClusters - 1) /\ (Len(cmd.rc) = 1 <=> Tail(cmd.rc) = << >>)
      /\ Late \subseteq Elems(Tail(cmd.rc)) \cup {c} /\ Elems(Tail(cmd.rc)) \subseteq Late
  <2> DEFINE S == 1 .. FileClusters - 1
  <2>1. cmd.rc \in Seq(S) /\ cmd.rc # << >>
    BY <1>1
  <2> HIDE DEF S
  <2>2. /\ Tail(cmd.rc) \in Seq(S) /\ (Len(cmd.rc) = 1 <=> Tail(cmd.rc) = << >>)
        /\ Elems(cmd.rc) \subseteq Elems(Tail(cmd.rc)) \cup {Head(cmd.rc)} /\ Elems(Tail(cmd.rc)) \subseteq Elems(cmd.rc)
    BY <2>1, Popped
  <2>3. Late = Elems(cmd.rc)
    BY DEF Late, Elems
  <2>4. QED
    BY <2>2, <2>3 DEF S, c
<1>3. CASE /\ block = 0 /\ cmd' = [cmd EXCEPT !.pc = "scan", !.why = "refblock", !.scan = mem.free]
           /\ mem' = mem /\ disk' = disk
  <2>1. /\ DOMAIN cmd' = CmdFields /\ SameRange /\ cmd'.pc = "scan" /\ cmd'.l2 = cmd.l2 /\ cmd'.rc = cmd.rc
        /\ cmd'.new = cmd.new /\ cmd'.rb = cmd.rb /\ cmd'.scan = mem.free /\ cmd'.why = "refblock" /\ cmd'.ret = cmd.ret
    BY <1>1, <1>3 DEF CmdFields, SameRange
  <2>2. RangeInv' /\ Index' = Index /\ Within' = Within
    BY <1>0, <1>1, <1>3, <2>1, MoveRange DEF PCs
  <2>3. CmdShape' /\ mem.free \in Nat
    <3>1. mem.free \in 0 .. FileClusters /\ CmdShape /\ Sectors' = Sectors
      BY <1>1, <1>3 DEF RestShape, Sectors
    <3>2. mem.free \in Nat
      BY <3>1, QcowAssumption
    <3>3. CmdShape'
      BY <2>1, <3>1 DEF CmdShape, SameRange
    <3>4. QED
      BY <3>2, <3>3
  <2>4. InCounting' /\ ~Allocating({"l2table"})' /\ ~Allocating(Kinds)' /\ Late' = Late /\ Here' = Here
    BY <1>3, <2>1, <2>2 DEF InCounting, Allocating, Late, Here, Kinds
  <2>5. PathInv'
    BY <1>1, <1>3, <2>1, <2>2, <2>4 DEF PathInv
  <2>6. AllocInv'
    BY <1>1, <1>3, <2>1, <2>3, <2>4 DEF AllocInv, c, k
  <2>7. TruthInv'
    BY <1>0, <1>1, <1>3, <2>1, KeepTruth DEF SameRange
  <2>8. RestShape' /\ CacheInv'
    BY <1>0, <1>1, <1>3, RestShapeFrame, CacheFrame
  <2>9. QED
    BY <1>1, <1>3, <2>2, <2>3, <2>4, <2>5, <2>6, <2>7, <2>8, Assemble
<1>4. ASSUME cmd' = Counted PROVE /\ DOMAIN cmd' = CmdFields /\ SameRange /\ cmd'.l2 = cmd.l2 /\ cmd'.new = cmd.new
                                  /\ cmd'.scan = cmd.scan /\ cmd'.ret = cmd.ret /\ cmd'.rc = Tail(cmd.rc)
                                  /\ cmd'.pc = IF Len(cmd.rc) = 1 THEN cmd.ret ELSE "count"
                                  /\ (SectorsOf(disk') = SectorsOf(disk) => CmdShape')
  <2>1. /\ DOMAIN cmd' = CmdFields /\ SameRange /\ cmd'.l2 = cmd.l2 /\ cmd'.new = cmd.new /\ cmd'.rb = cmd.rb
        /\ cmd'.scan = cmd.scan /\ cmd'.ret = cmd.ret /\ cmd'.rc = Tail(cmd.rc)
        /\ cmd'.pc = IF Len(cmd.rc) = 1 THEN cmd.ret ELSE "count"
    BY <1>1, <1>4, CountedEffect
  <2>2. SectorsOf(disk') = SectorsOf(disk) => CmdShape'
    BY <1>1, <2>1 DEF CmdShape, SameRange, Sectors
  <2>3. QED
    BY <2>1, <2>2
<1>5. CASE ReadFails /\ cmd' = Counted /\ mem' = mem /\ disk' = disk
  BY <1>0, <1>1, <1>4, <1>5, LostWrite DEF ReadFails
<1>6. ASSUME block # 0, NEW cache \in RcCacheLookup(block), cmd' = Counted,
             mem' = [mem EXCEPT !.rcc = [cache EXCEPT ![block] = SetRefcount(cache[block], c)]],
             Wrote([disk EXCEPT !.cl[block] = SetRefcount(cache[block], c)])
      PROVE  QcowInv'
  <2>1. IsBlock(disk, block) /\ ~IsTable(disk, block) /\ ~IsData(disk, block)
    <3>1. IsBlock(disk, block)
      BY <1>1, <1>6 DEF IsBlock
    <3>2. QED
      BY <1>1, <3>1 DEF FileInv, Exclusive
  <2>2. /\ block \in DOMAIN cache /\ DOMAIN cache \subseteq DOMAIN mem.rcc \cup {block}
        /\ \A x \in DOMAIN cache : cache[x] = IF x \in DOMAIN mem.rcc THEN mem.rcc[x] ELSE disk.cl[x]
        /\ IsFiniteSet(DOMAIN cache) /\ Cardinality(DOMAIN cache) <= CacheSize
    <3>1. IsFiniteSet(DOMAIN mem.rcc) /\ Cardinality(DOMAIN mem.rcc) <= CacheSize
      BY <1>1 DEF CacheInv
    <3>2. QED
      BY <1>6, <3>1, LookupCache DEF RcCacheLookup
  <2>3. \A x \in DOMAIN cache : x \in Clusters /\ IsBlock(disk, x) /\ cache[x] = disk.cl[x]
    BY <1>1, <2>1, <2>2 DEF CacheInv
  <2> DEFINE b == SetRefcount(disk.cl[block], c)
  <2>4. /\ DOMAIN mem' = MemFields /\ mem'.free = mem.free /\ mem'.l1 = mem.l1 /\ mem'.rt = mem.rt /\ mem'.l2c = mem.l2c
        /\ mem'.rcc = [cache EXCEPT ![block] = b]
    BY <1>1, <1>6, <2>2, <2>3 DEF MemFields
  <2>5. Wrote([disk EXCEPT !.cl[block] = b])
    BY <1>6, <2>2, <2>3
  <2> HIDE DEF b
  <2>6. CASE disk' = disk /\ met' = met \cup {"writefail"}
    BY <1>0, <1>1, <1>4, <1>6, <2>4, <2>6, LostWrite
  <2>7. CASE disk' = [disk EXCEPT !.cl[block] = b]
    <3>1. /\ DOMAIN disk' = DiskFields /\ disk'.l1 = disk.l1 /\ disk'.rt = disk.rt /\ disk'.end = disk.end
          /\ disk'.cl = [disk.cl EXCEPT ![block] = b]
      BY <1>1, <2>7 DEF FileShape, DiskFields
    <3>2. FileShape(disk') /\ disk'.cl[block] = b /\ \A x \in Clusters : x # block => disk'.cl[x] = disk.cl[x]
      BY <1>1, <3>1 DEF FileShape
    <3>3. RestShape' /\ SectorsOf(disk') = SectorsOf(disk)
      <4>1. mem'.free \in 0 .. FileClusters
        BY <1>1, <2>4 DEF RestShape
      <4>2. QED
        BY <1>0, <1>1, <2>4, <3>1, <3>2, <4>1, RestShapeDisk
    <3>4. /\ DOMAIN cmd' = CmdFields /\ SameRange /\ cmd'.l2 = cmd.l2 /\ cmd'.new = cmd.new
          /\ cmd'.scan = cmd.scan /\ cmd'.ret = cmd.ret /\ cmd'.rc = Tail(cmd.rc)
          /\ cmd'.pc = (IF Len(cmd.rc) = 1 THEN cmd.ret ELSE "count") /\ CmdShape'
      BY <1>4, <1>6, <3>3
    <3>5. RangeInv' /\ Index' = Index /\ Within' = Within /\ VCluster' = VCluster
      <4>1. cmd'.pc \in {"count", "l1", "data"}
        BY <1>1, <3>4
      <4>2. QED
        BY <1>0, <1>1, <1>2, <3>3, <3>4, <4>1, MoveRange DEF PCs
    <3>6. Late \subseteq Late' \cup {c} /\ Late' \subseteq Late
      <4>1. Late' = Elems(Tail(cmd.rc))
        BY <3>4 DEF Late, Elems
      <4>2. QED
        BY <1>2, <4>1
    <3>7. FileInv(image', disk', Late')
      <4>1. Probe(image) = "qcow2" /\ disk.rt[c \div RcSlots] # 0
        BY <1>1, <1>6 DEF Format, k
      <4>2. disk'.cl = [disk.cl EXCEPT ![disk.rt[c \div RcSlots]] = SetRefcount(disk.cl[disk.rt[c \div RcSlots]], c)]
        BY <3>1 DEF b, k
      <4>3. FileInv(image, disk', Late')
        BY <1>1, <3>1, <3>2, <3>6, <4>1, <4>2, CountOne DEF k
      <4>4. QED
        BY <1>1, <4>3
    <3>8. CacheInv'
      <4>1. \A x : (IsTable(disk', x) <=> IsTable(disk, x)) /\ (IsBlock(disk', x) <=> IsBlock(disk, x))
        BY <3>1 DEF IsTable, IsBlock
      <4>2. \A x \in DOMAIN mem.l2c : x \in Clusters /\ IsTable(disk', x) /\ mem.l2c[x] = disk'.cl[x]
        BY <1>1, <2>1, <3>2, <4>1 DEF CacheInv
      <4>3. DOMAIN mem'.rcc = DOMAIN cache
        BY <2>4
      <4>4. ASSUME NEW x \in DOMAIN cache PROVE x \in Clusters /\ IsBlock(disk', x) /\ mem'.rcc[x] = disk'.cl[x]
        BY <2>3, <2>4, <3>2, <4>1
      <4>5. IsFiniteSet(DOMAIN mem.l2c) /\ Cardinality(DOMAIN mem.l2c) <= CacheSize
        BY <1>1 DEF CacheInv
      <4>6. QED
        BY <1>1, <2>2, <2>4, <3>1, <4>2, <4>3, <4>4, <4>5 DEF CacheInv
    <3>9. cmd.ret = "data" => Here' = Here
      <4> SUFFICES ASSUME cmd.ret = "data" PROVE Here' = Here
        OBVIOUS
      <4>1. cmd.l2 \in Clusters /\ IsTable(disk, cmd.l2)
        BY <1>0, <1>1, EntryHere
      <4>2. disk'.cl[cmd.l2] = disk.cl[cmd.l2]
        BY <2>1, <3>2, <4>1
      <4>3. QED
        BY <3>4, <3>5, <4>2 DEF Here, Leads
    <3>10. (\A w : ~Allocating(w)') /\ (InCounting' <=> cmd'.pc = "count") /\ cmd'.pc \in {"count", "l1", "data"}
           /\ (cmd'.pc = "data" => cmd.ret = "data")
      <4>1. cmd'.pc \in {"count", "l1", "data"} /\ (cmd'.pc = "data" => cmd.ret = "data")
        BY <1>1, <3>4
      <4>2. QED
        BY <4>1 DEF InCounting, Allocating
    <3>11. PathInv'
      BY <1>1, <3>1, <3>4, <3>5, <3>9, <3>10 DEF PathInv
    <3>12. AllocInv'
      <4>1. InCounting' <=> cmd'.rc # << >>
        BY <1>1, <1>2, <3>4, <3>10
      <4>2. \A x \in Late' : x < mem'.free
        BY <1>1, <2>4, <3>6 DEF AllocInv
      <4>3. QED
        BY <1>1, <3>4, <3>10, <4>1, <4>2 DEF AllocInv
    <3>13. \A s \in Sectors : Reads(image, disk', s) = Reads(image, disk, s)
      <4>1. \A x \in Clusters : IsTable(disk, x) \/ IsData(disk, x) => disk'.cl[x] = disk.cl[x]
        BY <2>1, <3>2
      <4>2. Probe(image) # "raw"
        BY <1>1 DEF Format
      <4>3. FileInv(image, disk, Late) /\ disk'.l1 = disk.l1
        BY <1>1, <3>1
      <4>4. QED
        BY <4>1, <4>2, <4>3, ReadsFrame DEF Sectors
    <3>14. TruthInv'
      BY <1>0, <1>1, <3>3, <3>4, <3>10, <3>13, KeepTruth DEF SameRange
    <3>15. QED
      BY <3>3, <3>4, <3>5, <3>7, <3>8, <3>11, <3>12, <3>14, AssembleDisk
  <2>8. QED
    BY <2>5, <2>6, <2>7 DEF Wrote
<1>7. QED
  <2>1. mem.rt[k] = block
    BY <1>1
  <2>2. CASE block = 0
    BY <1>3, <2>1, <2>2 DEF Count, c, k
  <2>3. CASE block # 0
    BY <1>5, <1>6, <2>1, <2>3, ZenonT(60) DEF Count, c, k
  <2>4. QED
    BY <2>2, <2>3

Also(late, k) == late \cup {k}

\* The change that adds the empty block k as number j.
BlockPut(h, d, d2, j, k) ==
    /\ j \in DOMAIN d.rt /\ k \in Clusters /\ Geometry(h, d) /\ FileShape(d2) /\ Probe(h) = "qcow2"
    /\ d.rt[j] = 0 /\ k # 0 /\ ~Used(h, d, k) /\ k < d.end /\ DOMAIN d.cl[k] = {}
    /\ DOMAIN d2.rt = DOMAIN d.rt /\ d2.rt[j] = k /\ \A m \in DOMAIN d.rt : m # j => d2.rt[m] = d.rt[m]
    /\ d2.l1 = d.l1 /\ d2.end = d.end /\ d2.cl = d.cl

\* The file after it.
LEMMA BlockPutEffect ==
    ASSUME NEW h, NEW d, NEW d2, NEW late, NEW j, NEW k, FileInv(h, d, late), BlockPut(h, d, d2, j, k)
    PROVE  /\ FileInv(h, d2, Also(late, k))
           /\ \A x : IsTable(d2, x) <=> IsTable(d, x)
<1>1. /\ j \in DOMAIN d.rt /\ k \in Clusters /\ Geometry(h, d) /\ FileShape(d2) /\ Probe(h) = "qcow2"
      /\ d.rt[j] = 0 /\ k # 0 /\ ~Used(h, d, k) /\ k < d.end /\ DOMAIN d.cl[k] = {}
      /\ DOMAIN d2.rt = DOMAIN d.rt /\ d2.rt[j] = k /\ \A m \in DOMAIN d.rt : m # j => d2.rt[m] = d.rt[m]
      /\ d2.l1 = d.l1 /\ d2.end = d.end /\ d2.cl = d.cl
  BY DEF BlockPut
<1>2. FileInv(h, d, late)
  OBVIOUS
<1>3. FileInv(h, d2, late \cup {k})
  BY <1>1, <1>2, BlockAdded
<1>4. \A x : IsTable(d2, x) <=> IsTable(d, x)
  BY <1>1 DEF IsTable
<1>5. QED
  BY <1>3, <1>4 DEF Also

\* A refcount block comes into use.
LEMMA RcUpdateStep == ASSUME QcowInv, RcUpdate PROVE QcowInv'
<1> DEFINE c == Head(cmd.rc)
           i == c \div RcSlots
<1>0. Sound /\ cmd.pc = "rcupdate" /\ Still /\ truth' = truth
  BY DEF RcUpdate, At
<1>1. /\ Shape /\ SoundInv /\ CmdShape /\ RestShape /\ dev = "open" /\ mem.l1 = disk.l1 /\ mem.rt = disk.rt
      /\ Format = "qcow2" /\ cmd.op = "write" /\ cmd.pc \in PCs \ {"idle", "done"} /\ cmd.ret \in {"l1", "data"}
      /\ CacheInv /\ RangeInv /\ AllocInv /\ PathInv /\ TruthInv /\ DOMAIN cmd = CmdFields /\ DOMAIN mem = MemFields
      /\ FileInv(image, disk, Late) /\ FileShape(disk) /\ Geometry(image, disk)
      /\ cmd.rc \in Seq(1 .. FileClusters - 1) /\ cmd.rc # << >> /\ c \in 1 .. FileClusters - 1
      /\ c \in Clusters /\ i \in DOMAIN disk.rt /\ disk.rt[i] \in Clusters
      /\ cmd.ret = "data" => cmd.l2 # 0 /\ disk.l1[Index] = cmd.l2 /\ Here.kind = "normal" /\ Here.at = cmd.new
      /\ image' = image /\ Format' = Format /\ dev' = dev
  BY <1>0, AtCount
<1>2. disk.rt[i] = 0 /\ Spare(cmd.rb) /\ DOMAIN disk.cl[cmd.rb] = {}
  BY <1>0, <1>1 DEF AllocInv
<1>3. /\ cmd.rb \in 1 .. FileClusters - 1 /\ cmd.rb \in Clusters /\ cmd.rb # 0 /\ ~Used(image, disk, cmd.rb)
      /\ cmd.rb < disk.end /\ cmd.rb < mem.free
  <2>1. Format = "qcow2"
    BY <1>1
  <2>2. cmd.rb \in 1 .. FileClusters - 1 /\ ~Used(image, disk, cmd.rb) /\ cmd.rb < disk.end /\ cmd.rb < mem.free
    BY <1>2, <2>1 DEF Spare
  <2>3. \A x \in 1 .. FileClusters - 1 : x \in Clusters /\ x # 0
    BY QcowAssumption DEF Clusters
  <2>4. QED
    BY <2>2, <2>3
<1>4. /\ cmd' = [cmd EXCEPT !.pc = "count", !.rc = <<cmd.rb>> \o @]
      /\ mem' = [mem EXCEPT !.rt[i] = cmd.rb] /\ Wrote([disk EXCEPT !.rt[i] = cmd.rb])
  BY DEF RcUpdate
<1>5. /\ DOMAIN cmd' = CmdFields /\ SameRange /\ cmd'.pc = "count" /\ cmd'.l2 = cmd.l2 /\ cmd'.rc = <<cmd.rb>> \o cmd.rc
      /\ cmd'.new = cmd.new /\ cmd'.rb = cmd.rb /\ cmd'.scan = cmd.scan /\ cmd'.ret = cmd.ret
  BY <1>1, <1>4 DEF CmdFields, SameRange
<1>6. /\ DOMAIN mem' = MemFields /\ mem'.free = mem.free /\ mem'.rt = [disk.rt EXCEPT ![i] = cmd.rb] /\ mem'.l1 = mem.l1
      /\ mem'.l2c = mem.l2c /\ mem'.rcc = mem.rcc
  BY <1>1, <1>4 DEF MemFields
<1>7. cmd'.rc \in Seq(1 .. FileClusters - 1) /\ cmd'.rc # << >> /\ Late' = Late \cup {cmd.rb}
  <2>1. /\ <<cmd.rb>> \o cmd.rc \in Seq(1 .. FileClusters - 1) /\ <<cmd.rb>> \o cmd.rc # << >>
        /\ Elems(<<cmd.rb>> \o cmd.rc) = Elems(cmd.rc) \cup {cmd.rb}
    <3> DEFINE S == 1 .. FileClusters - 1
    <3>1. cmd.rc \in Seq(S) /\ cmd.rb \in S
      BY <1>1, <1>3
    <3> HIDE DEF S
    <3>2. /\ <<cmd.rb>> \o cmd.rc \in Seq(S) /\ <<cmd.rb>> \o cmd.rc # << >>
          /\ Elems(<<cmd.rb>> \o cmd.rc) = Elems(cmd.rc) \cup {cmd.rb}
      BY <3>1, Pushed
    <3>3. QED
      BY <3>2 DEF S
  <2>2. Late = Elems(cmd.rc) /\ Late' = Elems(cmd'.rc)
    BY DEF Late, Elems
  <2>3. QED
    BY <1>5, <2>1, <2>2
<1>8. SectorsOf(disk') = SectorsOf(disk) => CmdShape'
  BY <1>1, <1>5 DEF CmdShape, SameRange, Sectors
<1>9. CASE disk' = disk /\ met' = met \cup {"writefail"}
  BY <1>0, <1>1, <1>6, <1>8, <1>9, LostWrite
<1>10. CASE disk' = [disk EXCEPT !.rt[i] = cmd.rb]
  <2>1. /\ DOMAIN disk' = DiskFields /\ disk'.rt = [disk.rt EXCEPT ![i] = cmd.rb] /\ disk'.l1 = disk.l1
        /\ disk'.cl = disk.cl /\ disk'.end = disk.end
    BY <1>1, <1>10 DEF FileShape, DiskFields
  <2>2. /\ FileShape(disk') /\ DOMAIN disk'.rt = DOMAIN disk.rt /\ disk'.rt[i] = cmd.rb
        /\ \A k \in DOMAIN disk.rt : k # i => disk'.rt[k] = disk.rt[k]
    <3>1. /\ DOMAIN disk'.rt = DOMAIN disk.rt /\ disk'.rt \in [DOMAIN disk.rt -> Clusters] /\ disk'.rt[i] = cmd.rb
          /\ \A k \in DOMAIN disk.rt : k # i => disk'.rt[k] = disk.rt[k]
      BY <1>1, <1>3, <2>1 DEF FileShape
    <3>2. QED
      BY <1>1, <2>1, <3>1 DEF FileShape
  <2>3. RestShape' /\ SectorsOf(disk') = SectorsOf(disk)
    <3>1. mem'.free \in 0 .. FileClusters
      BY <1>1, <1>6 DEF RestShape
    <3>2. QED
      BY <1>0, <1>1, <1>6, <2>1, <2>2, <3>1, RestShapeDisk
  <2>4. RangeInv' /\ Index' = Index /\ Within' = Within
    BY <1>0, <1>1, <1>5, <1>7, <2>3, MoveRange DEF PCs
  <2>5. /\ FileInv(image, disk', Also(Late, cmd.rb))
        /\ \A x : IsTable(disk', x) <=> IsTable(disk, x)
        /\ \A x : IsBlock(disk', x) <=> IsBlock(disk, x) \/ x = cmd.rb
    <3>1. Probe(image) = "qcow2"
      BY <1>1 DEF Format
    <3>2. FileInv(image, disk, Late) /\ Geometry(image, disk) /\ i \in DOMAIN disk.rt
      BY <1>1
    <3>3. /\ FileShape(disk') /\ disk.rt[i] = 0 /\ DOMAIN disk.cl[cmd.rb] = {} /\ disk'.l1 = disk.l1
          /\ disk'.end = disk.end /\ disk'.cl = disk.cl
      BY <1>2, <2>1, <2>2
    <3>4. DOMAIN disk'.rt = DOMAIN disk.rt /\ disk'.rt[i] = cmd.rb /\ \A k \in DOMAIN disk.rt : k # i => disk'.rt[k] = disk.rt[k]
      BY <2>2
    <3>5. cmd.rb \in Clusters /\ cmd.rb # 0 /\ ~Used(image, disk, cmd.rb) /\ cmd.rb < disk.end
      BY <1>3
    <3>6. BlockPut(image, disk, disk', i, cmd.rb)
      BY <3>1, <3>2, <3>3, <3>4, <3>5 DEF BlockPut
    <3> HIDE DEF i
    <3>7. FileInv(image, disk, Late)
      BY <3>2
    <3>8. FileInv(image, disk', Also(Late, cmd.rb)) /\ \A x : IsTable(disk', x) <=> IsTable(disk, x)
      BY <3>6, <3>7, BlockPutEffect
    <3>9. \A x : IsBlock(disk', x) <=> IsBlock(disk, x) \/ x = cmd.rb
      BY <3>2, <3>3, <3>4, <3>5 DEF IsBlock
    <3>10. QED
      BY <3>8, <3>9
  <2>6. FileInv(image', disk', Late')
    <3>1. Late' = Also(Late, cmd.rb)
      BY <1>7 DEF Also
    <3>2. QED
      BY <1>1, <2>5, <3>1
  <2>7. CacheInv'
    BY <1>1, <1>6, <2>1, <2>5 DEF CacheInv
  <2>8. InCounting' /\ (\A w : ~Allocating(w)') /\ Here' = Here
    BY <1>5, <2>1, <2>4 DEF InCounting, Allocating, Here, Leads
  <2>9. PathInv'
    BY <1>1, <1>5, <2>1, <2>4, <2>8 DEF PathInv
  <2>10. AllocInv'
    <3>1. \A x \in Late' : x < mem'.free
      BY <1>1, <1>3, <1>6, <1>7 DEF AllocInv
    <3>2. QED
      BY <1>1, <1>5, <1>7, <2>8, <3>1 DEF AllocInv
  <2>11. \A s \in Sectors : Reads(image, disk', s) = Reads(image, disk, s)
    BY <2>1 DEF Reads, Of, Table, Leads, Stored
  <2>12. TruthInv'
    BY <1>0, <1>1, <1>5, <2>3, <2>11, KeepTruth DEF SameRange
  <2>13. QED
    BY <1>8, <2>3, <2>4, <2>6, <2>7, <2>9, <2>10, <2>12, AssembleDisk
<1>11. QED
  BY <1>4, <1>9, <1>10 DEF Wrote

-----------------------------------------------------------------------------
(* Between commands.                                                       *)

\* The state without a command.
LEMMA IdleFields ==
    /\ DOMAIN Idle = CmdFields /\ Idle.pc = "idle" /\ Idle.op = "none" /\ Idle.at = 0 /\ Idle.end = 0 /\ Idle.from = 0
    /\ Idle.buf = << >> /\ Idle.l2 = 0 /\ Idle.new = 0 /\ Idle.rb = 0 /\ Idle.scan = 0 /\ Idle.rc = << >> /\ Idle.ok = TRUE
    /\ Idle.lost = {}
  BY DEF Idle, CmdFields

\* The state of a device that is closed.
LEMMA ClosedFields ==
    /\ DOMAIN Closed = MemFields /\ Closed.l1 = << >> /\ Closed.rt = << >> /\ Closed.l2c = << >> /\ Closed.rcc = << >>
    /\ Closed.free = 0
  BY DEF Closed, MemFields

\* Nothing is counted late when nothing is under way.
LEMMA LateAtRest == cmd.rc = << >> => Late = {}
  BY DEF Late

\* The fields of a command at rest are in their ranges.
LEMMA IdleShape == ASSUME cmd' = Idle PROVE CmdShape'
<1>1. FileClusters \in Nat \ {0}
  BY QcowAssumption
<1>2. DOMAIN << >> = {}
  OBVIOUS
<1>3. /\ DOMAIN cmd' = CmdFields /\ cmd'.at = 0 /\ cmd'.end = 0 /\ cmd'.from = 0 /\ cmd'.buf = << >> /\ cmd'.l2 = 0
      /\ cmd'.new = 0 /\ cmd'.rb = 0 /\ cmd'.scan = 0 /\ cmd'.ok = TRUE
  BY IdleFields
<1>4. DOMAIN cmd'.buf \subseteq Sectors'
  BY <1>2, <1>3
<1>5. cmd'.at \in cmd'.from .. cmd'.end /\ {cmd'.l2, cmd'.new, cmd'.rb} \subseteq 0 .. FileClusters - 1 /\ cmd'.scan \in 0 .. FileClusters
  BY <1>1, <1>3
<1>6. QED
  BY <1>3, <1>4, <1>5 DEF CmdShape

\* No command is under way after the step.
LEMMA AtRest ==
    ASSUME cmd' = Idle, disk' = disk, image' = image, RestShape', CacheInv', Format # "raw" => FileInv(image, disk, {}),
           \A s \in Sectors : Reads(image, disk, s) \in truth'[s]
    PROVE  QcowInv'
<1>1. CmdShape'
  BY IdleShape
<1>2. cmd'.pc = "idle" /\ cmd'.rc = << >> /\ cmd'.op = "none"
  BY IdleFields
<1>3. PathInv' /\ AllocInv' /\ Late' = {}
  BY <1>2, Settled
<1>4. RangeInv'
  BY <1>2 DEF RangeInv, PCs
<1>5. Sectors' = Sectors /\ Format' = Format
  BY DEF Sectors, Format
<1>6. TruthInv'
  BY <1>2, <1>5 DEF TruthInv
<1>7. Format' # "raw" => FileInv(image', disk', Late')
  BY <1>3, <1>5
<1>8. QED
  BY <1>1, <1>3, <1>4, <1>6, <1>7, AssembleDisk

\* A device that is not open holds nothing, and no table is late between
\* commands.
LEMMA Resting ==
    ASSUME QcowInv, Sound, cmd.rc = << >>
    PROVE  /\ Shape /\ CmdShape /\ RestShape /\ SoundInv /\ CacheInv /\ RangeInv /\ TruthInv /\ Late = {}
           /\ Format # "raw" => FileInv(image, disk, {})
<1>1. Shape /\ CmdShape /\ RestShape /\ SoundInv
  BY ShapeParts DEF QcowInv
<1>2. Late = {}
  BY LateAtRest
<1>3. QED
  BY <1>1, <1>2 DEF SoundInv

\* Opening.
LEMMA OpenStep == ASSUME QcowInv, Open PROVE QcowInv'
<1>0. /\ dev = "closed" /\ Sound /\ image' = image /\ disk' = disk /\ cmd' = cmd /\ cmds' = cmds /\ restarts' = restarts
      /\ truth' = truth /\ met' = met
  BY DEF Open
<1>1. RangeInv
  BY <1>0 DEF QcowInv, SoundInv
<1>2. cmd = Idle /\ cmd' = Idle /\ cmd.rc = << >>
  BY <1>0, <1>1, IdleFields DEF RangeInv
<1>3. /\ Shape /\ CmdShape /\ RestShape /\ SoundInv /\ TruthInv /\ mem = Closed
      /\ Format # "raw" => FileInv(image, disk, {})
  BY <1>0, <1>2, Resting DEF RestShape
<1>4. Sectors' = Sectors /\ Format' = Format
  BY <1>0 DEF Sectors, Format
<1>5. \A s \in Sectors : Reads(image, disk, s) \in truth'[s]
  BY <1>0, <1>3 DEF TruthInv
<1>6. CASE dev' = "refused" /\ mem' = mem
  <2>1. CacheInv'
    BY <1>6 DEF CacheInv
  <2>2. RestShape'
    BY <1>0, <1>3, <1>4, <1>6 DEF RestShape
  <2>3. QED
    BY <1>0, <1>2, <1>3, <1>5, <2>1, <2>2, AtRest
<1>7. CASE OpenResult(image) # "refused" /\ dev' = "open" /\ mem' = [Closed EXCEPT !.l1 = disk.l1, !.rt = disk.rt]
  <2>1. /\ DOMAIN mem' = MemFields /\ mem'.l1 = disk.l1 /\ mem'.rt = disk.rt /\ mem'.l2c = << >> /\ mem'.rcc = << >>
        /\ mem'.free = 0
    BY <1>7, ClosedFields DEF MemFields
  <2>2. IsFiniteSet(DOMAIN << >>) /\ Cardinality(DOMAIN << >>) = 0 /\ DOMAIN << >> = {}
    <3>1. DOMAIN << >> = {}
      OBVIOUS
    <3>2. QED
      BY <3>1, FS_EmptySet
  <2>3. CacheInv'
    BY <1>0, <2>1, <2>2, QcowAssumption DEF CacheInv
  <2>4. Probe(image) \in {"raw", "qcow", "qcow2"}
    BY <1>7 DEF OpenResult
  <2>5. RestShape'
    BY <1>0, <1>3, <1>4, <1>7, <2>1, <2>4, QcowAssumption DEF RestShape
  <2>6. QED
    BY <1>0, <1>2, <1>3, <1>5, <2>3, <2>5, AtRest
<1>8. QED
  BY <1>6, <1>7 DEF Open

\* The device is closed or the daemon ends, and nothing was late.
LEMMA Ended ==
    ASSUME QcowInv, Sound, cmd.rc = << >>, dev' = "closed", mem' = Closed, cmd' = Idle, restarts < MaxRestarts,
           restarts' = restarts + 1, image' = image, disk' = disk, cmds' = cmds, truth' = truth
    PROVE  QcowInv'
<1>1. CmdShape /\ RestShape /\ SoundInv /\ TruthInv /\ (Format # "raw" => FileInv(image, disk, {}))
  BY Resting
<1>2. Sectors' = Sectors
  BY DEF Sectors
<1>3. CacheInv'
  BY DEF CacheInv
<1>4. restarts' \in 0 .. MaxRestarts
  BY <1>1, QcowAssumption DEF RestShape
<1>5. RestShape'
  BY <1>1, <1>2, <1>4, ClosedFields, QcowAssumption DEF RestShape
<1>6. QED
  BY <1>1, <1>3, <1>5, AtRest DEF TruthInv

\* Closing.
LEMMA CloseStep == ASSUME QcowInv, Close PROVE QcowInv'
  BY Ended, IdleFields DEF Close

\* The end of the daemon in a command.
LEMMA CrashStep == ASSUME QcowInv, Crash PROVE QcowInv'
<1>0. /\ dev = "open" /\ Sound /\ restarts < MaxRestarts /\ dev' = "closed" /\ mem' = Closed /\ cmd' = Idle
      /\ restarts' = restarts + 1 /\ image' = image /\ disk' = disk /\ cmds' = cmds /\ truth' = truth
  BY DEF Crash
<1>1. CASE cmd.rc = << >>
  BY <1>0, <1>1, Ended
<1>2. CASE cmd.rc # << >>
  <2>1. ~Sound'
    BY <1>2 DEF Crash, Sound
  <2>2. CmdShape'
    BY <1>0, IdleShape
  <2>3. RestShape /\ Sectors' = Sectors
    BY <1>0, ShapeParts DEF QcowInv, Sectors
  <2>4. restarts' \in 0 .. MaxRestarts
    BY <1>0, <2>3, QcowAssumption DEF RestShape
  <2>5. RestShape'
    BY <1>0, <2>3, <2>4, ClosedFields, QcowAssumption DEF RestShape
  <2>6. QED
    BY <2>1, <2>2, <2>5, ShapePartsNext DEF QcowInv
<1>3. QED
  BY <1>1, <1>2

\* A command begins.
LEMMA StartStep == ASSUME QcowInv, NEW r \in Requests, NEW v, Start(r, v) PROVE QcowInv'
<1>0. /\ dev = "open" /\ Sound /\ cmd = Idle /\ cmds < MaxCmds /\ cmds' = cmds + 1 /\ image' = image /\ disk' = disk
      /\ dev' = dev /\ mem' = mem /\ restarts' = restarts
      /\ truth' = [s \in DOMAIN truth |->
                     truth[s] \cup (IF r.op = "write" /\ s \in r.from .. r.end - 1 THEN {v} ELSE {})]
  BY DEF Start
<1>1. /\ Shape /\ CmdShape /\ RestShape /\ SoundInv /\ CacheInv /\ TruthInv /\ Late = {}
      /\ Format # "raw" => FileInv(image, disk, {})
  BY <1>0, IdleFields, Resting
<1>2. /\ FileShape(disk) /\ Geometry(image, disk) /\ DOMAIN truth = Sectors /\ Format \in {"raw", "qcow", "qcow2"}
  BY <1>0, <1>1 DEF RestShape, Format
<1>3. r.op \in {"read", "write"} /\ r.from \in Nat /\ r.end \in Nat /\ r.from < r.end /\ r.end - 1 \in Sectors
  BY <1>2, ImagesAssumption DEF Geometry, Sectors
<1>4. /\ DOMAIN cmd' = CmdFields /\ cmd'.pc = (IF Format = "raw" THEN "data" ELSE "l1") /\ cmd'.op = r.op
      /\ cmd'.at = r.from /\ cmd'.from = r.from /\ cmd'.end = r.end /\ cmd'.val = v /\ cmd'.buf = << >> /\ cmd'.l2 = 0
      /\ cmd'.new = 0 /\ cmd'.rb = 0 /\ cmd'.scan = 0 /\ cmd'.rc = << >> /\ cmd'.ok = TRUE
  BY IdleFields DEF Start, CmdFields
<1>5. Sectors' = Sectors /\ Format' = Format
  BY <1>0 DEF Sectors, Format
<1>6. CmdShape'
  <2>1. DOMAIN cmd'.buf \subseteq Sectors'
    <3>1. DOMAIN << >> = {}
      OBVIOUS
    <3>2. QED
      BY <1>4, <3>1
  <2>2. /\ cmd'.at \in cmd'.from .. cmd'.end /\ {cmd'.l2, cmd'.new, cmd'.rb} \subseteq 0 .. FileClusters - 1
        /\ cmd'.scan \in 0 .. FileClusters
    BY <1>3, <1>4, QcowAssumption
  <2>3. QED
    BY <1>4, <2>1, <2>2 DEF CmdShape
<1>7. RestShape'
  <2>1. DOMAIN truth' = Sectors' /\ cmds' \in 0 .. MaxCmds
    BY <1>0, <1>1, <1>2, <1>5, QcowAssumption DEF RestShape
  <2>2. QED
    BY <1>0, <1>1, <2>1 DEF RestShape
<1>8. CacheInv'
  BY <1>0, <1>1, <1>5 DEF CacheInv
<1>9. RangeInv'
  BY <1>0, <1>2, <1>3, <1>4, <1>5 DEF RangeInv, PCs
<1>10. PathInv' /\ AllocInv' /\ Late' = {}
  BY <1>4, <1>5, Settled
<1>11. \A s \in Nat : s < r.end => s \in Sectors
  BY <1>2, <1>3, SectorRange
<1>12. TruthInv'
  <2>1. \A s \in Sectors : truth'[s] = truth[s] \cup (IF r.op = "write" /\ s \in r.from .. r.end - 1 THEN {v} ELSE {})
    BY <1>0, <1>2
  <2>2. \A s \in Sectors : Reads(image, disk, s) \in truth'[s]
    BY <1>1, <2>1 DEF TruthInv
  <2>3. cmd'.op = "write" => \A s \in cmd'.from .. cmd'.end - 1 : cmd'.val \in truth'[s]
    BY <1>3, <1>4, <1>11, <2>1
  <2>4. cmd'.from .. cmd'.at - 1 = {}
    BY <1>3, <1>4
  <2>5. QED
    BY <1>0, <1>4, <1>5, <2>2, <2>3, <2>4 DEF TruthInv
<1>13. Format' # "raw" => FileInv(image', disk', Late')
  BY <1>0, <1>1, <1>5, <1>10
<1>14. QED
  BY <1>6, <1>7, <1>8, <1>9, <1>10, <1>12, <1>13, AssembleDisk

\* A command is answered.
LEMMA AnswerStep == ASSUME QcowInv, Answer PROVE QcowInv'
<1>0. /\ cmd.pc = "done" /\ Sound /\ cmd' = Idle /\ image' = image /\ disk' = disk /\ dev' = dev /\ mem' = mem
      /\ cmds' = cmds /\ restarts' = restarts
      /\ truth' = [s \in DOMAIN truth |->
                     IF cmd.op = "write" /\ cmd.ok /\ s \in (cmd.from .. cmd.end - 1) \ cmd.lost THEN {cmd.val} ELSE truth[s]]
  BY DEF Answer, At
<1>1. AllocInv /\ RangeInv
  BY <1>0 DEF QcowInv, SoundInv
<1>2. cmd.rc = << >>
  BY <1>0, <1>1, NothingLate DEF InCounting, Allocating
<1>3. CmdShape /\ RestShape /\ CacheInv /\ TruthInv /\ (Format # "raw" => FileInv(image, disk, {}))
  BY <1>0, <1>2, Resting
<1>4. Sectors' = Sectors /\ Format' = Format /\ DOMAIN truth = Sectors
  BY <1>0, <1>3 DEF Sectors, Format, RestShape
<1>5. DOMAIN truth' = Sectors
  BY <1>0, <1>4
<1>6. RestShape'
  BY <1>0, <1>3, <1>4, <1>5 DEF RestShape
<1>7. CacheInv'
  BY <1>0, <1>3, <1>4 DEF CacheInv
<1>8. ASSUME NEW s \in Sectors PROVE Reads(image, disk, s) \in truth'[s]
  <2>1. CASE cmd.op = "write" /\ cmd.ok /\ s \in (cmd.from .. cmd.end - 1) \ cmd.lost
    <3>1. cmd.at = cmd.end
      BY <1>0, <1>1, <2>1 DEF RangeInv
    <3>2. Reads(image, disk, s) = cmd.val
      BY <1>3, <2>1, <3>1 DEF TruthInv
    <3>3. QED
      BY <1>0, <1>4, <2>1, <3>2
  <2>2. CASE ~(cmd.op = "write" /\ cmd.ok /\ s \in (cmd.from .. cmd.end - 1) \ cmd.lost)
    <3>1. truth'[s] = truth[s]
      BY <1>0, <1>4, <2>2
    <3>2. QED
      BY <1>3, <3>1 DEF TruthInv
  <2>3. QED
    BY <2>1, <2>2
<1>9. QED
  BY <1>0, <1>3, <1>6, <1>7, <1>8, AtRest

-----------------------------------------------------------------------------
(* The cluster that was inflated last.                                     *)

Packing == Allocating({"compressed"})

\* A step that writes no data and does not go on from inflating.
Moves ==
    /\ cmd'.op = cmd.op /\ (cmd.op = "write" => cmd'.from = cmd.from /\ cmd'.at = cmd.at)
    /\ ~Packing'

\* Reading on is such a step.
LEMMA ReadMoves ==
    ASSUME DOMAIN cmd = CmdFields, cmd.op = "read", NEW content, ReadAs(content)
    PROVE  Moves
<1>1. Onward([s \in Piece |-> content[s]], {})
  BY DEF ReadAs
<1>2. /\ cmd'.pc = IF PieceEnd = cmd.end THEN "done" ELSE IF Format = "raw" THEN "data" ELSE "l1"
      /\ cmd'.op = cmd.op
  BY <1>1, OnwardEffect
<1>3. QED
  BY <1>2 DEF Moves, Packing, Allocating

\* Failing is one.
LEMMA FailMoves ==
    ASSUME DOMAIN cmd = CmdFields, Fail
    PROVE  Moves
<1>1. cmd'.pc = "done" /\ cmd'.op = cmd.op /\ cmd'.from = cmd.from /\ cmd'.at = cmd.at
  BY FailEffect
<1>2. QED
  BY <1>1 DEF Moves, Packing, Allocating

\* So is reading what the file has nothing for.
LEMMA UnallocatedMoves ==
    ASSUME DOMAIN cmd = CmdFields, cmd.op = "read", ReadUnallocated
    PROVE  Moves
  BY ReadMoves, FailMoves DEF ReadUnallocated

\* Another step that keeps the range of the command.
LEMMA RangeMoves ==
    ASSUME SameRange, ~(cmd'.pc \in {"scan", "alloc"} /\ cmd'.why = "compressed")
    PROVE  Moves
  BY DEF SameRange, Moves, Packing, Allocating

\* Taking a new cluster is such a step.
LEMMA TookMoves ==
    ASSUME DOMAIN cmd = CmdFields, NEW c, Took(c)
    PROVE  Moves
<1>1. \/ cmd' = [cmd EXCEPT !.rb = c, !.pc = "rcupdate"]
      \/ cmd' = [cmd EXCEPT !.new = c, !.pc = "l1update"]
      \/ cmd' = [cmd EXCEPT !.new = c, !.pc = "l2update"]
  BY DEF Took
<1>2. SameRange /\ cmd'.pc \in {"rcupdate", "l1update", "l2update"}
  BY <1>1 DEF CmdFields, SameRange
<1>3. QED
  BY <1>2, RangeMoves

\* So is the start of counting it.
LEMMA CountingMoves ==
    ASSUME DOMAIN cmd = CmdFields, Counting("l1") \/ Counting("data")
    PROVE  Moves
<1>1. SameRange /\ cmd'.pc \in {"count", "l1", "data"}
  BY CountingEffect
<1>2. QED
  BY <1>1, RangeMoves

\* The cluster stays as it was and so do the compressed clusters of the file,
\* or they are replaced; sectors may read as more than before.
LEMMA DecFrame ==
    ASSUME DecInv, Still, Sectors' = Sectors, mem'.dec = mem.dec, \A s \in Sectors : truth[s] \subseteq truth'[s],
           Format # "raw" => \A s \in Sectors : Of(disk', s).kind = "compressed" => Of(disk', s) = Of(disk, s),
           cmd'.op = cmd.op, cmd.op = "write" => cmd'.from = cmd.from /\ cmd'.at = cmd.at,
           Packing' => Packing /\ Here'.at = Here.at
    PROVE  DecInv'
<1>1. dev' = dev /\ Format' = Format
  BY DEF Still, Format
<1>2. \A s : Inflated(s)' = Inflated(s)
  BY DEF Inflated
<1>3. ASSUME dev = "open", Format # "raw", NEW s \in Sectors, Of(disk', s).kind = "compressed"
      PROVE  /\ cmd'.op = "write" => s \notin cmd'.from .. cmd'.at - 1
             /\ Of(disk', s).at = mem'.dec.at => Inflated(s)' \in truth'[s]
  <2>1. Of(disk', s) = Of(disk, s)
    BY <1>3
  <2>2. /\ cmd.op = "write" => s \notin cmd.from .. cmd.at - 1
        /\ Of(disk, s).at = mem.dec.at => Inflated(s) \in truth[s]
    BY <1>3, <2>1 DEF DecInv
  <2>3. QED
    BY <1>2, <2>1, <2>2
<1>4. ASSUME dev = "open", Format # "raw", Packing' PROVE mem'.dec.at = Here'.at
  BY <1>4 DEF DecInv, Packing
<1>5. QED
  BY <1>1, <1>3, <1>4 DEF DecInv, Packing

\* Tables that stay as they are lead to the same clusters.
LEMMA OfFrame ==
    ASSUME NEW h, NEW d, NEW d2, NEW late, FileInv(h, d, late), d2.l1 = d.l1,
           \A c \in Clusters : IsTable(d, c) => d2.cl[c] = d.cl[c]
    PROVE  \A s \in SectorsOf(d) : Of(d2, s) = Of(d, s)
<1> SUFFICES ASSUME NEW s \in SectorsOf(d) PROVE Of(d2, s) = Of(d, s)
  OBVIOUS
<1>1. Table(d, s) \in Clusters /\ (Table(d, s) # 0 => IsTable(d, Table(d, s)))
  BY OfSector
<1>2. QED
  BY <1>1 DEF Of, Table, Leads

\* The state in a command.
LEMMA InCommand ==
    ASSUME QcowInv, Sound, cmd.pc \in PCs \ {"idle", "done"}
    PROVE  /\ CacheInv /\ RangeInv /\ PathInv /\ AllocInv /\ TruthInv /\ dev = "open" /\ cmd.op \in {"read", "write"}
           /\ DOMAIN cmd = CmdFields /\ DOMAIN mem = MemFields /\ DOMAIN truth = Sectors
           /\ FileShape(disk) /\ DOMAIN disk = DiskFields /\ DOMAIN disk.cl = Clusters
           /\ Format # "raw" => FileInv(image, disk, Late)
<1>1. SoundInv /\ CmdShape /\ RestShape /\ dev = "open" /\ cmd.op \in {"read", "write"}
  BY Under
<1>2. QED
  BY <1>1 DEF SoundInv, CmdShape, RestShape, FileShape

\* The L1 table is looked up.
LEMMA LookL1Dec == ASSUME QcowInv, Sound => DecInv, LookL1 PROVE DecInv'
<1> DEFINE l2 == mem.l1[VCluster \div L2Size]
<1>0. Sound /\ cmd.pc = "l1" /\ mem' = mem /\ Still /\ disk' = disk /\ truth' = truth
  BY DEF LookL1, At, NoIo, Still
<1>1. DOMAIN cmd = CmdFields /\ cmd.op \in {"read", "write"}
  BY <1>0, InCommand DEF PCs
<1>2. Moves
  <2>1. CASE l2 # 0
    <3>1. cmd' = [cmd EXCEPT !.pc = "l2", !.l2 = l2]
      BY <2>1 DEF LookL1
    <3>2. SameRange /\ cmd'.pc = "l2"
      BY <1>1, <3>1 DEF CmdFields, SameRange
    <3>3. QED
      BY <3>2, RangeMoves
  <2>2. CASE l2 = 0 /\ cmd.op = "write"
    <3>1. cmd' = [cmd EXCEPT !.pc = "scan", !.why = "l2table", !.scan = mem.free]
      BY <2>2 DEF LookL1
    <3>2. SameRange /\ cmd'.why = "l2table"
      BY <1>1, <3>1 DEF CmdFields, SameRange
    <3>3. QED
      BY <3>2, RangeMoves
  <2>3. CASE l2 = 0 /\ cmd.op = "read"
    <3>1. ReadUnallocated
      BY <2>3 DEF LookL1
    <3>2. QED
      BY <1>1, <2>3, <3>1, UnallocatedMoves
  <2>4. QED
    BY <1>1, <2>1, <2>2, <2>3
<1>3. QED
  BY <1>0, <1>2, DecFrame DEF Moves, Sectors

\* The L2 table is looked up.
LEMMA LookL2Dec == ASSUME QcowInv, Sound => DecInv, LookL2, Sound' PROVE DecInv'
<1>0. Sound /\ cmd.pc = "l2" /\ Still /\ disk' = disk /\ truth' = truth
  BY DEF LookL2, At
<1>1. DOMAIN cmd = CmdFields /\ DOMAIN mem = MemFields /\ cmd.op \in {"read", "write"}
  BY <1>0, InCommand DEF PCs
<1>2. ~ReadFails
  BY DEF ReadFails, Sound
<1>3. ASSUME NEW cache, mem' = [mem EXCEPT !.l2c = cache],
             LET e == Slot(cache[cmd.l2], VCluster % L2Size, NoEntry)
                 alloc == cmd' = [cmd EXCEPT !.pc = "scan", !.why = e.kind, !.scan = mem.free]
             IN CASE e.kind = "none" /\ cmd.op = "read" -> ReadUnallocated
                  [] e.kind = "zero" /\ cmd.op = "read" -> ReadAs([s \in Piece |-> "zero"])
                  [] e.kind = "compressed" -> Step("inflate")
                  [] e.kind = "normal" /\ (cmd.op = "read" \/ (e.copied /\ Format = "qcow2")) ->
                       cmd' = [cmd EXCEPT !.pc = "data", !.new = e.at]
                  [] OTHER -> alloc
      PROVE  DecInv'
  <2> DEFINE e == Slot(cache[cmd.l2], VCluster % L2Size, NoEntry)
  <2>1. \/ cmd.op = "read" /\ ReadUnallocated
        \/ cmd.op = "read" /\ ReadAs([s \in Piece |-> "zero"])
        \/ Step("inflate")
        \/ cmd' = [cmd EXCEPT !.pc = "data", !.new = e.at]
        \/ e.kind # "compressed" /\ cmd' = [cmd EXCEPT !.pc = "scan", !.why = e.kind, !.scan = mem.free]
    BY <1>3
  <2> HIDE DEF e
  <2>2. CASE Step("inflate")
    <3>1. SameRange /\ cmd'.pc = "inflate"
      BY <1>1, <2>2 DEF CmdFields, SameRange, Step
    <3>2. QED
      BY <1>0, <1>1, <1>3, <3>1, RangeMoves, DecFrame DEF Moves, Sectors, MemFields
  <2>3. CASE cmd' = [cmd EXCEPT !.pc = "data", !.new = e.at]
    <3>1. SameRange /\ cmd'.pc = "data"
      BY <1>1, <2>3 DEF CmdFields, SameRange
    <3>2. QED
      BY <1>0, <1>1, <1>3, <3>1, RangeMoves, DecFrame DEF Moves, Sectors, MemFields
  <2>4. CASE e.kind # "compressed" /\ cmd' = [cmd EXCEPT !.pc = "scan", !.why = e.kind, !.scan = mem.free]
    <3>1. SameRange /\ cmd'.why # "compressed"
      BY <1>1, <2>4 DEF CmdFields, SameRange
    <3>2. QED
      BY <1>0, <1>1, <1>3, <3>1, RangeMoves, DecFrame DEF Moves, Sectors, MemFields
  <2>5. CASE cmd.op = "read" /\ (ReadUnallocated \/ ReadAs([s \in Piece |-> "zero"]))
    <3>1. Moves
      BY <1>1, <2>5, ReadMoves, UnallocatedMoves
    <3>2. QED
      BY <1>0, <1>1, <1>3, <3>1, DecFrame DEF Moves, Sectors, MemFields
  <2>6. QED
    BY <2>1, <2>2, <2>3, <2>4, <2>5
<1>4. QED
  BY <1>2, <1>3, ZenonT(60) DEF LookL2

\* A cluster is inflated, or overwrites the one that was.
LEMMA InflateDec == ASSUME QcowInv, Sound => DecInv, Inflate PROVE DecInv'
<1> DEFINE data == IF mem.dec.at = Entry.at THEN mem.dec.data ELSE disk.cl[Entry.at]
           junk == [i \in 0 .. ClusterSectors - 1 |-> "junk"]
<1>0. Sound /\ cmd.pc = "inflate" /\ Still /\ disk' = disk /\ cmd.pc \in PCs \ {"idle", "done"} /\ DecInv
  BY DEF Inflate, At, Still, PCs
<1>1. /\ CacheInv /\ RangeInv /\ PathInv /\ TruthInv /\ dev = "open" /\ cmd.op \in {"read", "write"}
      /\ DOMAIN cmd = CmdFields /\ DOMAIN mem = MemFields /\ DOMAIN truth = Sectors
      /\ FileShape(disk)
  BY <1>0, InCommand
<1>2. Format # "raw"
  BY <1>0, <1>1 DEF RangeInv
<1>3. cmd.l2 # 0 /\ disk.l1[Index] = cmd.l2 /\ cmd.l2 \in DOMAIN mem.l2c /\ Here.kind = "compressed"
  BY <1>0, <1>1, <1>2 DEF PathInv
<1>4. Entry = Here /\ FileInv(image, disk, Late) /\ \A s \in Sectors : s \div ClusterSectors = VCluster => Of(disk, s) = Here
  BY <1>0, <1>1, <1>2, <1>3, EntryInCache, EntryHere
<1>5. Sectors' = Sectors /\ dev' = dev /\ Format' = Format
  BY <1>0 DEF Still, Sectors, Format
<1>6. CASE Fail /\ mem' = mem /\ truth' = truth
  BY <1>0, <1>1, <1>5, <1>6, FailMoves, DecFrame DEF Moves
<1>7. CASE /\ Fail /\ mem' = [mem EXCEPT !.dec = [at |-> mem.dec.at, data |-> junk]]
           /\ truth' = [s \in DOMAIN truth |-> truth[s] \cup (IF Packed(s, mem.dec.at) THEN {"junk"} ELSE {})]
  <2>1. Moves
    BY <1>1, <1>7, FailMoves
  <2>2. mem'.dec = [at |-> mem.dec.at, data |-> junk]
    BY <1>1, <1>7 DEF MemFields
  <2>3. mem'.dec.at = mem.dec.at /\ mem'.dec.data = junk
    BY <2>2
  <2> HIDE DEF junk
  <2>4. ASSUME NEW s \in Sectors, Of(disk, s).kind = "compressed"
        PROVE  /\ cmd.op = "write" => s \notin cmd.from .. cmd.at - 1
               /\ Of(disk, s).at = mem'.dec.at => Inflated(s)' \in truth'[s]
    <3>1. cmd.op = "write" => s \notin cmd.from .. cmd.at - 1
      BY <1>0, <1>1, <1>2, <2>4 DEF DecInv
    <3>2. ASSUME Of(disk, s).at = mem'.dec.at PROVE Inflated(s)' \in truth'[s]
      <4>1. EntryOf(disk, s) = Of(disk, s)
        BY DEF EntryOf, Of, Table, Leads
      <4>2. Packed(s, mem.dec.at)
        BY <2>3, <2>4, <3>2, <4>1 DEF Packed
      <4>3. "junk" \in truth'[s]
        BY <1>1, <1>7, <4>2
      <4>4. s % ClusterSectors \in 0 .. ClusterSectors - 1
        BY <1>1, SectorIndex DEF Sectors
      <4>5. Inflated(s)' = "junk"
        BY <2>3, <4>4 DEF Inflated, junk, Slot
      <4>6. QED
        BY <4>3, <4>5
    <3>3. QED
      BY <3>1, <3>2
  <2>5. QED
    BY <1>0, <1>5, <2>1, <2>4 DEF Moves, Packing, DecInv
<1>8. CASE /\ mem' = [mem EXCEPT !.dec = [at |-> Entry.at, data |-> data]] /\ truth' = truth
           /\ IF cmd.op = "read" THEN ReadAs([s \in Piece |-> Slot(data, s % ClusterSectors, "zero")])
              ELSE cmd' = [cmd EXCEPT !.pc = "scan", !.why = "compressed", !.scan = mem.free]
  <2>1. mem'.dec.at = Entry.at /\ mem'.dec.data = data
    BY <1>1, <1>8 DEF MemFields
  <2> HIDE DEF data
  <2>2. /\ cmd'.op = cmd.op /\ (cmd.op = "write" => cmd'.from = cmd.from /\ cmd'.at = cmd.at)
        /\ Packing' => Here' = Here
    <3>1. CASE cmd.op = "read"
      BY <1>1, <1>8, <3>1, ReadMoves DEF Moves
    <3>2. CASE cmd.op = "write"
      <4>1. cmd' = [cmd EXCEPT !.pc = "scan", !.why = "compressed", !.scan = mem.free]
        BY <1>8, <3>2
      <4>2. cmd'.op = cmd.op /\ cmd'.from = cmd.from /\ cmd'.at = cmd.at /\ cmd'.l2 = cmd.l2
        BY <1>1, <4>1 DEF CmdFields
      <4>3. Here' = Here
        BY <1>0, <4>2 DEF Here, Within, VCluster
      <4>4. QED
        BY <4>2, <4>3
    <3>3. QED
      BY <1>1, <3>1, <3>2
  <2>3. ASSUME NEW s \in Sectors, Of(disk, s).kind = "compressed"
        PROVE  /\ cmd.op = "write" => s \notin cmd.from .. cmd.at - 1
               /\ Of(disk, s).at = mem'.dec.at => Inflated(s)' \in truth[s]
    <3>1. cmd.op = "write" => s \notin cmd.from .. cmd.at - 1
      BY <1>0, <1>1, <1>2, <2>3 DEF DecInv
    <3>2. ASSUME Of(disk, s).at = mem'.dec.at PROVE Inflated(s)' \in truth[s]
      <4>1. cmd.at \in Sectors /\ Of(disk, cmd.at) = Here
        BY <1>0, <1>4, Under DEF VCluster
      <4>2. s \div ClusterSectors = VCluster
        BY <1>3, <1>4, <2>1, <2>3, <3>2, <4>1, OneSource DEF Sectors, Full, VCluster
      <4>3. QED
        BY <1>0, <2>1, <4>2, InflatedData DEF Inflated, data
    <3>3. QED
      BY <3>1, <3>2
  <2>4. QED
    BY <1>0, <1>4, <1>5, <1>8, <2>1, <2>2, <2>3 DEF Packing, DecInv
<1>9. QED
  BY <1>6, <1>7, <1>8 DEF Inflate

\* Data is read or written, and not where something is compressed.
LEMMA DataDec == ASSUME QcowInv, Sound => DecInv, Data PROVE DecInv'
<1> DEFINE at == IF Format = "raw" THEN VCluster ELSE cmd.new
<1>0. Sound /\ cmd.pc = "data" /\ Still /\ mem' = mem /\ truth' = truth /\ cmd.pc \in PCs \ {"idle", "done"} /\ DecInv
  BY DEF Data, At, PCs
<1>1. /\ PathInv /\ dev = "open" /\ cmd.op \in {"read", "write"}
      /\ DOMAIN cmd = CmdFields /\ DOMAIN disk = DiskFields /\ DOMAIN disk.cl = Clusters
  BY <1>0, InCommand
<1>2. CASE Moves /\ disk' = disk
  BY <1>0, <1>2, DecFrame DEF Moves, Sectors
<1>3. ASSUME NEW k \in cmd.at .. PieceEnd, cmd.op = "write", Onward(<< >>, k .. PieceEnd - 1), NEW f,
             disk' = [disk EXCEPT !.cl[at] = f]
      PROVE  DecInv'
  <2>1. /\ cmd'.pc = IF PieceEnd = cmd.end THEN "done" ELSE IF Format = "raw" THEN "data" ELSE "l1"
        /\ cmd'.op = cmd.op /\ cmd'.from = cmd.from /\ cmd'.at = PieceEnd
    BY <1>1, <1>3, OnwardEffect
  <2>2. ~Packing'
    BY <2>1 DEF Packing, Allocating
  <2>3. dev' = dev /\ Format' = Format
    BY <1>0 DEF Still, Format
  <2>4. disk'.l1 = disk.l1 /\ \A c \in Clusters : c # at => disk'.cl[c] = disk.cl[c]
    BY <1>1, <1>3 DEF DiskFields
  <2>5. Sectors' = Sectors
    BY <2>4 DEF Sectors, SectorsOf
  <2>6. ASSUME Format # "raw", NEW s \in Sectors, Of(disk', s).kind = "compressed"
        PROVE  /\ s \notin cmd.from .. PieceEnd - 1
               /\ Of(disk', s).at = mem.dec.at => Inflated(s) \in truth[s]
    <3>1. FileInv(image, disk, Late) /\ ~IsTable(disk, at)
      BY <1>0, <2>6, DataCluster
    <3>2. Of(disk', s) = Of(disk, s)
      BY <2>4, <3>1, OfFrame DEF Sectors
    <3>3. /\ s \notin cmd.from .. cmd.at - 1
          /\ Of(disk, s).at = mem.dec.at => Inflated(s) \in truth[s]
      BY <1>0, <1>1, <1>3, <2>6, <3>2 DEF DecInv
    <3>4. s \notin Piece
      <4> SUFFICES ASSUME s \in Piece PROVE FALSE
        OBVIOUS
      <4>1. s \div ClusterSectors = VCluster
        BY <1>0, Under, PieceRange
      <4>2. cmd.l2 # 0 /\ disk.l1[Index] = cmd.l2 /\ Here.kind = "normal"
        BY <1>0, <1>1, <2>6 DEF PathInv
      <4>3. Of(disk, s) = Here
        BY <1>0, <2>6, <4>1, <4>2, EntryHere
      <4>4. QED
        BY <2>6, <3>2, <4>2, <4>3
    <3>5. cmd.at \in Nat /\ cmd.from \in Nat /\ cmd.from <= cmd.at /\ PieceEnd \in Int /\ s \in Int
      <4>1. cmd.at \in Nat /\ cmd.from \in Nat /\ cmd.from <= cmd.at /\ PieceEnd \in cmd.at + 1 .. cmd.end /\ cmd.end \in Nat
        BY <1>0, Under, PieceRange
      <4>2. s \in Nat
        BY <3>1, SectorIndex DEF FileInv, Sectors
      <4>3. QED
        BY <4>1, <4>2
    <3>6. QED
      BY <3>2, <3>3, <3>4, <3>5 DEF Piece
  <2>7. \A s : Inflated(s)' = Inflated(s)
    BY <1>0 DEF Inflated
  <2>8. QED
    BY <1>0, <2>1, <2>2, <2>3, <2>5, <2>6, <2>7 DEF DecInv, Packing
<1>4. ASSUME cmd.op = "read", ReadAs([s \in Piece |-> InFile(at, s)]) PROVE Moves
  BY <1>1, <1>4, ReadMoves
<1>5. Fail => Moves
  BY <1>1, FailMoves
<1>6. QED
  BY <1>2, <1>3, <1>4, <1>5 DEF Data

\* The search for a free cluster.
LEMMA ScanDec == ASSUME QcowInv, Sound => DecInv, Scan PROVE DecInv'
<1>0. Sound /\ cmd.pc = "scan" /\ Still /\ disk' = disk /\ truth' = truth /\ DecInv
  BY DEF Scan, At
<1>1. DOMAIN cmd = CmdFields /\ DOMAIN mem = MemFields
  BY <1>0, InCommand DEF PCs
<1>2. mem'.dec = mem.dec
  <2>1. mem' = mem \/ \E cache : mem' = [mem EXCEPT !.rcc = cache]
    BY DEF Scan
  <2>2. QED
    BY <1>1, <2>1 DEF MemFields
<1>3. cmd'.op = cmd.op /\ cmd'.from = cmd.from /\ cmd'.at = cmd.at /\ cmd'.l2 = cmd.l2 /\ cmd'.why = cmd.why
  <2>1. \/ cmd' = [cmd EXCEPT !.pc = "alloc", !.scan = disk.end] \/ Step("alloc")
        \/ cmd' = [cmd EXCEPT !.scan = @ + 1]
    BY DEF Scan
  <2>2. QED
    BY <1>1, <2>1 DEF CmdFields, Step
<1>4. Packing' => Packing
  BY <1>0, <1>3 DEF Packing, Allocating
<1>5. Here' = Here
  BY <1>0, <1>3 DEF Here, Within, VCluster
<1>6. QED
  BY <1>0, <1>2, <1>3, <1>4, <1>5, DecFrame DEF Sectors

\* A new cluster.
LEMMA AllocateDec == ASSUME QcowInv, Sound => DecInv, Allocate PROVE DecInv'
<1> DEFINE c == cmd.scan
<1>0. Sound /\ cmd.pc = "alloc" /\ Still /\ cmd.pc \in PCs \ {"idle", "done"} /\ DecInv
  BY DEF Allocate, At, PCs
<1>1. /\ RangeInv /\ AllocInv /\ PathInv
      /\ DOMAIN cmd = CmdFields /\ DOMAIN mem = MemFields /\ DOMAIN truth = Sectors
      /\ FileShape(disk)
  BY <1>0, InCommand
<1>2. Format # "raw" /\ FileInv(image, disk, Late) /\ cmd.why \in Kinds \cup {"l2table", "refblock"}
  <2>1. Format # "raw"
    BY <1>0, <1>1 DEF RangeInv
  <2>2. QED
    BY <1>0, <1>1, <2>1, InCommand DEF PathInv
<1>3. \/ disk' = disk
      \/ c < FileClusters /\ \E f : disk' = [disk EXCEPT !.cl[c] = f, !.end = IF c < @ THEN @ ELSE c + 1]
  BY DEF Allocate
<1>4. disk'.l1 = disk.l1 /\ \A s \in Sectors : Of(disk', s) = Of(disk, s)
  <2>1. CASE disk' = disk
    BY <2>1
  <2>2. ASSUME c < FileClusters, NEW f, disk' = [disk EXCEPT !.cl[c] = f, !.end = IF c < @ THEN @ ELSE c + 1]
        PROVE  disk'.l1 = disk.l1 /\ \A s \in Sectors : Of(disk', s) = Of(disk, s)
    <3>1. c \in Clusters /\ ~Used(image, disk, c)
      <4>1. c \in Clusters
        BY <1>0, <2>2, Under, QcowAssumption DEF CmdShape, Clusters
      <4>2. QED
        BY <1>0, <1>1, <2>2, <4>1 DEF AllocInv
    <3>2. disk'.l1 = disk.l1 /\ \A b \in Clusters : b # c => disk'.cl[b] = disk.cl[b]
      BY <1>1, <2>2, <3>1, FreshEffect
    <3>3. \A b \in Clusters : IsTable(disk, b) => disk'.cl[b] = disk.cl[b]
      BY <3>1, <3>2 DEF Used
    <3>4. \A s \in Sectors : Of(disk', s) = Of(disk, s)
      BY <1>2, <3>2, <3>3, OfFrame DEF Sectors
    <3>5. QED
      BY <3>2, <3>4
  <2>3. QED
    BY <1>3, <2>1, <2>2
<1>5. Sectors' = Sectors
  BY <1>4 DEF Sectors, SectorsOf
<1>6. mem'.dec = mem.dec
  <2>1. mem' = mem \/ mem' = [mem EXCEPT !.free = c + 1]
    BY DEF Allocate
  <2>2. QED
    BY <1>1, <2>1 DEF MemFields
<1>7. \A s \in Sectors : truth[s] \subseteq truth'[s]
  <2>1. \/ truth' = truth
        \/ truth' = [s \in DOMAIN truth |->
                       IF s \div ClusterSectors # VCluster THEN truth[s]
                       ELSE truth[s] \cup (CASE cmd.why = "none" -> {"zero"}
                                             [] cmd.why = "zero" -> {"header"} [] OTHER -> {})]
    BY DEF Allocate
  <2>2. QED
    BY <1>1, <2>1
<1>8. Moves
  <2>1. cmd' = Counted \/ Fail \/ Took(c)
    BY DEF Allocate
  <2>2. CASE cmd' = Counted
    <3>1. \/ cmd.why = "refblock"
          \/ Fail \/ Took(c)
      BY DEF Allocate
    <3>2. SameRange /\ cmd'.pc = IF Len(cmd.rc) = 1 THEN cmd.ret ELSE "count"
      BY <1>1, <2>2, CountedEffect
    <3>3. CASE cmd.why = "refblock"
      <4>1. cmd.ret \in {"l1", "data"}
        BY <1>0, <1>1, <3>3 DEF AllocInv, InCounting, Allocating
      <4>2. QED
        BY <3>2, <4>1, RangeMoves
    <3>4. CASE Took(c)
      BY <1>1, <1>2, <3>4, TookMoves
    <3>5. QED
      BY <1>1, <3>1, <3>3, <3>4, FailMoves
  <2>3. QED
    BY <1>1, <1>2, <2>1, <2>2, FailMoves, TookMoves
<1>9. QED
  BY <1>0, <1>4, <1>5, <1>6, <1>7, <1>8, DecFrame DEF Moves

\* The L1 table gets an empty table.
LEMMA L1UpdateDec == ASSUME QcowInv, Sound => DecInv, L1Update, Sound' PROVE DecInv'
<1>0. Sound /\ cmd.pc = "l1update" /\ Still /\ truth' = truth /\ Counting("l1") /\ cmd.pc \in PCs \ {"idle", "done"} /\ DecInv
  BY DEF L1Update, At, PCs
<1>1. /\ AllocInv /\ PathInv /\ RangeInv /\ DOMAIN cmd = CmdFields /\ DOMAIN mem = MemFields
      /\ FileShape(disk) /\ DOMAIN disk = DiskFields
  BY <1>0, InCommand
<1>2. Index \in DOMAIN disk.l1 /\ DOMAIN disk.cl[cmd.new] = {}
  BY <1>0, <1>1, OnTheWay DEF AllocInv
<1>3. mem' = [mem EXCEPT !.l1[Index] = cmd.new] /\ disk' = [disk EXCEPT !.l1[Index] = cmd.new]
  BY DEF L1Update, Index, Wrote, Sound
<1>4. mem'.dec = mem.dec /\ disk'.l1 = [disk.l1 EXCEPT ![Index] = cmd.new] /\ disk'.cl = disk.cl
  BY <1>1, <1>3 DEF MemFields, DiskFields
<1>5. Sectors' = Sectors
  BY <1>4 DEF Sectors, SectorsOf
<1>6. Moves
  BY <1>0, <1>1, CountingMoves
<1>7. ASSUME NEW s \in Sectors, Of(disk', s).kind = "compressed" PROVE Of(disk', s) = Of(disk, s)
  <2> DEFINE i == (s \div ClusterSectors) \div L2Size
  <2>1. i \in DOMAIN disk.l1
    BY <1>1, SectorIndex DEF Sectors
  <2>2. CASE i = Index
    <3>1. Table(disk', s) = cmd.new
      BY <1>4, <2>1, <2>2 DEF Table
    <3>2. Of(disk', s) = NoEntry
      BY <1>2, <1>4, <3>1 DEF Of, Leads, Slot
    <3>3. QED
      BY <1>7, <3>2 DEF NoEntry
  <2>3. CASE i # Index
    <3>1. Table(disk', s) = Table(disk, s)
      BY <1>4, <2>1, <2>3 DEF Table
    <3>2. QED
      BY <1>4, <3>1 DEF Of, Leads
  <2>4. QED
    BY <2>2, <2>3
<1>8. QED
  BY <1>0, <1>4, <1>5, <1>6, <1>7, DecFrame DEF Moves

\* The L2 table comes to lead to a cluster that is not compressed.
LEMMA L2UpdateDec == ASSUME QcowInv, Sound => DecInv, L2Update, Sound' PROVE DecInv'
<1> DEFINE e == [at |-> cmd.new, kind |-> "normal", copied |-> Format = "qcow2"]
<1>0. Sound /\ cmd.pc = "l2update" /\ Still /\ truth' = truth /\ Counting("data") /\ cmd.pc \in PCs \ {"idle", "done"} /\ DecInv
  BY DEF L2Update, At, PCs
<1>1. /\ PathInv /\ RangeInv /\ DOMAIN cmd = CmdFields /\ DOMAIN mem = MemFields
      /\ FileShape(disk) /\ DOMAIN disk = DiskFields /\ DOMAIN disk.cl = Clusters
  BY <1>0, InCommand
<1>2. Format # "raw"
  BY <1>0, <1>1 DEF RangeInv
<1>3. FileInv(image, disk, Late)
  BY <1>0, <1>2, InCommand
<1>4. /\ mem' = [mem EXCEPT !.l2c[cmd.l2] = With(@, Within, e)]
      /\ disk' = [disk EXCEPT !.cl[cmd.l2] = With(@, Within, e)]
  BY DEF L2Update, Within, Wrote, Sound
<1>5. e.kind = "normal"
  OBVIOUS
<1> HIDE DEF e
<1>6. mem'.dec = mem.dec /\ disk'.l1 = disk.l1 /\ disk'.cl = [disk.cl EXCEPT ![cmd.l2] = With(disk.cl[cmd.l2], Within, e)]
  BY <1>1, <1>4 DEF MemFields, DiskFields
<1>7. Sectors' = Sectors
  BY <1>6 DEF Sectors, SectorsOf
<1>8. Moves
  BY <1>0, <1>1, CountingMoves
<1>9. ASSUME NEW s \in Sectors, Of(disk', s).kind = "compressed" PROVE Of(disk', s) = Of(disk, s)
  <2> DEFINE t == Table(disk, s)
             i == (s \div ClusterSectors) % L2Size
  <2>1. Table(disk', s) = t /\ t \in Clusters
    BY <1>3, <1>6, OfSector DEF Table, Sectors
  <2> HIDE DEF t, i
  <2>2. CASE t = 0
    BY <2>1, <2>2 DEF Of, t
  <2>3. CASE t # 0
    <3>1. Of(disk', s) = Slot(disk'.cl[t], i, NoEntry) /\ Of(disk, s) = Slot(disk.cl[t], i, NoEntry)
      BY <2>1, <2>3 DEF Of, Leads, t, i
    <3>2. CASE t # cmd.l2
      BY <1>1, <1>6, <2>1, <3>1, <3>2
    <3>3. CASE t = cmd.l2
      <4>1. disk'.cl[t] = With(disk.cl[t], Within, e)
        BY <1>1, <1>6, <2>1, <3>3
      <4>2. DOMAIN With(disk.cl[t], Within, e) = DOMAIN disk.cl[t] \cup {Within}
        BY DEF With
      <4>3. \A j \in DOMAIN disk.cl[t] \cup {Within} : With(disk.cl[t], Within, e)[j] = IF j = Within THEN e ELSE disk.cl[t][j]
        BY DEF With
      <4>4. i # Within
        BY <1>5, <1>9, <3>1, <4>1, <4>2, <4>3 DEF Slot
      <4>5. QED
        BY <3>1, <4>1, <4>2, <4>3, <4>4 DEF Slot
    <3>4. QED
      BY <3>2, <3>3
  <2>4. QED
    BY <2>2, <2>3
<1>10. QED
  BY <1>0, <1>6, <1>7, <1>8, <1>9, DecFrame DEF Moves

\* A cluster is counted.
LEMMA CountDec == ASSUME QcowInv, Sound => DecInv, Count, Sound' PROVE DecInv'
<1> DEFINE c == Head(cmd.rc)
           block == mem.rt[c \div RcSlots]
<1>0. Sound /\ cmd.pc = "count" /\ Still /\ truth' = truth /\ DecInv
  BY DEF Count, At
<1>1. /\ DOMAIN cmd = CmdFields /\ DOMAIN mem = MemFields /\ FileInv(image, disk, Late) /\ FileShape(disk)
      /\ c \div RcSlots \in DOMAIN disk.rt /\ block \in Clusters /\ cmd.ret \in {"l1", "data"} /\ mem.rt = disk.rt
  BY <1>0, AtCount
<1>2. CASE cmd' = [cmd EXCEPT !.pc = "scan", !.why = "refblock", !.scan = mem.free] /\ mem' = mem /\ disk' = disk
  <2>1. SameRange /\ cmd'.why = "refblock"
    BY <1>1, <1>2 DEF CmdFields, SameRange
  <2>2. QED
    BY <1>0, <1>2, <2>1, RangeMoves, DecFrame DEF Moves, Sectors
<1>3. ASSUME block # 0, NEW cache, NEW b, mem' = [mem EXCEPT !.rcc = [cache EXCEPT ![block] = b]],
             cmd' = Counted, disk' = [disk EXCEPT !.cl[block] = b]
      PROVE  DecInv'
  <2>1. SameRange /\ cmd'.pc = IF Len(cmd.rc) = 1 THEN cmd.ret ELSE "count"
    BY <1>1, <1>3, CountedEffect
  <2>2. mem'.dec = mem.dec
    BY <1>1, <1>3 DEF MemFields
  <2>3. ~IsTable(disk, block)
    <3>1. IsBlock(disk, block)
      BY <1>1, <1>3 DEF IsBlock
    <3>2. QED
      BY <1>1, <3>1 DEF FileInv, Exclusive
  <2>4. disk'.l1 = disk.l1 /\ \A a \in Clusters : a # block => disk'.cl[a] = disk.cl[a]
    BY <1>1, <1>3 DEF FileShape, DiskFields
  <2>5. \A s \in Sectors : Of(disk', s) = Of(disk, s)
    BY <1>1, <2>3, <2>4, OfFrame DEF Sectors
  <2>6. Sectors' = Sectors
    BY <2>4 DEF Sectors, SectorsOf
  <2>7. Moves
    BY <1>1, <2>1, RangeMoves
  <2>8. QED
    BY <1>0, <2>2, <2>5, <2>6, <2>7, DecFrame DEF Moves
<1>4. ~ReadFails /\ \A d : Wrote(d) => disk' = d
  BY DEF ReadFails, Wrote, Sound
<1>5. QED
  BY <1>2, <1>3, <1>4 DEF Count

\* A refcount block comes into use.
LEMMA RcUpdateDec == ASSUME QcowInv, Sound => DecInv, RcUpdate, Sound' PROVE DecInv'
<1> DEFINE i == Head(cmd.rc) \div RcSlots
<1>0. Sound /\ cmd.pc = "rcupdate" /\ Still /\ truth' = truth /\ DecInv
  BY DEF RcUpdate, At
<1>1. DOMAIN cmd = CmdFields /\ DOMAIN mem = MemFields /\ FileShape(disk)
  BY <1>0, InCommand DEF PCs
<1>2. /\ cmd' = [cmd EXCEPT !.pc = "count", !.rc = <<cmd.rb>> \o @]
      /\ mem' = [mem EXCEPT !.rt[i] = cmd.rb] /\ disk' = [disk EXCEPT !.rt[i] = cmd.rb]
  BY DEF RcUpdate, Wrote, Sound
<1> HIDE DEF i
<1>3. mem'.dec = mem.dec /\ disk'.l1 = disk.l1 /\ disk'.cl = disk.cl
  BY <1>1, <1>2 DEF MemFields, FileShape, DiskFields
<1>4. SameRange /\ cmd'.pc = "count"
  BY <1>1, <1>2 DEF CmdFields, SameRange
<1>5. Moves
  BY <1>4, RangeMoves
<1>6. Sectors' = Sectors /\ \A s : Of(disk', s) = Of(disk, s)
  BY <1>3 DEF Sectors, SectorsOf, Of, Table, Leads
<1>7. QED
  BY <1>0, <1>3, <1>5, <1>6, DecFrame DEF Moves

\* Opening forgets the cluster.
LEMMA OpenDec == ASSUME QcowInv, Open PROVE DecInv'
<1>0. dev = "closed" /\ Sound /\ image' = image /\ disk' = disk /\ cmd' = cmd
  BY DEF Open
<1>1. RangeInv
  BY <1>0 DEF QcowInv, SoundInv
<1>2. cmd' = Idle /\ cmd.rc = << >>
  BY <1>0, <1>1, IdleFields DEF RangeInv
<1>3. Format # "raw" => FileInv(image, disk, {})
  BY <1>0, <1>2, Resting
<1>4. cmd'.pc = "idle" /\ cmd'.op = "none"
  BY <1>2, IdleFields
<1>5. ~Packing'
  BY <1>4 DEF Packing, Allocating
<1>6. dev' = "open" => mem'.dec.at = 0
  <2> SUFFICES ASSUME dev' = "open" PROVE mem'.dec.at = 0
    OBVIOUS
  <2>1. mem' = [Closed EXCEPT !.l1 = disk.l1, !.rt = disk.rt]
    BY DEF Open
  <2>2. QED
    BY <2>1 DEF Closed
<1>7. Sectors' = Sectors /\ Format' = Format
  BY <1>0 DEF Sectors, Format
<1>8. ASSUME Format # "raw", NEW s \in Sectors, Of(disk, s).kind = "compressed" PROVE Of(disk, s).at # 0
  BY <1>3, <1>8, OfSector DEF Sectors, Full
<1>9. QED
  BY <1>0, <1>4, <1>5, <1>6, <1>7, <1>8 DEF DecInv, Packing

\* A command begins with nothing written.
LEMMA StartDec == ASSUME QcowInv, Sound => DecInv, NEW r \in Requests, NEW v, Start(r, v) PROVE DecInv'
<1>0. /\ dev = "open" /\ Sound /\ cmd = Idle /\ image' = image /\ disk' = disk /\ dev' = dev /\ mem' = mem /\ DecInv
      /\ truth' = [s \in DOMAIN truth |->
                     truth[s] \cup (IF r.op = "write" /\ s \in r.from .. r.end - 1 THEN {v} ELSE {})]
  BY DEF Start
<1>1. DOMAIN truth = Sectors
  BY <1>0, IdleFields, Resting DEF RestShape
<1>2. cmd'.pc \in {"data", "l1"} /\ cmd'.at = r.from /\ cmd'.from = r.from /\ r.from \in Nat
  BY IdleFields, ImagesAssumption DEF Start, CmdFields
<1>3. ~Packing' /\ cmd'.from .. cmd'.at - 1 = {}
  BY <1>2 DEF Packing, Allocating
<1>4. \A s \in Sectors : truth[s] \subseteq truth'[s]
  BY <1>0, <1>1
<1>5. Sectors' = Sectors /\ Format' = Format /\ \A s : Inflated(s)' = Inflated(s)
  BY <1>0 DEF Sectors, Format, Inflated
<1>6. QED
  BY <1>0, <1>3, <1>4, <1>5 DEF DecInv, Packing

\* A command is answered.  What it has written is not compressed.
LEMMA AnswerDec == ASSUME QcowInv, Sound => DecInv, Answer PROVE DecInv'
<1>0. /\ cmd.pc = "done" /\ Sound /\ cmd' = Idle /\ image' = image /\ disk' = disk /\ dev' = dev /\ mem' = mem /\ DecInv
      /\ truth' = [s \in DOMAIN truth |->
                     IF cmd.op = "write" /\ cmd.ok /\ s \in (cmd.from .. cmd.end - 1) \ cmd.lost THEN {cmd.val} ELSE truth[s]]
  BY DEF Answer, At
<1>1. RangeInv /\ DOMAIN truth = Sectors
  BY <1>0, ShapeParts DEF QcowInv, SoundInv, RestShape
<1>2. cmd'.pc = "idle" /\ cmd'.op = "none"
  BY <1>0, IdleFields
<1>3. ~Packing'
  BY <1>2 DEF Packing, Allocating
<1>4. Sectors' = Sectors /\ Format' = Format /\ \A s : Inflated(s)' = Inflated(s)
  BY <1>0 DEF Sectors, Format, Inflated
<1>5. ASSUME dev = "open", Format # "raw", NEW s \in Sectors, Of(disk, s).kind = "compressed", Of(disk, s).at = mem.dec.at
      PROVE  Inflated(s) \in truth'[s]
  <2>1. Inflated(s) \in truth[s] /\ (cmd.op = "write" => s \notin cmd.from .. cmd.at - 1)
    BY <1>0, <1>5 DEF DecInv
  <2>2. cmd.ok => cmd.at = cmd.end
    BY <1>0, <1>1 DEF RangeInv
  <2>3. truth'[s] = truth[s]
    BY <1>0, <1>1, <2>1, <2>2
  <2>4. QED
    BY <2>1, <2>3
<1>6. QED
  BY <1>0, <1>2, <1>3, <1>4, <1>5 DEF DecInv, Packing

\* All that is kept.
WholeInv == QcowInv /\ (Sound => DecInv)

\* Every step keeps it.
LEMMA StepKeeps == ASSUME WholeInv, [Next]_vars PROVE WholeInv'
<1>0. QcowInv /\ (Sound => DecInv)
  BY DEF WholeInv
<1>1. CASE UNCHANGED vars
  <2>1. /\ image' = image /\ disk' = disk /\ dev' = dev /\ mem' = mem /\ cmd' = cmd /\ cmds' = cmds /\ restarts' = restarts
        /\ met' = met /\ truth' = truth
    BY <1>1 DEF vars
  <2>2. Sectors' = Sectors /\ Sound' = Sound /\ Format' = Format /\ Late' = Late /\ VCluster' = VCluster
    BY <2>1 DEF Sectors, Sound, Format, Late, VCluster
  <2>3. Index' = Index /\ Within' = Within /\ (InCounting' <=> InCounting) /\ \A w : Allocating(w)' <=> Allocating(w)
    BY <2>1, <2>2 DEF Index, Within, InCounting, Allocating
  <2>4. Here' = Here /\ \A c : Spare(c)' <=> Spare(c)
    BY <2>1, <2>2, <2>3 DEF Here, Spare
  <2>5. Shape => Shape'
    BY <2>1, <2>2 DEF Shape, TypeOK
  <2>6. (CacheInv => CacheInv') /\ (RangeInv => RangeInv')
    BY <2>1, <2>2 DEF CacheInv, RangeInv
  <2>7. PathInv => PathInv'
    BY <2>1, <2>2, <2>3, <2>4 DEF PathInv
  <2>8. AllocInv => AllocInv'
    BY <2>1, <2>2, <2>3, <2>4 DEF AllocInv
  <2>9. TruthInv => TruthInv'
    BY <2>1, <2>2 DEF TruthInv
  <2>10. QcowInv'
    BY <1>0, <2>1, <2>2, <2>5, <2>6, <2>7, <2>8, <2>9 DEF QcowInv, SoundInv
  <2>11. \A s : Inflated(s)' = Inflated(s)
    BY <2>1 DEF Inflated
  <2>12. DecInv => DecInv'
    BY <2>1, <2>2, <2>3, <2>4, <2>11 DEF DecInv
  <2>13. QED
    BY <1>0, <2>2, <2>10, <2>12 DEF WholeInv
<1>2. CASE Next
  <2>1. ASSUME Open \/ Close \/ Crash PROVE WholeInv'
    <3>1. QcowInv'
      BY <1>0, <2>1, OpenStep, CloseStep, CrashStep
    <3>2. Close \/ Crash => DecInv'
      BY DEF Close, Crash, DecInv
    <3>3. QED
      BY <1>0, <2>1, <3>1, <3>2, OpenDec DEF WholeInv
  <2>2. ASSUME StartRead \/ StartWrite PROVE WholeInv'
    BY <1>0, <2>2, StartStep, StartDec DEF StartRead, StartWrite, WholeInv
  <2>3. ASSUME Answer \/ LookL1 \/ Inflate \/ Data \/ Scan \/ Allocate PROVE WholeInv'
    BY <1>0, <2>3, AnswerStep, AnswerDec, LookL1Step, LookL1Dec, InflateStep, InflateDec, DataStep, DataDec, ScanStep, ScanDec,
       AllocateStep, AllocateDec DEF WholeInv
  <2>4. ASSUME LookL2 \/ L1Update \/ L2Update \/ Count \/ RcUpdate PROVE WholeInv'
    BY <1>0, <2>4, LookL2Step, LookL2Dec, L1UpdateStep, L1UpdateDec, L2UpdateStep, L2UpdateDec, CountStep, CountDec,
       RcUpdateStep, RcUpdateDec DEF WholeInv
  <2>5. QED
    BY <1>2, <2>1, <2>2, <2>3, <2>4 DEF Next
<1>3. QED
  BY <1>1, <1>2

-----------------------------------------------------------------------------
(* How often a cluster is used.                                            *)

\* A set whose members are all the same.
LEMMA OneMember ==
    ASSUME NEW S, \A a, b \in S : a = b
    PROVE  IsFiniteSet(S) /\ Cardinality(S) = IF S = {} THEN 0 ELSE 1
<1>1. CASE S = {}
  BY <1>1, FS_EmptySet
<1>2. CASE S # {}
  <2>1. PICK a \in S : TRUE
    BY <1>2
  <2>2. S = {a}
    BY <2>1
  <2>3. QED
    BY <1>2, <2>2, FS_Singleton
<1>3. QED
  BY <1>1, <1>2

\* A set with at most one member.
LEMMA AtMostOne ==
    ASSUME NEW S, IsFiniteSet(S)
    PROVE  /\ Cardinality(S) \in Nat
           /\ Cardinality(S) <= 1 => \A a, b \in S : a = b
           /\ Cardinality(S) = 0 => \A a : a \notin S
           /\ \A a \in S : Cardinality(S) >= 1
<1>1. Cardinality(S) \in Nat /\ (Cardinality(S) = 0 <=> S = {}) /\ (Cardinality(S) = 1 <=> \E x : S = {x})
  BY FS_CardinalityType, FS_EmptySet, FS_Singleton
<1>2. Cardinality(S) <= 1 => Cardinality(S) = 0 \/ Cardinality(S) = 1
  BY <1>1
<1>3. QED
  BY <1>1, <1>2

\* The places that lead to a cluster.
AsTable(d, c) == {i \in DOMAIN d.l1 : d.l1[i] = c}
AsBlock(d, c) == {i \in DOMAIN d.rt : d.rt[i] = c}
AsData(d, c) == {e \in Entries(d) : EntryAt(d, e).at = c}

\* Uses adds them up.
LEMMA UsesParts ==
    ASSUME NEW h, NEW d, NEW c
    PROVE  Uses(h, d, c) = Cardinality(AsTable(d, c)) + Cardinality(AsBlock(d, c)) + Cardinality(AsData(d, c))
                             + (IF c \in h.fixed THEN 1 ELSE 0)
  BY DEF Uses, AsTable, AsBlock, AsData

\* Entries are slots of tables that lead to something.
LEMMA EntriesAre ==
    ASSUME NEW d, FileShape(d)
    PROVE  /\ \A t, i : <<t, i>> \in Entries(d) <=> t \in Clusters /\ i \in L2Slots /\ IsTable(d, t) /\ Full(Leads(d, t, i))
           /\ \A t, i : <<t, i>> \in Entries(d) => EntryAt(d, <<t, i>>) = Leads(d, t, i)
           /\ \A e \in Entries(d) : e = <<e[1], e[2]>>
<1>1. \A j \in DOMAIN d.l1 : d.l1[j] \in Clusters
  BY DEF FileShape
<1>2. ASSUME NEW t, NEW i
      PROVE  <<t, i>> \in Entries(d) <=> t \in Clusters /\ i \in L2Slots /\ IsTable(d, t) /\ Full(Leads(d, t, i))
  BY <1>1 DEF Entries, L2Slots, IsTable, Full, Leads
<1>3. ASSUME NEW t, NEW i, <<t, i>> \in Entries(d)
      PROVE  EntryAt(d, <<t, i>>) = Leads(d, t, i)
  <2>1. Full(Leads(d, t, i))
    BY <1>2, <1>3
  <2>2. i \in DOMAIN d.cl[t]
    BY <2>1 DEF Full, Leads, Slot, NoEntry
  <2>3. QED
    BY <2>2 DEF EntryAt, Leads, Slot
<1>4. \A e \in Entries(d) : e = <<e[1], e[2]>>
  BY DEF Entries
<1>5. QED
  BY <1>2, <1>3, <1>4

\* A cluster of a sound file is used once or not at all.
LEMMA UsesOf ==
    ASSUME NEW h, NEW d, NEW late, FileInv(h, d, late), NEW c \in 1 .. FileClusters - 1
    PROVE  Uses(h, d, c) = IF Used(h, d, c) THEN 1 ELSE 0
<1>0. FileShape(d) /\ Exclusive(h, d) /\ c # 0 /\ c \in Clusters
  BY QcowAssumption DEF FileInv, Clusters
<1>1. Cardinality(AsTable(d, c)) = IF IsTable(d, c) THEN 1 ELSE 0
  <2>1. \A a, b \in AsTable(d, c) : a = b
    BY <1>0 DEF Exclusive, AsTable
  <2>2. AsTable(d, c) = {} <=> ~IsTable(d, c)
    BY <1>0 DEF AsTable, IsTable
  <2>3. QED
    BY <2>1, <2>2, OneMember
<1>2. Cardinality(AsBlock(d, c)) = IF IsBlock(d, c) THEN 1 ELSE 0
  <2>1. \A a, b \in AsBlock(d, c) : a = b
    BY <1>0 DEF Exclusive, AsBlock
  <2>2. AsBlock(d, c) = {} <=> ~IsBlock(d, c)
    BY <1>0 DEF AsBlock, IsBlock
  <2>3. QED
    BY <2>1, <2>2, OneMember
<1>3. Cardinality(AsData(d, c)) = IF IsData(d, c) THEN 1 ELSE 0
  <2>1. ASSUME NEW e \in AsData(d, c)
        PROVE  /\ e = <<e[1], e[2]>> /\ e[1] \in Clusters /\ e[2] \in L2Slots /\ IsTable(d, e[1])
               /\ Full(Leads(d, e[1], e[2])) /\ Leads(d, e[1], e[2]).at = c
    <3>1. e \in Entries(d) /\ EntryAt(d, e).at = c
      BY DEF AsData
    <3>2. e = <<e[1], e[2]>> /\ <<e[1], e[2]>> \in Entries(d)
      BY <1>0, <3>1, EntriesAre
    <3>3. EntryAt(d, <<e[1], e[2]>>) = Leads(d, e[1], e[2])
      BY <1>0, <3>2, EntriesAre
    <3>4. QED
      BY <1>0, <3>1, <3>2, <3>3, EntriesAre
  <2>2. ASSUME NEW a \in AsData(d, c), NEW b \in AsData(d, c) PROVE a = b
    <3>1. a[1] = b[1] /\ a[2] = b[2]
      BY <1>0, <2>1 DEF Exclusive
    <3>2. QED
      BY <2>1, <3>1
  <2>3. AsData(d, c) # {} => IsData(d, c)
    BY <2>1 DEF IsData
  <2>4. ASSUME IsData(d, c) PROVE AsData(d, c) # {}
    <3>1. PICK t \in Clusters, i \in L2Slots : IsTable(d, t) /\ Full(Leads(d, t, i)) /\ Leads(d, t, i).at = c
      BY <2>4 DEF IsData
    <3>2. <<t, i>> \in Entries(d) /\ EntryAt(d, <<t, i>>) = Leads(d, t, i)
      BY <1>0, <3>1, EntriesAre
    <3>3. <<t, i>> \in AsData(d, c)
      BY <3>1, <3>2 DEF AsData
    <3>4. QED
      BY <3>3
  <2>5. QED
    BY <2>2, <2>3, <2>4, OneMember
<1>4. /\ ~(IsTable(d, c) /\ IsBlock(d, c)) /\ ~(IsTable(d, c) /\ IsData(d, c)) /\ ~(IsBlock(d, c) /\ IsData(d, c))
      /\ c \in h.fixed => ~IsTable(d, c) /\ ~IsBlock(d, c) /\ ~IsData(d, c)
  BY <1>0 DEF Exclusive
<1>5. QED
  BY <1>1, <1>2, <1>3, <1>4, UsesParts DEF Used

\* A sound file is consistent; its counts are right if none is late.
LEMMA FileConsistent ==
    ASSUME NEW h, NEW d, NEW late, FileInv(h, d, late), NEW counted, counted => late = {}
    PROVE  Consistent(h, d, counted)
<1>0. FileShape(d) /\ Exclusive(h, d) /\ Counts(h, d, late) /\ \A c \in 1 .. FileClusters - 1 : c \in Clusters
  BY QcowAssumption DEF FileInv, Clusters
<1>1. ASSUME NEW c \in 1 .. FileClusters - 1 PROVE Uses(h, d, c) <= 1 /\ (Uses(h, d, c) = 1 => Used(h, d, c) /\ c < d.end)
  BY <1>0, UsesOf DEF Exclusive
<1>2. ASSUME Probe(h) = "qcow2", counted, NEW c \in 1 .. FileClusters - 1, Uses(h, d, c) = 1
      PROVE  Refcount(d, c) >= 1
  BY <1>0, <1>1, <1>2 DEF Counts
<1>3. ASSUME Probe(h) = "qcow2", counted, NEW e \in Entries(d), EntryAt(d, e).copied
      PROVE  Refcount(d, EntryAt(d, e).at) = 1
  <2>1. e = <<e[1], e[2]>> /\ <<e[1], e[2]>> \in Entries(d)
    BY <1>0, EntriesAre
  <2>2. EntryAt(d, e) = Leads(d, e[1], e[2])
    BY <1>0, <2>1, EntriesAre
  <2>3. e[1] \in Clusters /\ e[2] \in L2Slots /\ IsTable(d, e[1]) /\ Full(Leads(d, e[1], e[2]))
    BY <1>0, <2>1, EntriesAre
  <2>4. QED
    BY <1>0, <1>3, <2>2, <2>3 DEF Counts
<1>4. QED
  BY <1>1, <1>2, <1>3 DEF Consistent

-----------------------------------------------------------------------------
(* The files that are opened.                                              *)

\* What is asked of a well-formed file, in the terms of the invariant.
LEMMA WellFormedShape ==
    ASSUME NEW h, NEW d, WellFormed(h, d)
    PROVE  /\ FileShape(d) /\ 0 \in h.fixed
           /\ Probe(h) = "qcow2" => (\A c \in Clusters : c \div RcSlots \in DOMAIN d.rt) /\ Refcount(d, 0) >= 1
           /\ ContentsOk(d)
<1>1. FileShape(d)
  BY DEF WellFormed, FileShape, DiskFields
<1>2. 0 \in h.fixed /\ (Probe(h) = "qcow2" => (\A c \in Clusters : c \div RcSlots \in DOMAIN d.rt) /\ Refcount(d, 0) >= 1)
  BY DEF WellFormed
<1>3. ASSUME NEW t \in Clusters, NEW i \in L2Slots, IsTable(d, t)
      PROVE  Leads(d, t, i) \in EntryType /\ (Full(Leads(d, t, i)) => Leads(d, t, i).at # 0)
  <2>1. PICK j \in DOMAIN d.l1 : d.l1[j] = t
    BY <1>3 DEF IsTable
  <2>2. t # 0
    BY <1>3 DEF IsTable
  <2>3. /\ Slot(d.cl[d.l1[j]], i, NoEntry) \in EntryType
        /\ <<d.l1[j], i>> \in Entries(d) => EntryAt(d, <<d.l1[j], i>>).at # 0
    BY <2>1, <2>2 DEF WellFormed, L2Slots
  <2>4. Leads(d, t, i) \in EntryType /\ (<<t, i>> \in Entries(d) => EntryAt(d, <<t, i>>).at # 0)
    BY <2>1, <2>3 DEF Leads
  <2>5. Full(Leads(d, t, i)) => <<t, i>> \in Entries(d) /\ EntryAt(d, <<t, i>>) = Leads(d, t, i)
    BY <1>1, <1>3, EntriesAre
  <2>6. QED
    BY <2>4, <2>5
<1>4. ASSUME NEW b \in Clusters, NEW c \in Clusters, IsBlock(d, b) PROVE GetRefcount(d.cl[b], c) \in Nat
  <2>1. PICK j \in DOMAIN d.rt : d.rt[j] = b
    BY <1>4 DEF IsBlock
  <2>2. b # 0
    BY <1>4 DEF IsBlock
  <2>3. GetRefcount(d.cl[d.rt[j]], c) \in Nat
    BY <2>1, <2>2 DEF WellFormed
  <2>4. QED
    BY <2>1, <2>3
<1>5. ContentsOk(d)
  BY <1>3, <1>4 DEF ContentsOk
<1>6. QED
  BY <1>1, <1>2, <1>5

\* The places that lead to a cluster are finitely many.
LEMMA PlacesFinite ==
    ASSUME NEW d, FileShape(d), NEW c
    PROVE  IsFiniteSet(AsTable(d, c)) /\ IsFiniteSet(AsBlock(d, c)) /\ IsFiniteSet(AsData(d, c))
<1>1. IsFiniteSet(DOMAIN d.l1) /\ IsFiniteSet(DOMAIN d.rt)
  BY DEF FileShape
<1>2. AsTable(d, c) \in SUBSET DOMAIN d.l1 /\ AsBlock(d, c) \in SUBSET DOMAIN d.rt
  BY DEF AsTable, AsBlock
<1>3. IsFiniteSet(Clusters) /\ IsFiniteSet(L2Slots)
  <2>1. 0 \in Int /\ FileClusters - 1 \in Int /\ L2Size - 1 \in Int
    BY QcowAssumption
  <2>2. QED
    BY <2>1, FS_Interval DEF Clusters, L2Slots
<1>4. IsFiniteSet(Clusters \X L2Slots)
  BY <1>3, FS_Product
<1>5. AsData(d, c) \in SUBSET (Clusters \X L2Slots)
  <2>1. ASSUME NEW e \in AsData(d, c) PROVE e \in Clusters \X L2Slots
    <3>1. e \in Entries(d)
      BY DEF AsData
    <3>2. e = <<e[1], e[2]>> /\ <<e[1], e[2]>> \in Entries(d)
      BY <3>1, EntriesAre
    <3>3. e[1] \in Clusters /\ e[2] \in L2Slots
      BY <3>2, EntriesAre
    <3>4. QED
      BY <3>2, <3>3
  <2>2. QED
    BY <2>1
<1>6. QED
  BY <1>1, <1>2, <1>4, <1>5, FS_Subset

\* A cluster that is used at most once has one place that leads to it, or none.
LEMMA OnePlace ==
    ASSUME NEW h, NEW d, FileShape(d), NEW c, Uses(h, d, c) <= 1
    PROVE  /\ \A a, b \in AsTable(d, c) : a = b
           /\ \A a, b \in AsBlock(d, c) : a = b
           /\ \A a, b \in AsData(d, c) : a = b
           /\ \A a \in AsTable(d, c) : AsBlock(d, c) = {} /\ AsData(d, c) = {} /\ c \notin h.fixed
           /\ \A a \in AsBlock(d, c) : AsData(d, c) = {} /\ c \notin h.fixed
           /\ \A a \in AsData(d, c) : c \notin h.fixed
           /\ AsTable(d, c) # {} \/ AsBlock(d, c) # {} \/ AsData(d, c) # {} \/ c \in h.fixed => Uses(h, d, c) = 1
<1> DEFINE x == Cardinality(AsTable(d, c))
           y == Cardinality(AsBlock(d, c))
           z == Cardinality(AsData(d, c))
           f == IF c \in h.fixed THEN 1 ELSE 0
<1>1. /\ x \in Nat /\ (x <= 1 => \A a, b \in AsTable(d, c) : a = b) /\ (x = 0 => AsTable(d, c) = {})
      /\ \A a \in AsTable(d, c) : x >= 1
  BY PlacesFinite, AtMostOne
<1>2. /\ y \in Nat /\ (y <= 1 => \A a, b \in AsBlock(d, c) : a = b) /\ (y = 0 => AsBlock(d, c) = {})
      /\ \A a \in AsBlock(d, c) : y >= 1
  BY PlacesFinite, AtMostOne
<1>3. /\ z \in Nat /\ (z <= 1 => \A a, b \in AsData(d, c) : a = b) /\ (z = 0 => AsData(d, c) = {})
      /\ \A a \in AsData(d, c) : z >= 1
  BY PlacesFinite, AtMostOne
<1>4. Uses(h, d, c) = x + y + z + f /\ f \in {0, 1} /\ (c \in h.fixed <=> f = 1)
  BY UsesParts
<1> HIDE DEF x, y, z, f
<1>5. x + y + z + f <= 1
  BY <1>4
<1>6. x <= 1 /\ y <= 1 /\ z <= 1
  BY <1>1, <1>2, <1>3, <1>4, <1>5
<1>7. (x >= 1 => y = 0 /\ z = 0 /\ f = 0) /\ (y >= 1 => z = 0 /\ f = 0) /\ (z >= 1 => f = 0)
  BY <1>1, <1>2, <1>3, <1>4, <1>5
<1>8. x >= 1 \/ y >= 1 \/ z >= 1 \/ f = 1 => x + y + z + f = 1
  BY <1>1, <1>2, <1>3, <1>4, <1>5
<1>9. AsTable(d, c) # {} \/ AsBlock(d, c) # {} \/ AsData(d, c) # {} \/ c \in h.fixed => Uses(h, d, c) = 1
  BY <1>1, <1>2, <1>3, <1>4, <1>8
<1>10. \A a \in AsTable(d, c) : AsBlock(d, c) = {} /\ AsData(d, c) = {} /\ c \notin h.fixed
  BY <1>1, <1>2, <1>3, <1>4, <1>7
<1>11. (\A a \in AsBlock(d, c) : AsData(d, c) = {} /\ c \notin h.fixed) /\ (\A a \in AsData(d, c) : c \notin h.fixed)
  BY <1>1, <1>2, <1>3, <1>4, <1>7
<1>12. QED
  BY <1>1, <1>2, <1>3, <1>6, <1>9, <1>10, <1>11

\* What leads to a cluster, as a place.
LEMMA PlacesAre ==
    ASSUME NEW d, FileShape(d), NEW c, c # 0
    PROVE  /\ IsTable(d, c) <=> AsTable(d, c) # {}
           /\ IsBlock(d, c) <=> AsBlock(d, c) # {}
           /\ IsData(d, c) <=> AsData(d, c) # {}
           /\ \A t, i : <<t, i>> \in AsData(d, c) <=>
                t \in Clusters /\ i \in L2Slots /\ IsTable(d, t) /\ Full(Leads(d, t, i)) /\ Leads(d, t, i).at = c
<1>1. (IsTable(d, c) <=> AsTable(d, c) # {}) /\ (IsBlock(d, c) <=> AsBlock(d, c) # {})
  BY DEF IsTable, IsBlock, AsTable, AsBlock
<1>2. ASSUME NEW t, NEW i
      PROVE  <<t, i>> \in AsData(d, c) <=>
               t \in Clusters /\ i \in L2Slots /\ IsTable(d, t) /\ Full(Leads(d, t, i)) /\ Leads(d, t, i).at = c
  <2>1. <<t, i>> \in Entries(d) <=> t \in Clusters /\ i \in L2Slots /\ IsTable(d, t) /\ Full(Leads(d, t, i))
    BY EntriesAre
  <2>2. <<t, i>> \in Entries(d) => EntryAt(d, <<t, i>>) = Leads(d, t, i)
    BY EntriesAre
  <2>3. QED
    BY <2>1, <2>2 DEF AsData
<1>3. IsData(d, c) <=> AsData(d, c) # {}
  <2>1. ASSUME NEW e \in AsData(d, c) PROVE IsData(d, c)
    <3>1. e = <<e[1], e[2]>>
      BY EntriesAre DEF AsData
    <3>2. <<e[1], e[2]>> \in AsData(d, c)
      BY <3>1
    <3>3. QED
      BY <1>2, <3>2 DEF IsData
  <2>2. IsData(d, c) => AsData(d, c) # {}
    BY <1>2 DEF IsData
  <2>3. QED
    BY <2>1, <2>2
<1>4. QED
  BY <1>1, <1>2, <1>3

\* A file that is well-formed and consistent is sound.
LEMMA SoundFile ==
    ASSUME NEW h, NEW d, WellFormed(h, d), Consistent(h, d, TRUE)
    PROVE  FileInv(h, d, {})
<1>1. /\ FileShape(d) /\ 0 \in h.fixed /\ ContentsOk(d)
      /\ Probe(h) = "qcow2" => Refcount(d, 0) >= 1
  BY WellFormedShape
<1>2. /\ \A c \in 1 .. FileClusters - 1 : Uses(h, d, c) <= 1 /\ (Uses(h, d, c) = 1 => c < d.end)
      /\ Probe(h) = "qcow2" => /\ \A c \in 1 .. FileClusters - 1 : Uses(h, d, c) = 1 => Refcount(d, c) >= 1
                               /\ \A e \in Entries(d) : EntryAt(d, e).copied => Refcount(d, EntryAt(d, e).at) = 1
  BY DEF Consistent
<1>3. \A c \in Clusters : c # 0 => c \in 1 .. FileClusters - 1
  BY QcowAssumption DEF Clusters
<1>4. /\ \A j \in DOMAIN d.l1 : d.l1[j] \in Clusters
      /\ \A j \in DOMAIN d.rt : d.rt[j] \in Clusters
      /\ d.end \in 1 .. FileClusters
  BY <1>1 DEF FileShape
<1>5. ASSUME NEW i \in DOMAIN d.l1, NEW j \in DOMAIN d.l1, d.l1[i] = d.l1[j], d.l1[i] # 0 PROVE i = j
  <2>1. Uses(h, d, d.l1[i]) <= 1
    BY <1>2, <1>3, <1>4, <1>5
  <2>2. i \in AsTable(d, d.l1[i]) /\ j \in AsTable(d, d.l1[i])
    BY <1>5 DEF AsTable
  <2>3. QED
    BY <1>1, <2>1, <2>2, OnePlace
<1>6. ASSUME NEW i \in DOMAIN d.rt, NEW j \in DOMAIN d.rt, d.rt[i] = d.rt[j], d.rt[i] # 0 PROVE i = j
  <2>1. Uses(h, d, d.rt[i]) <= 1
    BY <1>2, <1>3, <1>4, <1>6
  <2>2. i \in AsBlock(d, d.rt[i]) /\ j \in AsBlock(d, d.rt[i])
    BY <1>6 DEF AsBlock
  <2>3. QED
    BY <1>1, <2>1, <2>2, OnePlace
<1>7. ASSUME NEW t \in Clusters, NEW u \in Clusters, NEW i \in L2Slots, NEW j \in L2Slots, IsTable(d, t), IsTable(d, u),
             Full(Leads(d, t, i)), Full(Leads(d, u, j)), Leads(d, t, i).at = Leads(d, u, j).at
      PROVE  t = u /\ i = j
  <2> DEFINE c == Leads(d, t, i).at
  <2>1. c \in Clusters /\ c # 0
    BY <1>1, <1>7 DEF ContentsOk, EntryType
  <2>2. Uses(h, d, c) <= 1
    BY <1>2, <1>3, <2>1
  <2>3. <<t, i>> \in AsData(d, c)
    BY <1>1, <1>7, <2>1, PlacesAre
  <2>4. <<u, j>> \in AsData(d, c)
    <3>1. Leads(d, u, j).at = c
      BY <1>7
    <3> HIDE DEF c
    <3>2. QED
      BY <1>1, <1>7, <2>1, <3>1, PlacesAre
  <2> HIDE DEF c
  <2>5. <<t, i>> = <<u, j>>
    BY <1>1, <2>2, <2>3, <2>4, OnePlace
  <2>6. QED
    BY <2>5
<1>8. ASSUME NEW c \in Clusters
      PROVE  /\ ~(IsTable(d, c) /\ IsBlock(d, c)) /\ ~(IsTable(d, c) /\ IsData(d, c)) /\ ~(IsBlock(d, c) /\ IsData(d, c))
             /\ c \in h.fixed => ~IsTable(d, c) /\ ~IsBlock(d, c) /\ ~IsData(d, c)
             /\ Used(h, d, c) => c < d.end
             /\ Probe(h) = "qcow2" /\ Used(h, d, c) => Refcount(d, c) >= 1
  <2>1. CASE c = 0
    <3>1. ~IsTable(d, c) /\ ~IsBlock(d, c)
      BY <2>1 DEF IsTable, IsBlock
    <3>2. ~IsData(d, c)
      BY <1>1, <2>1 DEF IsData, ContentsOk
    <3>3. c < d.end
      BY <1>4, <2>1, QcowAssumption
    <3>4. QED
      BY <1>1, <2>1, <3>1, <3>2, <3>3
  <2>2. CASE c # 0
    <3>1. /\ Uses(h, d, c) <= 1 /\ (Uses(h, d, c) = 1 => c < d.end)
          /\ Probe(h) = "qcow2" /\ Uses(h, d, c) = 1 => Refcount(d, c) >= 1
      BY <1>2, <1>3, <2>2
    <3>2. /\ IsTable(d, c) <=> AsTable(d, c) # {}
          /\ IsBlock(d, c) <=> AsBlock(d, c) # {}
          /\ IsData(d, c) <=> AsData(d, c) # {}
      BY <1>1, <2>2, PlacesAre
    <3>3. /\ AsTable(d, c) # {} => AsBlock(d, c) = {} /\ AsData(d, c) = {} /\ c \notin h.fixed
          /\ AsBlock(d, c) # {} => AsData(d, c) = {} /\ c \notin h.fixed
          /\ AsData(d, c) # {} => c \notin h.fixed
      BY <1>1, <3>1, OnePlace
    <3>4. AsTable(d, c) # {} \/ AsBlock(d, c) # {} \/ AsData(d, c) # {} \/ c \in h.fixed => Uses(h, d, c) = 1
      BY <1>1, <3>1, OnePlace
    <3>5. Used(h, d, c) => Uses(h, d, c) = 1
      BY <3>2, <3>4 DEF Used
    <3>6. QED
      BY <3>1, <3>2, <3>3, <3>5
  <2>3. QED
    BY <2>1, <2>2
<1>9. Exclusive(h, d)
  BY <1>5, <1>6, <1>7, <1>8 DEF Exclusive
<1>10. ASSUME Probe(h) = "qcow2", NEW t \in Clusters, NEW i \in L2Slots, IsTable(d, t), Full(Leads(d, t, i)), Leads(d, t, i).copied
       PROVE  Refcount(d, Leads(d, t, i).at) = 1
  <2>1. <<t, i>> \in Entries(d) /\ EntryAt(d, <<t, i>>) = Leads(d, t, i)
    BY <1>1, <1>10, EntriesAre
  <2>2. QED
    BY <1>2, <1>10, <2>1
<1>11. Counts(h, d, {})
  BY <1>8, <1>10 DEF Counts
<1>12. QED
  BY <1>1, <1>9, <1>11 DEF FileInv

-----------------------------------------------------------------------------
(* The theorems.                                                           *)

\* The initial states satisfy the invariant.
LEMMA InitKeeps == Init => WholeInv
<1> SUFFICES ASSUME Init PROVE WholeInv
  OBVIOUS
<1>1. PICK i \in Images :
        /\ image = i.header /\ disk = i.disk /\ dev = "closed" /\ mem = Closed /\ cmd = Idle /\ cmds = 0 /\ restarts = 0
        /\ met = {} /\ truth = [s \in Sectors |-> {IF Format = "raw" THEN "zero" ELSE Initial(disk, s)}]
  BY DEF Init
<1>2. WellFormed(image, disk) /\ (Format # "raw" => Consistent(image, disk, TRUE))
  BY <1>1, ImagesAssumption DEF Format
<1>3. FileShape(disk) /\ (Format # "raw" => FileInv(image, disk, {}))
  BY <1>2, WellFormedShape, SoundFile
<1>4. /\ cmd.pc = "idle" /\ cmd.op = "none" /\ cmd.rc = << >> /\ Late = {}
  BY <1>1, IdleFields, LateAtRest
<1>5. Geometry(image, disk)
  <2>1. \A r \in Requests : r.end - 1 \in SectorsOf(disk)
    BY <1>1, ImagesAssumption
  <2>2. QED
    BY <1>2, <2>1 DEF WellFormed, Geometry
<1>6. CmdShape
  <2>1. DOMAIN << >> = {}
    OBVIOUS
  <2>2. /\ DOMAIN cmd = CmdFields /\ cmd.at = 0 /\ cmd.end = 0 /\ cmd.from = 0 /\ cmd.buf = << >> /\ cmd.l2 = 0
        /\ cmd.new = 0 /\ cmd.rb = 0 /\ cmd.scan = 0 /\ cmd.ok = TRUE
    BY <1>1, IdleFields
  <2>3. DOMAIN cmd.buf \subseteq Sectors
    BY <2>1, <2>2
  <2>4. cmd.at \in cmd.from .. cmd.end /\ {cmd.l2, cmd.new, cmd.rb} \subseteq 0 .. FileClusters - 1 /\ cmd.scan \in 0 .. FileClusters
    BY <2>2, QcowAssumption
  <2>5. QED
    BY <2>2, <2>3, <2>4 DEF CmdShape
<1>7. RestShape
  BY <1>1, <1>3, <1>5, ClosedFields, QcowAssumption DEF RestShape
<1>8. CacheInv /\ RangeInv
  BY <1>1, <1>4 DEF CacheInv, RangeInv, PCs
<1>9. ~InCounting /\ \A w : ~Allocating(w)
  BY <1>4 DEF InCounting, Allocating
<1>10. PathInv
  BY <1>4, <1>9 DEF PathInv
<1>11. AllocInv
  BY <1>4, <1>9 DEF AllocInv
<1>12. ASSUME NEW s \in Sectors PROVE Reads(image, disk, s) \in truth[s]
  <2>1. CASE Format = "raw"
    <3>1. Reads(image, disk, s) = "zero"
      BY <1>2, <2>1 DEF WellFormed, Reads, Stored, Format, Sectors
    <3>2. QED
      BY <1>1, <2>1, <3>1
  <2>2. CASE Format # "raw"
    <3>1. Reads(image, disk, s) = Initial(disk, s)
      BY <2>2 DEF Reads, Initial, EntryOf, Of, Table, Leads, Stored, Format, Unallocated
    <3>2. QED
      BY <1>1, <2>2, <3>1
  <2>3. QED
    BY <2>1, <2>2
<1>13. TruthInv
  BY <1>4, <1>12 DEF TruthInv
<1>14. QcowInv
  BY <1>3, <1>4, <1>6, <1>7, <1>8, <1>10, <1>11, <1>13, ShapeParts DEF QcowInv, SoundInv
<1>15. DecInv
  BY <1>1 DEF DecInv
<1>16. QED
  BY <1>14, <1>15 DEF WholeInv

\* The invariant holds in every reachable state.
LEMMA Invariance == Spec => []QcowInv
<1>1. Init => WholeInv
  BY InitKeeps
<1>2. WholeInv /\ [Next]_vars => WholeInv'
  BY StepKeeps
<1>3. WholeInv => QcowInv
  BY DEF WholeInv
<1>4. QED
  BY <1>1, <1>2, <1>3, PTL DEF Spec

\* Whatever the order of allocations, failed or short data writes and restarts,
\* no cluster of the file gets used for two things, and between the updates of
\* refcounts every cluster in use is counted and copied bits are right
\* (qcow_block_alloc, qcow2_block_alloc, l1_table_update, l2_table_update,
\* qcow2_set_refcount), up to the first metadata error that the code ignores or
\* the end of the daemon between a pointer and its count (Sound).
THEOREM ImageTheorem == Spec => []ImageConsistent
<1>1. QcowInv => ImageConsistent
  <2> SUFFICES ASSUME QcowInv PROVE ImageConsistent
    OBVIOUS
  <2>1. TypeOK
    BY DEF QcowInv, Shape
  <2>2. ASSUME Format # "raw", Sound PROVE Consistent(image, disk, cmd.rc = << >>)
    <3>1. FileInv(image, disk, Late)
      BY <2>2 DEF QcowInv, SoundInv
    <3>2. cmd.rc = << >> => Late = {}
      BY LateAtRest
    <3>3. QED
      BY <3>1, <3>2, FileConsistent
  <2>3. QED
    BY <2>1, <2>2 DEF ImageConsistent
<1>2. QED
  BY <1>1, Invariance, PTL

\* A read that succeeds returns what was written last, through all allocations,
\* copies and restarts (qcow_preadv, qcow_pwritev), up to the first ignored
\* metadata error, or one of the deviations written into truth: zeros or the
\* header in the rest of a cluster first written in part, old data where a write
\* was short, junk of a failed decompress_cluster.
THEOREM ReadsTheorem == Spec => []ReadsReturnWritten
<1>1. QcowInv => ReadsReturnWritten
  <2> SUFFICES ASSUME QcowInv, cmd.pc = "done", cmd.op = "read", cmd.ok, Sound,
                      NEW s \in cmd.from .. cmd.end - 1
               PROVE  cmd.buf[s] \in truth[s]
    BY DEF ReadsReturnWritten
  <2>1. RangeInv /\ TruthInv
    BY DEF QcowInv, SoundInv
  <2>2. cmd.at = cmd.end
    BY <2>1 DEF RangeInv
  <2>3. QED
    BY <2>1, <2>2 DEF TruthInv
<1>2. QED
  BY <1>1, Invariance, PTL

\* The tables in memory and the two caches are those of the file, and the caches
\* stay within their size (l2_cache_lookup, rc_cache_lookup), up to the first
\* metadata access that fails (Sound).
THEOREM CachesTheorem == Spec => []CachesMatchFile
<1>1. QcowInv => CachesMatchFile
  BY DEF QcowInv, SoundInv, CacheInv, CachesMatchFile
<1>2. QED
  BY <1>1, Invariance, PTL

=============================================================================
