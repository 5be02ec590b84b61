------------------------------ MODULE QcowImage -----------------------------
(***************************************************************************)
(* The qcow handler (qcow.c): a device stored in a qcow, qcow2 or raw file *)
(* that grows as it is written.  The L1 table leads to L2 tables, these to *)
(* data clusters, and a qcow2 file also counts the references to each of   *)
(* its clusters, in refcount blocks found through the refcount table.      *)
(*                                                                         *)
(* The file is kept by clusters.  An L2 table, a refcount block and a data *)
(* cluster are functions of the slots that are not zero.  The handler has  *)
(* one worker, so commands do not overlap; a command is taken apart into   *)
(* its accesses to the file, so that the daemon may end between any two.   *)
(* The file survives the daemon: a power failure, which would also lose    *)
(* data that was not yet synchronised, is not modelled.                    *)
(***************************************************************************)
EXTENDS Naturals, FiniteSets, Sequences

CONSTANTS
    ClusterSectors,     \* sectors of a cluster
    L2Size,             \* slots of an L2 table
    RcSlots,            \* slots of a refcount block
    CacheSize,          \* L2_CACHE_SIZE and RC_CACHE_SIZE
    FileClusters,       \* bound on the file: the file system is full
    Images,             \* the files to look at
    Requests,           \* [op, from, end] of the commands
    Values,             \* what writes write
    MaxCmds,            \* bound on the commands
    MaxRestarts,        \* bound on the times the daemon ends
    Faults              \* subset of FaultKinds

FaultKinds == {"nospace", "readfail", "writefail", "shortwrite", "inflatefail", "crash"}

ASSUME QcowAssumption ==
    /\ {ClusterSectors, L2Size, RcSlots, CacheSize, FileClusters} \subseteq Nat \ {0}
    /\ {MaxCmds, MaxRestarts} \subseteq Nat
    /\ Faults \subseteq FaultKinds

-----------------------------------------------------------------------------
\* Files.  h is what the header says, d the rest of the file: l1 (the L1
\* table), rt (the refcount table), cl (the clusters) and end.

Clusters == 0 .. FileClusters - 1
SectorsOf(d) == 0 .. Cardinality(DOMAIN d.l1) * L2Size * ClusterSectors - 1

NoEntry == [at |-> 0, kind |-> "none", copied |-> FALSE]
ZeroEntry == [NoEntry EXCEPT !.kind = "zero"]
EntryType == [at : Clusters, kind : {"none", "zero", "normal", "compressed"}, copied : BOOLEAN]
Slot(table, i, none) == IF i \in DOMAIN table THEN table[i] ELSE none
With(table, i, v) == [j \in DOMAIN table \cup {i} |-> IF j = i THEN v ELSE table[j]]
Over(top, table) == [j \in DOMAIN top \cup DOMAIN table |-> IF j \in DOMAIN top THEN top[j] ELSE table[j]]

QcowProbe(i) == i.magic /\ i.version = 1
Qcow2Probe(i) == i.magic /\ i.version >= 2
RawProbe(i) == i.fileSizeFits

\* The formats in the order of bdev_open.
Probe(i) ==
    CASE QcowProbe(i) -> "qcow" [] Qcow2Probe(i) -> "qcow2" [] RawProbe(i) -> "raw"
      [] OTHER -> "none"

GetRefcount(block, c) == Slot(block, c % RcSlots, 0)
SetRefcount(block, c) == With(block, c % RcSlots, 1)
Refcount(d, c) ==
    LET b == d.rt[c \div RcSlots] IN IF b = 0 THEN 0 ELSE GetRefcount(d.cl[b], c)

\* The entries of the L2 tables that lead to a cluster, and how often a cluster
\* is used.
Entries(d) ==
    {e \in {d.l1[j] : j \in DOMAIN d.l1} \X (0 .. L2Size - 1) :
       e[1] # 0 /\ Slot(d.cl[e[1]], e[2], NoEntry).kind \in {"normal", "compressed"}}
EntryAt(d, e) == d.cl[e[1]][e[2]]
Uses(h, d, c) ==
    Cardinality({i \in DOMAIN d.l1 : d.l1[i] = c}) + Cardinality({i \in DOMAIN d.rt : d.rt[i] = c})
      + Cardinality({e \in Entries(d) : EntryAt(d, e).at = c}) + (IF c \in h.fixed THEN 1 ELSE 0)

\* No cluster is used for two things; in a qcow2 file that was not left in the
\* middle of something every cluster in use is counted and "the copied bit
\* means refcount == 1" (get_cluster_offset).
Consistent(h, d, counted) ==
    /\ \A c \in 1 .. FileClusters - 1 : Uses(h, d, c) <= 1 /\ (Uses(h, d, c) = 1 => c < d.end)
    /\ Probe(h) = "qcow2" /\ counted =>
         /\ \A c \in 1 .. FileClusters - 1 : Uses(h, d, c) = 1 => Refcount(d, c) >= 1
         /\ \A e \in Entries(d) : EntryAt(d, e).copied => Refcount(d, EntryAt(d, e).at) = 1

\* Tables lead into the file, the refcount table has a slot for every cluster,
\* the header is where it belongs, and a raw file has room for the device.  A
\* zero entry has no cluster and no copied bit: qcow_preadv knows QCOW2_OFLAG_ZERO
\* only alone, and takes the flag for a part of the offset where there is more.
WellFormed(h, d) ==
    /\ DOMAIN d = {"l1", "rt", "cl", "end"} /\ DOMAIN d.cl = Clusters /\ d.end \in 1 .. FileClusters
    /\ IsFiniteSet(DOMAIN d.l1) /\ d.l1 \in [0 .. Cardinality(DOMAIN d.l1) - 1 -> Clusters]
    /\ IsFiniteSet(DOMAIN d.rt) /\ d.rt \in [DOMAIN d.rt -> Clusters]
    /\ \A j \in DOMAIN d.l1, i \in 0 .. L2Size - 1 : d.l1[j] # 0 =>
         /\ Slot(d.cl[d.l1[j]], i, NoEntry) \in EntryType
         /\ Slot(d.cl[d.l1[j]], i, NoEntry).kind = "zero" => Slot(d.cl[d.l1[j]], i, NoEntry) = ZeroEntry
         /\ <<d.l1[j], i>> \in Entries(d) => EntryAt(d, <<d.l1[j], i>>).at # 0
    /\ \A j \in DOMAIN d.rt, c \in Clusters : d.rt[j] # 0 => GetRefcount(d.cl[d.rt[j]], c) \in Nat
    /\ Probe(h) = "qcow2" => (\A c \in Clusters : c \div RcSlots \in DOMAIN d.rt) /\ Refcount(d, 0) >= 1
    /\ 0 \in h.fixed
    /\ Probe(h) = "raw" => \A s \in SectorsOf(d) :
         s \div ClusterSectors \in Clusters /\ Slot(d.cl[s \div ClusterSectors], s % ClusterSectors, "zero") = "zero"

\* The files are what a sound image may be, and commands stay in the device.
ASSUME ImagesAssumption ==
    /\ \A i \in Images : /\ WellFormed(i.header, i.disk)
                         /\ Probe(i.header) # "raw" => Consistent(i.header, i.disk, TRUE)
    /\ \A r \in Requests : /\ r.op \in {"read", "write"} /\ {r.from, r.end} \subseteq Nat /\ r.from < r.end
                           /\ \A i \in Images : r.end - 1 \in SectorsOf(i.disk)

-----------------------------------------------------------------------------
VARIABLES
    image,      \* what the header says, which no command changes
    disk,       \* the file: l1, rt (refcount table), cl (clusters), end
    dev,        \* "closed", "open" or "refused"
    mem,        \* struct qcow_state
    cmd,        \* the command under way
    cmds, restarts,
    met,        \* faults met whose errors the code ignores
    truth       \* history: what each sector may read as

vars == <<image, disk, dev, mem, cmd, cmds, restarts, met, truth>>

Idle == [pc |-> "idle", op |-> "none", at |-> 0, end |-> 0, from |-> 0, val |-> "zero", buf |-> << >>,
         l2 |-> 0, new |-> 0, rb |-> 0, scan |-> 0, why |-> "none", rc |-> << >>, ret |-> "none", ok |-> TRUE, lost |-> {}]
Closed == [l1 |-> << >>, rt |-> << >>, l2c |-> << >>, rcc |-> << >>, free |-> 0,
           dec |-> [at |-> 0, data |-> << >>]]

\* After an error that the code ignores, clusters may be in use twice and a
\* table may hold data: what happens then is not followed.
Sound == met = {}
At(pc) == Sound /\ cmd.pc = pc

-----------------------------------------------------------------------------
\* Opening.

\* The open operations: the header's fields (qcow_validate_header and
\* qcow2_validate_header), the checks against the device, the backing file.
SetupBackingFile(i) == i.backing # "broken"
QcowImageOpen(i) == i.fieldsValid /\ i.sizeFits /\ SetupBackingFile(i)
Qcow2ImageOpen(i) == i.fieldsValid /\ i.sizeFits /\ i.l1Fits /\ SetupBackingFile(i)

\* bdev_open tries no other format if the one that was recognised fails.
OpenResult(i) ==
    LET f == Probe(i) IN
    IF f = "raw" \/ (f = "qcow" /\ QcowImageOpen(i)) \/ (f = "qcow2" /\ Qcow2ImageOpen(i))
    THEN f ELSE "refused"

Format == Probe(image)

\* What a sector reads as that is not in the file.
Unallocated(s) == IF image.backing = "none" THEN "zero" ELSE "backing"

\* The entry of a sector's cluster, and what the sector reads as through it.
EntryOf(d, s) ==
    LET c == s \div ClusterSectors
        l2 == d.l1[c \div L2Size]
    IN IF l2 = 0 THEN NoEntry ELSE Slot(d.cl[l2], c % L2Size, NoEntry)
Initial(d, s) ==
    LET e == EntryOf(d, s) IN
    CASE e.kind = "none" -> Unallocated(s) [] e.kind = "zero" -> "zero"
      [] OTHER -> Slot(d.cl[e.at], s % ClusterSectors, "zero")

Sectors == SectorsOf(disk)

Init ==
    \E i \in Images :
      /\ image = i.header /\ disk = i.disk /\ dev = "closed" /\ mem = Closed /\ cmd = Idle
      /\ cmds = 0 /\ restarts = 0 /\ met = {}
      /\ truth = [s \in Sectors |-> {IF Format = "raw" THEN "zero" ELSE Initial(disk, s)}]

\* qcow_open, with the L1 table and the refcount table read into memory.
Open ==
    /\ dev = "closed" /\ Sound
    /\ IF OpenResult(image) = "refused" THEN dev' = "refused" /\ UNCHANGED mem
       ELSE dev' = "open" /\ mem' = [Closed EXCEPT !.l1 = disk.l1, !.rt = disk.rt]
    /\ UNCHANGED <<image, disk, cmd, cmds, restarts, met, truth>>

\* qcow_close and the end of the daemon between commands.
Close ==
    /\ dev = "open" /\ Sound /\ cmd = Idle /\ restarts < MaxRestarts
    /\ dev' = "closed" /\ mem' = Closed /\ restarts' = restarts + 1
    /\ UNCHANGED <<image, disk, cmd, cmds, met, truth>>

\* The daemon ends in a command.  A cluster that is in use but not counted
\* yet is free for the next daemon.
Crash ==
    /\ "crash" \in Faults /\ dev = "open" /\ Sound /\ cmd # Idle /\ restarts < MaxRestarts
    /\ dev' = "closed" /\ mem' = Closed /\ cmd' = Idle /\ restarts' = restarts + 1
    /\ met' = IF cmd.rc = << >> THEN met ELSE met \cup {"torn"}
    /\ UNCHANGED <<image, disk, cmds, truth>>

-----------------------------------------------------------------------------
\* Access to the file.  Reads and writes of metadata may fail; that a write
\* failed is logged and ignored.

Wrote(d) ==
    \/ disk' = d /\ met' = met
    \/ "writefail" \in Faults /\ disk' = disk /\ met' = met \cup {"writefail"}
ReadFails == "readfail" \in Faults /\ met' = met \cup {"readfail"}

\* A cache with block b in it.  Which entry has been used least is left open.
Lookup(cache, b) ==
    IF b \in DOMAIN cache THEN {cache}
    ELSE LET kept == IF Cardinality(DOMAIN cache) < CacheSize THEN {DOMAIN cache}
                     ELSE {DOMAIN cache \ {e} : e \in DOMAIN cache}
         IN {With([c \in k |-> cache[c]], b, disk.cl[b]) : k \in kept}

L2CacheLookup(b) == Lookup(mem.l2c, b)
RcCacheLookup(b) == Lookup(mem.rcc, b)

Step(pc) == cmd' = [cmd EXCEPT !.pc = pc]
Fail == cmd' = [cmd EXCEPT !.pc = "done", !.ok = FALSE]
NoIo == UNCHANGED <<image, disk, dev, cmds, restarts, met, truth>>
Still == UNCHANGED <<image, dev, cmds, restarts>>

-----------------------------------------------------------------------------
\* Commands: qcow_read and qcow_write, which go through qcow_preadv and
\* qcow_pwritev cluster by cluster.

PieceEnd == LET e == (cmd.at \div ClusterSectors + 1) * ClusterSectors
            IN IF e < cmd.end THEN e ELSE cmd.end
Piece == cmd.at .. PieceEnd - 1
VCluster == cmd.at \div ClusterSectors

\* While a write is under way its sectors may read as before or as written.
Start(r, v) ==
    /\ dev = "open" /\ Sound /\ cmd = Idle /\ cmds < MaxCmds
    /\ cmds' = cmds + 1
    /\ cmd' = [Idle EXCEPT !.pc = IF Format = "raw" THEN "data" ELSE "l1", !.op = r.op,
                           !.at = r.from, !.from = r.from, !.end = r.end, !.val = v]
    /\ truth' = [s \in DOMAIN truth |->
                   truth[s] \cup (IF r.op = "write" /\ s \in r.from .. r.end - 1 THEN {v} ELSE {})]
    /\ UNCHANGED <<image, disk, dev, mem, restarts, met>>

StartRead == \E r \in Requests : r.op = "read" /\ Start(r, "zero")
StartWrite == \E r \in Requests, v \in Values : r.op = "write" /\ Start(r, v)

\* The command is answered.  Sectors that a short write left out (lost) may
\* read as before although the write was answered GOOD.
Answer ==
    /\ At("done") /\ cmd' = Idle
    /\ truth' = [s \in DOMAIN truth |->
                   IF cmd.op = "write" /\ cmd.ok /\ s \in (cmd.from .. cmd.end - 1) \ cmd.lost THEN {cmd.val}
                   ELSE truth[s]]
    /\ UNCHANGED <<image, disk, dev, mem, cmds, restarts, met>>

\* On to the rest of the request, with what was read and what was not written.
Onward(more, lost) ==
    cmd' = [cmd EXCEPT !.pc = IF PieceEnd = cmd.end THEN "done"
                              ELSE IF Format = "raw" THEN "data" ELSE "l1",
                       !.at = PieceEnd, !.buf = Over(more, cmd.buf), !.lost = @ \cup lost]
ReadAs(content) == Onward([s \in Piece |-> content[s]], {})
\* The file has nothing for the piece.
ReadUnallocated ==
    \/ ReadAs([s \in Piece |-> Unallocated(s)])
    \/ "readfail" \in Faults /\ image.backing # "none" /\ Fail

\* get_cluster_offset, the L1 table.
LookL1 ==
    LET l2 == mem.l1[VCluster \div L2Size] IN
    /\ At("l1") /\ UNCHANGED mem /\ NoIo
    /\ CASE l2 # 0 -> cmd' = [cmd EXCEPT !.pc = "l2", !.l2 = l2]
         [] l2 = 0 /\ cmd.op = "write" ->
              cmd' = [cmd EXCEPT !.pc = "scan", !.why = "l2table", !.scan = mem.free]
         [] OTHER -> ReadUnallocated

\* What became of a sector of the file.
InFile(c, s) == Slot(disk.cl[c], s % ClusterSectors, "zero")

\* get_cluster_offset, the L2 table, and the cases of qcow_preadv and
\* qcow_pwritev.  A table that cannot be read is taken for one without an
\* entry by reads.
LookL2 ==
    /\ At("l2")
    /\ \/ /\ cmd.l2 \notin DOMAIN mem.l2c /\ ReadFails
          /\ IF cmd.op = "write" THEN Fail ELSE ReadUnallocated
          /\ UNCHANGED mem
       \/ \E cache \in L2CacheLookup(cmd.l2) :
            LET e == Slot(cache[cmd.l2], VCluster % L2Size, NoEntry)
                alloc == cmd' = [cmd EXCEPT !.pc = "scan", !.why = e.kind, !.scan = mem.free]
            IN /\ mem' = [mem EXCEPT !.l2c = cache] /\ met' = met
               /\ CASE e.kind = "none" /\ cmd.op = "read" -> ReadUnallocated
                    [] e.kind = "zero" /\ cmd.op = "read" -> ReadAs([s \in Piece |-> "zero"])
                    [] e.kind = "compressed" -> Step("inflate")
                    [] e.kind = "normal" /\ (cmd.op = "read" \/ (e.copied /\ Format = "qcow2")) ->
                         cmd' = [cmd EXCEPT !.pc = "data", !.new = e.at]
                    [] OTHER -> alloc
    /\ UNCHANGED disk /\ Still /\ UNCHANGED truth

Entry == mem.l2c[cmd.l2][VCluster % L2Size]

\* The sector is compressed in cluster c of the file.
Packed(s, c) == EntryOf(disk, s).kind = "compressed" /\ EntryOf(disk, s).at = c

\* decompress_cluster, through the cluster it has inflated last (cluster_cache
\* and cluster_cache_offset).  What cannot be inflated has overwritten that
\* cluster, which is still taken for the old one: its sectors may read as junk.
Inflate ==
    LET hit == mem.dec.at = Entry.at
        data == IF hit THEN mem.dec.data ELSE disk.cl[Entry.at]
    IN
    /\ At("inflate")
    /\ \/ "readfail" \in Faults /\ ~hit /\ Fail /\ UNCHANGED <<mem, truth>>
       \/ /\ "inflatefail" \in Faults /\ ~hit /\ Fail
          /\ mem' = [mem EXCEPT !.dec = [at |-> @.at, data |-> [i \in 0 .. ClusterSectors - 1 |-> "junk"]]]
          /\ truth' = [s \in DOMAIN truth |->
                         truth[s] \cup (IF Packed(s, mem.dec.at) THEN {"junk"} ELSE {})]
       \/ /\ mem' = [mem EXCEPT !.dec = [at |-> Entry.at, data |-> data]] /\ UNCHANGED truth
          /\ IF cmd.op = "read" THEN ReadAs([s \in Piece |-> Slot(data, s % ClusterSectors, "zero")])
             ELSE cmd' = [cmd EXCEPT !.pc = "scan", !.why = "compressed", !.scan = mem.free]
    /\ UNCHANGED <<disk, met>> /\ Still

\* pwritev of the data, or preadv.  qcow_pwritev takes a short write for a whole
\* one; for a raw file qcow_write writes the rest.
Data ==
    LET at == IF Format = "raw" THEN VCluster ELSE cmd.new IN
    /\ At("data")
    /\ \/ "readfail" \in Faults /\ cmd.op = "read" /\ Fail /\ UNCHANGED <<disk, met>>
       \/ "writefail" \in Faults /\ cmd.op = "write" /\ Fail /\ UNCHANGED <<disk, met>>
       \/ cmd.op = "read" /\ ReadAs([s \in Piece |-> InFile(at, s)]) /\ UNCHANGED <<disk, met>>
       \/ \E k \in cmd.at .. PieceEnd :
            /\ cmd.op = "write" /\ (k = PieceEnd \/ ("shortwrite" \in Faults /\ Format # "raw"))
            /\ Onward(<< >>, k .. PieceEnd - 1) /\ UNCHANGED met
            /\ disk' = [disk EXCEPT !.cl[at] = Over([i \in {s % ClusterSectors : s \in cmd.at .. k - 1} |-> cmd.val], @)]
    /\ UNCHANGED mem /\ Still /\ UNCHANGED truth

-----------------------------------------------------------------------------
\* Allocation.

\* qcow_block_alloc takes the end of the file.  qcow2_block_alloc looks for a
\* cluster that is not counted, from first_free_cluster on; a refcount block
\* that cannot be read counts nothing.
Scan ==
    LET block == mem.rt[cmd.scan \div RcSlots] IN
    /\ At("scan") /\ UNCHANGED disk /\ Still /\ UNCHANGED truth
    /\ IF Format = "qcow" THEN cmd' = [cmd EXCEPT !.pc = "alloc", !.scan = disk.end] /\ UNCHANGED <<mem, met>>
       ELSE IF cmd.scan = FileClusters \/ block = 0 THEN Step("alloc") /\ UNCHANGED <<mem, met>>
       ELSE \/ block \notin DOMAIN mem.rcc /\ ReadFails /\ Step("alloc") /\ UNCHANGED mem
            \/ \E cache \in RcCacheLookup(block) :
                 /\ mem' = [mem EXCEPT !.rcc = cache] /\ met' = met
                 /\ IF GetRefcount(cache[block], cmd.scan) = 0 THEN Step("alloc")
                    ELSE cmd' = [cmd EXCEPT !.scan = @ + 1]

\* Mutant: a new cluster is not filled with what it replaces.
FillNot == << >>

\* What a new cluster is filled with before the L2 table leads to it: what it
\* replaces, but zeros for a cluster that was not there.  The entry of a zero
\* cluster leads to the start of the file, where the header is.
Fill ==
    CASE cmd.why = "compressed" -> mem.dec.data
      [] cmd.why = "normal" -> disk.cl[Entry.at]
      [] cmd.why = "zero" -> [i \in 0 .. ClusterSectors - 1 |-> "header"]
      [] OTHER -> << >>

\* On to the table that shall lead to the new cluster.
Took(c) ==
    cmd' = CASE cmd.why = "refblock" -> [cmd EXCEPT !.rb = c, !.pc = "rcupdate"]
             [] cmd.why = "l2table" -> [cmd EXCEPT !.new = c, !.pc = "l1update"]
             [] OTHER -> [cmd EXCEPT !.new = c, !.pc = "l2update"]

\* Mutant: the search for the next cluster starts at this one again.
AllocateAgain ==
    /\ At("alloc")
    /\ disk' = [disk EXCEPT !.cl[cmd.scan] = Fill] /\ UNCHANGED <<mem, truth, met>> /\ Still
    /\ Took(cmd.scan)

\* qcow2_set_refcount returns to its caller.
Counted == [cmd EXCEPT !.rc = Tail(@), !.pc = IF Len(cmd.rc) = 1 THEN cmd.ret ELSE "count"]

\* fallocate or ftruncate, and the copy that get_cluster_offset makes.
Allocate ==
    LET c == cmd.scan IN
    /\ At("alloc") /\ Still
    /\ \/ /\ c = FileClusters \/ "nospace" \in Faults
          /\ IF cmd.why = "refblock"
             THEN cmd' = Counted /\ met' = met \cup {"uncounted"}
             ELSE Fail /\ UNCHANGED met
          /\ UNCHANGED <<disk, mem, truth>>
       \/ /\ c < FileClusters /\ cmd.why \in {"normal", "zero", "compressed"}
          /\ "writefail" \in Faults \/ ("readfail" \in Faults /\ cmd.why # "compressed")
          /\ disk' = [disk EXCEPT !.cl[c] = << >>, !.end = IF c < @ THEN @ ELSE c + 1]
          /\ mem' = IF Format = "qcow2" THEN [mem EXCEPT !.free = c + 1] ELSE mem
          /\ Fail /\ UNCHANGED <<met, truth>>
       \/ /\ c < FileClusters /\ UNCHANGED met
          /\ disk' = [disk EXCEPT !.cl[c] = Fill, !.end = IF c < @ THEN @ ELSE c + 1]
          /\ mem' = IF Format = "qcow2" THEN [mem EXCEPT !.free = c + 1] ELSE mem
          /\ Took(c)
          /\ truth' = [s \in DOMAIN truth |->
                         IF s \div ClusterSectors # VCluster THEN truth[s]
                         ELSE truth[s] \cup (CASE cmd.why = "none" -> {"zero"}
                                               [] cmd.why = "zero" -> {"header"} [] OTHER -> {})]

Counting(ret) ==
    cmd' = [cmd EXCEPT !.pc = IF Format = "qcow2" THEN "count" ELSE ret, !.ret = ret,
                       !.rc = IF Format = "qcow2" THEN <<cmd.new>> ELSE << >>]

\* l1_table_update.
L1Update ==
    LET i == VCluster \div L2Size IN
    /\ At("l1update") /\ Counting("l1")
    /\ mem' = [mem EXCEPT !.l1[i] = cmd.new] /\ Wrote([disk EXCEPT !.l1[i] = cmd.new])
    /\ Still /\ UNCHANGED truth

\* Mutant: the table in the cache is left as it was.
L2UpdateFile ==
    LET e == [at |-> cmd.new, kind |-> "normal", copied |-> TRUE] IN
    /\ At("l2update") /\ Counting("data") /\ UNCHANGED <<mem, truth>> /\ Still
    /\ Wrote([disk EXCEPT !.cl[cmd.l2] = With(@, VCluster % L2Size, e)])

\* l2_table_update.
L2Update ==
    LET e == [at |-> cmd.new, kind |-> "normal", copied |-> Format = "qcow2"] IN
    /\ At("l2update") /\ Counting("data")
    /\ mem' = [mem EXCEPT !.l2c[cmd.l2] = With(@, VCluster % L2Size, e)]
    /\ Wrote([disk EXCEPT !.cl[cmd.l2] = With(@, VCluster % L2Size, e)])
    /\ Still /\ UNCHANGED truth

\* qcow2_set_refcount of the cluster on top of cmd.rc.  A refcount block that
\* is not there is allocated, and counted itself, first.
Count ==
    LET c == Head(cmd.rc)
        block == mem.rt[c \div RcSlots]
    IN /\ At("count") /\ Still /\ UNCHANGED truth
       /\ IF block = 0
          THEN /\ cmd' = [cmd EXCEPT !.pc = "scan", !.why = "refblock", !.scan = mem.free]
               /\ UNCHANGED <<mem, disk, met>>
          ELSE \/ block \notin DOMAIN mem.rcc /\ ReadFails /\ cmd' = Counted /\ UNCHANGED <<mem, disk>>
               \/ \E cache \in RcCacheLookup(block) :
                    LET b == SetRefcount(cache[block], c) IN
                    /\ mem' = [mem EXCEPT !.rcc = [cache EXCEPT ![block] = b]]
                    /\ cmd' = Counted /\ Wrote([disk EXCEPT !.cl[block] = b])

\* rc_table_update.
RcUpdate ==
    LET i == Head(cmd.rc) \div RcSlots IN
    /\ At("rcupdate")
    /\ cmd' = [cmd EXCEPT !.pc = "count", !.rc = <<cmd.rb>> \o @]
    /\ mem' = [mem EXCEPT !.rt[i] = cmd.rb] /\ Wrote([disk EXCEPT !.rt[i] = cmd.rb])
    /\ Still /\ UNCHANGED truth

Next ==
    \/ Open \/ Close \/ Crash \/ StartRead \/ StartWrite \/ Answer
    \/ LookL1 \/ LookL2 \/ Inflate \/ Data
    \/ Scan \/ Allocate \/ L1Update \/ L2Update \/ Count \/ RcUpdate

Spec == Init /\ [][Next]_vars

-----------------------------------------------------------------------------
\* Properties.  They hold until one of the errors that the code ignores has
\* been met.

\* The values of the state; no table leads out of the file, no search past its end.
TypeOK ==
    /\ dev \in {"closed", "open", "refused"} /\ cmds \in 0 .. MaxCmds /\ restarts \in 0 .. MaxRestarts
    /\ disk.end \in 0 .. FileClusters /\ DOMAIN disk.cl = 0 .. FileClusters - 1
    /\ mem.free \in 0 .. FileClusters /\ DOMAIN truth = Sectors
    /\ cmd.at \in cmd.from .. cmd.end /\ DOMAIN cmd.buf \subseteq Sectors /\ cmd.ok \in BOOLEAN
    /\ {cmd.l2, cmd.new, cmd.rb} \subseteq 0 .. FileClusters - 1 /\ cmd.scan \in 0 .. FileClusters

\* No cluster of the file is used for two things, whatever the order in which
\* tables, blocks and data were allocated, however the daemon was restarted in
\* between and whichever allocations failed; and except while a new cluster
\* is being counted, the refcounts and the copied bits of a qcow2 file are right.
ImageConsistent ==
    /\ TypeOK
    /\ Format # "raw" /\ Sound => Consistent(image, disk, cmd.rc = << >>)

\* A read that succeeds returns for each sector the last write that succeeded,
\* or one that failed or was cut off since, and otherwise what the image had,
\* also after restarts and copies of clusters.  The exceptions of the code are
\* part of truth: the rest of a cluster that is written for the first time no
\* longer shows the backing file, that of a zero cluster shows the header, what
\* a short write left out shows the old data, and a compressed cluster is junk
\* if another could not be inflated while it was in the cache.
ReadsReturnWritten ==
    cmd.pc = "done" /\ cmd.op = "read" /\ cmd.ok /\ Sound =>
      \A s \in cmd.from .. cmd.end - 1 : cmd.buf[s] \in truth[s]

\* The tables in memory are those of the file, so that a restart changes
\* nothing: also for the entry that was evicted and read again, and while an
\* allocation for one table goes through another.
CachesMatchFile ==
    dev = "open" /\ Sound /\ Format # "raw" =>
      /\ mem.l1 = disk.l1 /\ mem.rt = disk.rt
      /\ \A c \in DOMAIN mem.l2c : mem.l2c[c] = disk.cl[c]
      /\ \A c \in DOMAIN mem.rcc : mem.rcc[c] = disk.cl[c]
      /\ Cardinality(DOMAIN mem.l2c) <= CacheSize /\ Cardinality(DOMAIN mem.rcc) <= CacheSize
=============================================================================
