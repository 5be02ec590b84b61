----------------------------- MODULE ZonedDevice ----------------------------
(***************************************************************************)
(* The zoned block device of file_zbc.c: a file that begins with the       *)
(* metadata (the geometry and one descriptor per zone, mapped shared) and  *)
(* goes on with the blocks.  The handler has no threads of its own, so one *)
(* command runs at a time; what interleaves with it is the end of the      *)
(* daemon, after which the device is opened again from the file.           *)
(*                                                                         *)
(* The sizes of the device and of the file and the options lba and zsize   *)
(* are in bytes (zsize in the code in MiB), all else is counted in logical *)
(* blocks, and reports in 64 byte units.  A block holds 0 or 1: a write    *)
(* stores 1, a format keeps what there is.  The attributes non_seq and     *)
(* reset of a zone are left out: the code only ever clears them.           *)
(***************************************************************************)
EXTENDS Integers, Sequences, FiniteSets, SequencesExt

CONSTANTS
    Configs,            \* devices: tcmu_get_dev_size, and the options when the device
                        \* is made and when it is opened again
    DefaultZoneSize,    \* ZBC_CONF_DEFAULT_ZSIZE
    DefaultOpenNum,     \* ZBC_CONF_DEFAULT_OPEN_NUM
    AddrMod,            \* stands for 2^64
    Lbas,               \* first blocks of the commands
    Iovs,               \* data buffers of the commands: sequences of lengths
    Allocs, Ros,        \* allocation lengths and reporting options of REPORT ZONES
    Faults              \* subset of {"io", "crash"}

NoMeta == [model |-> "none"]
None == [step |-> "idle"]
Models == {"HM", "HA"}
LbaSizes == {512, 4096}
PowersOfTwo == {2^k : k \in 0 .. 30}

ASSUME ZonedAssumption ==
    /\ DefaultZoneSize \in PowersOfTwo /\ DefaultOpenNum \in Nat \ {0} /\ AddrMod \in Nat
    /\ \A c \in Configs : DOMAIN c = {"size", "first", "later"} /\ c.size \in Nat /\ c.size >= 512
    /\ Lbas \subseteq 0 .. AddrMod - 1 /\ Iovs \subseteq Seq(Nat \ {0})
    /\ Allocs \subseteq Nat /\ Faults \subseteq {"io", "crash"}

VARIABLES
    cfg,        \* the size and the configuration strings, which stay
    up,         \* "down", "truncated", "format" or "up"
    fsize,      \* the size of the file (0: no file)
    geo,        \* the header of the metadata (NoMeta: not written yet)
    zones,      \* the zone descriptors
    media,      \* the blocks
    imp, exp,   \* zdev->nr_imp_open and nr_exp_open
    cmd,        \* the WRITE under way
    answer,     \* how the last command or open ended: "GOOD" or "CHECK"
    sure,       \* history: blocks whose WRITE was answered GOOD since the last
                \* reset or format
    usable,     \* history: the metadata was complete once, and not formatted since;
                \* until then the device is opened with the options it is made with
    burst       \* history: an OPEN ALL was accepted since the device was opened

vars == <<cfg, up, fsize, geo, zones, media, imp, exp, cmd, answer, sure, usable, burst>>
file == <<fsize, geo>>
counters == <<imp, exp>>
history == <<sure, usable, burst>>

\* tcmu_set_sense_data: the sense code goes to the initiator, the answer kept
\* here says only that there is one.
Answer(sts) == answer' = IF sts = "OK" THEN "GOOD" ELSE "CHECK"

-----------------------------------------------------------------------------
\* The configuration string.

DefaultConfig == [model |-> "HM", lba |-> 512, zsize |-> DefaultZoneSize, conv |-> -1,
                  open |-> DefaultOpenNum, format |-> FALSE]
InvalidConfig == [model |-> "none"]

\* zbc_parse_model, _lba, _zsize, _conv and _open; any option asks for a format.
ParseOption(c, o) ==
    CASE c = InvalidConfig -> c
      [] o.name = "model" /\ o.val \in Models -> [c EXCEPT !.model = o.val, !.format = TRUE]
      [] o.name = "lba" /\ o.val \in LbaSizes -> [c EXCEPT !.lba = o.val, !.format = TRUE]
      [] o.name = "zsize" /\ o.val \in PowersOfTwo ->
             [c EXCEPT !.zsize = o.val, !.format = TRUE]
      [] o.name = "conv" -> [c EXCEPT !.conv = o.val, !.format = TRUE]
      [] o.name = "open" /\ o.val # 0 -> [c EXCEPT !.open = o.val, !.format = TRUE]
      [] OTHER -> InvalidConfig

ParseConfig(opts) == FoldLeft(ParseOption, DefaultConfig, opts)

\* How many zones it takes for a capacity: the last one may be shorter.
NrZones(capacity, zoneSize) == (capacity + zoneSize - 1) \div zoneSize

\* The geometry zbc_format_meta computes.  What is left of the device after its
\* last whole block is not part of the capacity.
FormatGeometry(c) ==
    LET capacity == cfg.size \div c.lba
        zoneSize == c.zsize \div c.lba
        nr == NrZones(capacity, zoneSize)
        conv == IF c.conv # -1 THEN c.conv ELSE IF nr \div 100 = 0 THEN 1 ELSE nr \div 100
        half == (nr - conv) \div 2
    IN [model |-> c.model, lbaSize |-> c.lba, capacity |-> capacity, zoneSize |-> zoneSize,
        nr |-> nr, conv |-> conv,
        open |-> IF c.open < half THEN c.open ELSE IF half = 0 THEN 1 ELSE half]

-----------------------------------------------------------------------------
\* Zones.

Blocks == 0 .. geo.capacity - 1
Zones == 0 .. geo.nr - 1
Start(z) == zones[z].start
End(z) == zones[z].start + zones[z].len
Type(z) == zones[z].type
Conv(z) == Type(z) = "conv"
SeqReq(z) == Type(z) = "req"
IsOpen(zs, z) == zs[z].cond \in {"IMP_OPEN", "EXP_OPEN"}
BlocksOf(z) == Start(z) .. End(z) - 1

\* A descriptor that was not written yet is all zeroes.
Unformatted == [start |-> 0, len |-> 0, wp |-> 0, type |-> "none", cond |-> "NOT_WP"]

\* The descriptor zbc_format_meta writes; the last zone may be short.  The wp of
\* a conventional zone, ULLONG_MAX in the code, is never looked at.
FormattedZone(z) ==
    LET start == z * geo.zoneSize
        conv == z < geo.conv
    IN [start |-> start,
        len |-> IF start + geo.zoneSize > geo.capacity THEN geo.capacity - start ELSE geo.zoneSize,
        wp |-> IF conv THEN 0 ELSE start,
        type |-> IF conv THEN "conv" ELSE IF geo.model = "HA" THEN "pref" ELSE "req",
        cond |-> IF conv THEN "NOT_WP" ELSE "EMPTY"]

\* zbc_get_zone: the zone of an address, or -1.
GetZone(lba, lowest) ==
    LET z == lba \div geo.zoneSize
    IN IF z >= geo.nr \/ (lowest /\ lba # Start(z)) THEN -1 ELSE z

\* What the operations on zones work on: the descriptors and the two counters.
\* The counters are unsigned and can pass zero while zbc_init_meta runs.
Dev(zs, i, e) == [zs |-> zs, imp |-> i, exp |-> e]
Now == Dev(zones, imp, exp)

\* Mutant: an implicitly open zone is taken off the other counter.
CloseZoneWrongCounter(d, z) ==
    IF Conv(z) \/ ~IsOpen(d.zs, z) THEN d
    ELSE Dev([d.zs EXCEPT ![z].cond = IF d.zs[z].wp = Start(z) THEN "EMPTY" ELSE "CLOSED"],
             d.imp, d.exp - 1)

\* __zbc_close_zone.
CloseZone(d, z) ==
    IF Conv(z) \/ ~IsOpen(d.zs, z) THEN d
    ELSE LET cond == IF d.zs[z].wp = Start(z) THEN "EMPTY" ELSE "CLOSED"
             isImp == d.zs[z].cond = "IMP_OPEN"
         IN Dev([d.zs EXCEPT ![z].cond = cond],
                IF isImp THEN d.imp - 1 ELSE d.imp, IF isImp THEN d.exp ELSE d.exp - 1)

\* __zbc_close_imp_open_zone: the first one found.
CloseImpOpenZone(d) ==
    LET open == {z \in Zones : d.zs[z].cond = "IMP_OPEN"}
    IN IF open = {} THEN d ELSE CloseZone(d, CHOOSE z \in open : \A y \in open : z <= y)

\* __zbc_open_zone.
OpenZone(d, z, explicit) ==
    LET cond == IF explicit THEN "EXP_OPEN" ELSE "IMP_OPEN"
        room == IF d.imp + d.exp >= geo.open THEN CloseImpOpenZone(d) ELSE d
    IN IF d.zs[z].cond = cond THEN d
       ELSE Dev([room.zs EXCEPT ![z].cond = cond],
                IF explicit THEN room.imp ELSE room.imp + 1,
                IF explicit THEN room.exp + 1 ELSE room.exp)

\* __zbc_finish_zone.
FinishZone(d, z, empty) ==
    IF Conv(z) \/ ~(\/ d.zs[z].cond = "CLOSED" \/ IsOpen(d.zs, z)
                    \/ empty /\ d.zs[z].cond = "EMPTY")
    THEN d
    ELSE [CloseZone(d, z) EXCEPT !.zs[z].wp = End(z), !.zs[z].cond = "FULL"]

\* __zbc_reset_wp.
ResetWp(d, z) ==
    IF Conv(z) THEN d
    ELSE [CloseZone(d, z) EXCEPT !.zs[z].wp = Start(z), !.zs[z].cond = "EMPTY"]

\* The loops over all zones run in the order of the zones and see what the
\* steps before them did.
AllZones(Op(_, _), d) == FoldLeft(Op, d, [i \in 1 .. geo.nr |-> i - 1])

Store(d) == zones' = d.zs /\ imp' = d.imp /\ exp' = d.exp

-----------------------------------------------------------------------------
\* Opening and closing the device.


\* zbc_check_zone.
CheckZone(z) ==
    /\ zones[z].type \in {"conv", "pref", "req"}
    /\ zones[z].type = "pref" => geo.model = "HA"
    /\ zones[z].type = "req" => geo.model = "HM"
    /\ zones[z].type = "conv" => zones[z].cond = "NOT_WP"
    /\ zones[z].start % geo.zoneSize = 0 /\ zones[z].len <= geo.zoneSize

\* zbc_meta_size_aligned: header and descriptors, in whole pages.  The mask is
\* one short of that of a page, which makes no difference for an even size.
MetaSize(nr) == ((48 + 64 * nr + 4094) \div 4096) * 4096

\* zbc_check_meta: the header against the device and the file, and each
\* descriptor against the header.
CheckMeta ==
    /\ geo # NoMeta /\ geo.model \in Models /\ geo.lbaSize \in LbaSizes
    /\ geo.capacity * geo.lbaSize = cfg.size
    /\ geo.zoneSize \in PowersOfTwo
    /\ geo.nr = NrZones(geo.capacity, geo.zoneSize) /\ geo.conv < geo.nr /\ geo.open <= geo.nr
    /\ fsize = MetaSize(geo.nr) + cfg.size
    /\ \A z \in Zones : CheckZone(z)

Config == ParseConfig(IF usable THEN cfg.later ELSE cfg.first)

\* zbc_open_backstore: options, a new file and damaged metadata ask for a format.
NeedFormat == Config # InvalidConfig /\ (Config.format \/ ~CheckMeta)

Init ==
    /\ cfg \in Configs
    /\ up = "down" /\ fsize = 0 /\ geo = NoMeta /\ zones = << >>
    /\ media = [b \in 0 .. cfg.size \div 512 - 1 |-> 0]
    /\ imp = 0 /\ exp = 0 /\ cmd = None /\ answer = "GOOD"
    /\ sure = {} /\ usable = FALSE /\ burst = FALSE

\* zbc_open fails before it changes the file.
OpenRefused ==
    /\ up = "down"
    /\ \/ Config = InvalidConfig
       \/ NeedFormat /\ Config.conv >= FormatGeometry(Config).nr
       \/ "io" \in Faults
    /\ Answer("EINVAL")
    /\ UNCHANGED <<cfg, up, file, zones, media, counters, cmd, history>>

\* zbc_format_meta up to ftruncate, which gives the file its size.
OpenFormat ==
    /\ up = "down" /\ NeedFormat /\ Config.conv < FormatGeometry(Config).nr
    /\ fsize' = MetaSize(FormatGeometry(Config).nr) + cfg.size
    /\ up' = "truncated"
    /\ UNCHANGED <<cfg, geo, zones, media, counters, cmd, answer, history>>

\* zbc_format_meta up to the loop over the zones: the file is mapped, the old
\* metadata are erased and the header is written.  mmap may fail.
FormatHeader ==
    /\ up = "truncated"
    /\ \/ /\ "io" \in Faults /\ up' = "down" /\ Answer("EINVAL")
          /\ UNCHANGED <<geo, zones, counters, history>>
       \/ /\ geo' = FormatGeometry(Config)
          /\ zones' = [z \in 0 .. FormatGeometry(Config).nr - 1 |-> Unformatted]
          /\ usable' = (usable /\ ~Config.format)
          /\ up' = "format" /\ imp' = 0 /\ exp' = 0 /\ answer' = "GOOD"
          /\ sure' = {} /\ burst' = FALSE
    /\ UNCHANGED <<cfg, fsize, media, cmd>>

\* One round of the loop of zbc_format_meta.
FormatZone ==
    /\ up = "format"
    /\ \E z \in Zones :
         /\ zones[z] = Unformatted /\ \A y \in Zones : y < z => zones[y] # Unformatted
         /\ zones' = [zones EXCEPT ![z] = FormattedZone(z)]
    /\ UNCHANGED <<cfg, up, file, media, counters, cmd, answer, history>>

\* The end of zbc_format_meta.  If the metadata cannot be synchronised the
\* open fails, and leaves them complete.
FormatDone ==
    /\ up = "format" /\ \A z \in Zones : zones[z] # Unformatted
    /\ up' = "up" \/ ("io" \in Faults /\ up' = "down")
    /\ usable' = TRUE
    /\ UNCHANGED <<cfg, file, zones, media, counters, cmd, answer, sure, burst>>

\* zbc_init_meta: every zone is closed, the counters begin at zero.
OpenInit ==
    /\ up = "down" /\ Config # InvalidConfig /\ ~NeedFormat
    /\ up' = "up" /\ zones' = AllZones(CloseZone, Now).zs /\ imp' = 0 /\ exp' = 0
    /\ answer' = "GOOD" /\ burst' = FALSE
    /\ UNCHANGED <<cfg, file, media, cmd, sure, usable>>

\* zbc_close: the mapping is given up, what it holds stays in the file.
Close ==
    /\ up = "up" /\ cmd = None
    /\ up' = "down" /\ imp' = 0 /\ exp' = 0 /\ answer' = "GOOD"
    /\ UNCHANGED <<cfg, file, zones, media, cmd, history>>

\* The daemon ends at any point; the kernel keeps the pages of the file.
Crash ==
    /\ "crash" \in Faults /\ up # "down"
    /\ up' = "down" /\ imp' = 0 /\ exp' = 0 /\ cmd' = None /\ answer' = "GOOD"
    /\ UNCHANGED <<cfg, file, zones, media, history>>

-----------------------------------------------------------------------------
\* Zone commands.

Idle == up = "up" /\ cmd = None

\* The checks shared by OPEN, CLOSE, FINISH and RESET of one zone.
ZoneArg(lba) ==
    IF lba > geo.capacity THEN "LBA_OUT_OF_RANGE"
    ELSE IF GetZone(lba, TRUE) = -1 \/ Conv(GetZone(lba, TRUE)) THEN "INVALID_FIELD" ELSE "OK"

ZoneRefused(lba) ==
    /\ Idle /\ ZoneArg(lba) # "OK" /\ Answer(ZoneArg(lba))
    /\ UNCHANGED <<cfg, up, file, zones, media, counters, cmd, history>>

\* zbc_open_zone of one zone.
OpenZoneCmd(lba) ==
    LET z == GetZone(lba, TRUE) IN
    /\ Idle /\ ZoneArg(lba) = "OK"
    /\ \/ /\ zones[z].cond \in {"EXP_OPEN", "FULL"}
          /\ Answer("OK") /\ UNCHANGED <<zones, counters>>
       \/ /\ zones[z].cond \notin {"EXP_OPEN", "FULL"} /\ exp + 1 > geo.open
          /\ Answer("INSUFFICIENT_ZONE_RESOURCES") /\ UNCHANGED <<zones, counters>>
       \/ /\ zones[z].cond \notin {"EXP_OPEN", "FULL"} /\ exp + 1 <= geo.open
          /\ Store(OpenZone(CloseZone(Now, z), z, TRUE)) /\ Answer("OK")
    /\ UNCHANGED <<cfg, up, file, media, cmd, history>>

\* zbc_open_zone of all closed zones.
OpenAllCmd ==
    LET closed == {z \in Zones : zones[z].cond = "CLOSED"}
        OpenClosed(d, z) == IF d.zs[z].cond = "CLOSED" THEN OpenZone(d, z, TRUE) ELSE d
    IN
    /\ Idle
    /\ \/ /\ exp + Cardinality(closed) > geo.open
          /\ Answer("INSUFFICIENT_ZONE_RESOURCES")
          /\ UNCHANGED <<zones, counters, burst>>
       \/ /\ exp + Cardinality(closed) <= geo.open
          /\ Store(AllZones(OpenClosed, Now)) /\ Answer("OK") /\ burst' = TRUE
    /\ UNCHANGED <<cfg, up, file, media, cmd, sure, usable>>

\* zbc_close_zone.
CloseZoneCmd(all, lba) ==
    /\ Idle /\ (all \/ ZoneArg(lba) = "OK") /\ Answer("OK")
    /\ Store(IF all THEN AllZones(CloseZone, Now) ELSE CloseZone(Now, GetZone(lba, TRUE)))
    /\ UNCHANGED <<cfg, up, file, media, cmd, history>>

\* zbc_finish_zone.
FinishZoneCmd(all, lba) ==
    LET FinishOpen(d, z) == FinishZone(d, z, FALSE)
        done == IF all THEN AllZones(FinishOpen, Now) ELSE FinishZone(Now, GetZone(lba, TRUE), TRUE)
    IN
    /\ Idle /\ (all \/ ZoneArg(lba) = "OK") /\ Answer("OK")
    /\ Store(done)
    /\ UNCHANGED <<cfg, up, file, media, cmd, history>>

\* zbc_reset_wp.
ResetZoneCmd(all, lba) ==
    LET target == IF all THEN Zones ELSE {GetZone(lba, TRUE)}
        gone == UNION {BlocksOf(z) : z \in {y \in target : ~Conv(y)}}
    IN
    /\ Idle /\ (all \/ ZoneArg(lba) = "OK") /\ Answer("OK")
    /\ Store(IF all THEN AllZones(ResetWp, Now) ELSE ResetWp(Now, GetZone(lba, TRUE)))
    /\ sure' = sure \ gone
    /\ UNCHANGED <<cfg, up, file, media, cmd, usable, burst>>

-----------------------------------------------------------------------------
\* READ.

SumSeq(s) == FoldLeft(LAMBDA a, b : a + b, 0, s)

\* zbc_check_rdwr, for data buffers that have the length the CDB says.
CheckRdwr(lba, n) ==
    IF (lba + n) % AddrMod > geo.capacity \/ (lba + n) % AddrMod < lba
    THEN "LBA_OUT_OF_RANGE" ELSE "OK"

\* Mutant: the last written block is taken for unwritten.
ReadBufferShort(n, lba, zoneType) ==
    LET z == GetZone(lba, FALSE) IN
    [sts |-> "OK",
     data |-> [i \in 1 .. n |-> IF Conv(z) \/ lba + i < zones[z].wp THEN media[lba + i - 1] ELSE 0]]

\* __zbc_read of n blocks from lba, and what it returns: the blocks, or why it
\* stopped.  left counts down as lba_count does; count is computed from n, not
\* from left, and can be more than is left.
ReadBuffer(n, lba, zoneType) ==
    LET first == IF zoneType = "" THEN Type(GetZone(lba, FALSE)) ELSE zoneType
        read[left \in 0 .. n] ==
            LET pos == lba + (n - left)
                z == GetZone(pos, FALSE)
                boundary == IF Conv(z) THEN End(z) ELSE zones[z].wp
                count == IF pos + n > boundary THEN boundary - pos ELSE left
            IN CASE left = 0 -> [sts |-> "OK", data |-> << >>]
                 [] left > 0 /\ geo.model = "HM" /\ Type(z) # first ->
                        [sts |-> "READ_INVALID_DATA", data |-> << >>]
                 [] left > 0 /\ (geo.model = "HM" => Type(z) = first)
                    /\ ~Conv(z) /\ pos >= boundary ->
                        [sts |-> "OK", data |-> [i \in 1 .. left |-> 0]]
                 [] left > 0 /\ (geo.model = "HM" => Type(z) = first)
                    /\ (Conv(z) \/ pos < boundary) /\ count > left ->
                        [sts |-> "OVERRUN", data |-> << >>]
                 [] OTHER -> LET rest == read[left - count] IN
                        [rest EXCEPT !.data = [i \in 1 .. count |-> media[pos + i - 1]] \o @]
    IN read[n]

\* zbc_read: the buffers one after the other.
Read(lba, iov) ==
    LET Step(acc, n) ==
            IF acc.sts # "OK" THEN acc
            ELSE LET r == ReadBuffer(n, acc.lba, acc.type) IN
                 [sts |-> r.sts, lba |-> acc.lba + n, data |-> acc.data \o r.data,
                  type |-> IF geo.model = "HM" THEN Type(GetZone(acc.lba, FALSE)) ELSE ""]
    IN FoldLeft(Step, [sts |-> CheckRdwr(lba, SumSeq(iov)), lba |-> lba, data |-> << >>,
                       type |-> ""], iov)

\* A failed pread is a medium error once the type of a zone is known, which it
\* is on host managed devices only.
ReadCmd(lba, iov) ==
    LET sts == Read(lba, iov).sts IN
    /\ Idle
    /\ \/ Answer(sts)
       \/ /\ "io" \in Faults /\ sts = "OK"
          /\ Answer(IF geo.model = "HM" THEN "READ_ERROR" ELSE "READ_INVALID_DATA")
    /\ UNCHANGED <<cfg, up, file, zones, media, counters, cmd, history>>

-----------------------------------------------------------------------------
\* WRITE.

\* zbc_write_check_zones, zone by zone.
WriteCheckZones(lba, n) ==
    LET first == Type(GetZone(lba, FALSE))
        check[left \in 0 .. n] ==
            LET pos == lba + (n - left)
                z == GetZone(pos, FALSE)
                count == IF pos + left > End(z) THEN End(z) - pos ELSE left
            IN IF left = 0 THEN "OK"
               ELSE IF Type(z) # first \/ (SeqReq(z) /\ pos + left > End(z))
                    THEN "WRITE_BOUNDARY_VIOLATION"
               ELSE IF SeqReq(z) /\ pos # zones[z].wp
                    THEN IF zones[z].cond = "FULL" THEN "INVALID_FIELD" ELSE "UNALIGNED_WRITE"
               ELSE check[left - count]
    IN check[n]

WriteCheck(lba, n) ==
    IF CheckRdwr(lba, n) # "OK" THEN CheckRdwr(lba, n) ELSE WriteCheckZones(lba, n)

\* zbc_write up to its loop.  Only the first buffer is ever looked at (buf).
WriteBegin(lba, iov) ==
    LET n == SumSeq(iov) sts == WriteCheck(lba, n) IN
    /\ Idle
    /\ \/ /\ sts # "OK" /\ Answer(sts) /\ UNCHANGED cmd
       \/ /\ sts = "OK" /\ UNCHANGED answer
          /\ cmd' = [step |-> "write", from |-> lba, lba |-> lba, left |-> n,
                     buf |-> Head(iov), count |-> 0]
    /\ UNCHANGED <<cfg, up, file, zones, media, counters, history>>

WriteEnd(sts) == cmd' = None /\ Answer(sts)

\* A round of the loop of zbc_write up to pwrite: the zone is opened if it is
\* not; pwrite takes what is left of the first buffer, or less.  Nothing at all
\* is an error, and so is a first buffer that has been used up.
WriteBlocks ==
    LET z == GetZone(cmd.lba, FALSE)
        open == Conv(z) \/ IsOpen(zones, z)
        count == IF cmd.buf < cmd.left THEN cmd.buf ELSE cmd.left
    IN
    /\ up = "up" /\ cmd.step = "write"
    /\ \/ /\ cmd.lba + cmd.left > End(z)
          /\ WriteEnd("WRITE_BOUNDARY_VIOLATION") /\ UNCHANGED <<zones, counters, media>>
       \/ /\ cmd.lba + cmd.left <= End(z) /\ ~open /\ exp >= geo.open
          /\ WriteEnd("INSUFFICIENT_ZONE_RESOURCES") /\ UNCHANGED <<zones, counters, media>>
       \/ /\ cmd.lba + cmd.left <= End(z) /\ (open \/ exp < geo.open)
          /\ Store(IF open THEN Now ELSE OpenZone(Now, z, FALSE))
          /\ \/ /\ count = 0 \/ "io" \in Faults
                /\ WriteEnd("WRITE_ERROR") /\ UNCHANGED media
             \/ \E k \in 1 .. count :
                  /\ k = count \/ "io" \in Faults
                  /\ media' = [b \in DOMAIN media |->
                                  IF b \in cmd.lba .. cmd.lba + k - 1 THEN 1 ELSE media[b]]
                  /\ cmd' = [cmd EXCEPT !.step = "advance", !.count = k, !.buf = @ - k]
                  /\ UNCHANGED answer
    /\ UNCHANGED <<cfg, up, file, history>>

\* The zone after count blocks from lba were written to it.
Advance(d, z, lba, count) ==
    LET wp == IF SeqReq(z) THEN d.zs[z].wp + count
              ELSE IF lba + count >= d.zs[z].wp THEN lba + count ELSE d.zs[z].wp
    IN IF Conv(z) THEN d
       ELSE IF wp < End(z) THEN [d EXCEPT !.zs[z].wp = wp]
       ELSE [CloseZone([d EXCEPT !.zs[z].wp = wp], z) EXCEPT
                !.zs[z].wp = End(z), !.zs[z].cond = "FULL"]

\* The rest of the round, and the answer after the last one.
WriteAdvance ==
    LET z == GetZone(cmd.lba, FALSE)
        done == Advance(Now, z, cmd.lba, cmd.count)
    IN
    /\ up = "up" /\ cmd.step = "advance"
    /\ Store(done)
    /\ \/ /\ cmd.left > cmd.count
          /\ cmd' = [cmd EXCEPT !.step = "write", !.lba = @ + cmd.count, !.left = @ - cmd.count,
                                !.count = 0]
          /\ UNCHANGED <<answer, sure>>
       \/ /\ cmd.left = cmd.count /\ WriteEnd("OK")
          /\ sure' = sure \cup (cmd.from .. cmd.lba + cmd.count - 1)
    /\ UNCHANGED <<cfg, up, file, media, usable, burst>>

\* zbc_flush: fsync and msync, which change nothing a reader sees.
Flush ==
    /\ Idle
    /\ Answer("OK") \/ ("io" \in Faults /\ Answer("WRITE_ERROR"))
    /\ UNCHANGED <<cfg, up, file, zones, media, counters, cmd, history>>

-----------------------------------------------------------------------------
\* REPORT ZONES.

ReportOptions == {"ALL", "EMPTY", "IMP_OPEN", "EXP_OPEN", "CLOSED", "FULL", "READONLY",
                  "OFFLINE", "RWP_RECOMMENDED", "NON_SEQ", "NOT_WP"}

\* zbc_should_report_zone.
ShouldReport(z, ro) == ro = "ALL" \/ zones[z].cond = ro

\* Mutant: the header is not counted when zones are counted.
ReportHeader(lba, ro, partial, alloc) ==
    LET from == {z \in Zones : z >= GetZone(lba, FALSE) /\ ShouldReport(z, ro)}
        least == SetToSortSeq(from, <)
        room == IF alloc < 1 THEN 0 ELSE alloc - 1
    IN [nr |-> IF partial /\ Cardinality(from) > alloc THEN alloc ELSE Cardinality(from),
        out |-> SubSeq(least, 1, IF Len(least) > room THEN room ELSE Len(least))]

\* zbc_report_zones: the number of zones in the header and the zones listed, in
\* a buffer of alloc units of which the header takes one.
Report(lba, ro, partial, alloc) ==
    LET from == [i \in 1 .. geo.nr - GetZone(lba, FALSE) |-> GetZone(lba, FALSE) + i - 1]
        Count(a, z) ==
            IF a.stop \/ ~ShouldReport(z, ro) THEN a
            ELSE IF partial /\ a.len < 1 THEN [a EXCEPT !.stop = TRUE]
            ELSE [a EXCEPT !.len = IF @ > 1 THEN @ - 1 ELSE 0, !.nr = @ + 1]
        List(a, z) ==
            IF a.len < 1 \/ ~ShouldReport(z, ro) THEN a
            ELSE [len |-> a.len - 1, out |-> Append(a.out, z)]
    IN [nr |-> FoldLeft(Count, [stop |-> FALSE, nr |-> 0,
                                len |-> IF alloc > 1 THEN alloc - 1 ELSE 0], from).nr,
        out |-> IF alloc < 1 THEN << >>
                ELSE FoldLeft(List, [len |-> alloc - 1, out |-> << >>], from).out]

\* zbc_in: the report itself changes nothing.
ReportCmd(lba, ro) ==
    /\ Idle
    /\ Answer(IF ro \notin ReportOptions THEN "INVALID_FIELD"
              ELSE IF lba >= geo.capacity THEN "LBA_OUT_OF_RANGE" ELSE "OK")
    /\ UNCHANGED <<cfg, up, file, zones, media, counters, cmd, history>>

-----------------------------------------------------------------------------
ZoneOut ==      \* zbc_out
    \/ OpenAllCmd
    \/ \E lba \in Lbas : ZoneRefused(lba) \/ OpenZoneCmd(lba)
    \/ \E all \in BOOLEAN, lba \in Lbas :
         CloseZoneCmd(all, lba) \/ FinishZoneCmd(all, lba) \/ ResetZoneCmd(all, lba)

ReadWrite ==
    \/ \E lba \in Lbas, iov \in Iovs : ReadCmd(lba, iov) \/ WriteBegin(lba, iov)
    \/ WriteBlocks \/ WriteAdvance \/ Flush

Next ==
    \/ OpenRefused \/ OpenFormat \/ FormatHeader \/ FormatZone \/ FormatDone \/ OpenInit \/ Close \/ Crash
    \/ ZoneOut \/ ReadWrite
    \/ \E lba \in Lbas, ro \in Ros : ReportCmd(lba, ro)

Spec == Init /\ [][Next]_vars

-----------------------------------------------------------------------------
\* Properties.

\* The values of the state; the counters do not pass zero between commands.
TypeOK ==
    /\ cfg \in Configs /\ up \in {"down", "truncated", "format", "up"} /\ answer \in {"GOOD", "CHECK"}
    /\ geo = NoMeta \/ (geo.model \in Models /\ {geo.zoneSize, geo.nr, geo.open} \subseteq Nat \ {0})
    /\ up \in {"format", "up"} => geo # NoMeta /\ DOMAIN zones = Zones
    /\ fsize \in Nat /\ \A b \in DOMAIN media : media[b] \in {0, 1}
    /\ sure \subseteq DOMAIN media /\ {imp, exp} \subseteq Nat
    /\ {usable, burst} \subseteq BOOLEAN
    /\ cmd = None \/ (/\ cmd.step \in {"write", "advance"} /\ cmd.lba \in DOMAIN media
                      /\ {cmd.left, cmd.buf, cmd.count} \subseteq Nat)

\* A WRITE to a sequential write required zone puts its data exactly at the
\* write pointer of an open zone, also in the later rounds of its loop and
\* after short writes (zbc_write checks this before the loop only).
WritesAtPointer ==
    cmd.step = "advance" /\ SeqReq(GetZone(cmd.lba, FALSE)) =>
      /\ cmd.lba = zones[GetZone(cmd.lba, FALSE)].wp
      /\ IsOpen(zones, GetZone(cmd.lba, FALSE))

\* The descriptors, the counters and the write pointers agree: nr_imp_open and
\* nr_exp_open count the open zones (a wrong counter locks writers out or lets
\* too many zones open), no more zones are open than nr_open_zones unless OPEN
\* ALL was used, EMPTY and FULL say where the write pointer is, and a zone
\* whose write pointer has reached the end is FULL (on host aware devices, an
\* overwrite of a full zone that fails reopens it).  Writes meet the pointer.
ZonesConsistent ==
    /\ TypeOK
    /\ up = "up" =>
      /\ WritesAtPointer
      /\ imp = Cardinality({z \in Zones : zones[z].cond = "IMP_OPEN"})
      /\ exp = Cardinality({z \in Zones : zones[z].cond = "EXP_OPEN"})
      /\ burst \/ imp + exp <= geo.open
      /\ \A z \in Zones :
           IF Conv(z) THEN zones[z].cond = "NOT_WP"
           ELSE /\ zones[z].wp \in Start(z) .. End(z)
                /\ zones[z].cond = "EMPTY" => zones[z].wp = Start(z)
                /\ zones[z].cond = "FULL" => zones[z].wp = End(z)
                /\ zones[z].cond = "CLOSED" => zones[z].wp > Start(z)
                /\ zones[z].wp = End(z) /\ geo.model = "HM" => zones[z].cond = "FULL"

\* Within one zone, a READ returns every block whose WRITE was answered GOOD
\* since the last reset or format, also after the daemon ended in the middle
\* of something, and nothing of what lies at or after the write pointer.
Readable(b) == Conv(GetZone(b, FALSE)) \/ b < zones[GetZone(b, FALSE)].wp
ReadsReturnWritten ==
    Idle => \A lba \in Blocks, n \in 1 .. geo.zoneSize :
              lba + n <= End(GetZone(lba, FALSE)) =>
                LET r == Read(lba, <<n>>) IN
                /\ r.sts = "OK" /\ Len(r.data) = n
                /\ \A i \in 1 .. n : /\ lba + i - 1 \in sure => r.data[i] = 1
                                     /\ r.data[i] = 1 => Readable(lba + i - 1)

\* REPORT ZONES lists the zones that match, in order, as many as fit; its
\* header gives the number of zones that match, or with PARTIAL of those listed.
ReportsExact ==
    Idle => \A lba \in Lbas \cap Blocks, ro \in Ros \cap ReportOptions, partial \in BOOLEAN, alloc \in Allocs :
              LET r == Report(lba, ro, partial, alloc)
                  match == {z \in Zones : z >= GetZone(lba, FALSE) /\ ShouldReport(z, ro)}
              IN /\ ToSet(r.out) \subseteq match
                 /\ \A i, j \in 1 .. Len(r.out) : i < j => r.out[i] < r.out[j]
                 /\ \A z \in match \ ToSet(r.out) : /\ Len(r.out) + 1 >= alloc
                                                    /\ \A y \in ToSet(r.out) : y < z
                 /\ r.nr = IF partial THEN Len(r.out) ELSE Cardinality(match)

=============================================================================
