--------------------------- MODULE MCBlockCommands --------------------------
(* Instances of BlockCommands for TLC.                                      *)
EXTENDS BlockCommands

R(kind, lba, len, val, old, src, dst, slba, check) ==
    [kind |-> kind, lba |-> lba, len |-> len, val |-> val, old |-> old,
     src |-> src, dst |-> dst, slba |-> slba, check |-> check]

Local(kind, lba, len, val) == R(kind, lba, len, val, 0, "d1", "d1", 0, "OK")
Caw(lba, len, val) == R("caw", lba, len, val, 0, "d1", "d1", 0, "OK")
Copy(src, slba, dst, lba, len) == R("xcopy", lba, len, 0, 0, src, dst, slba, "OK")

\* Every kind, in lengths of one, several and no whole number of calls, ranges
\* past the end of a device, and what the checks refuse.
AllRequests ==
    {Local("read", 0, 2, 0), Local("write", 0, 2, 7), Local("write", 4, 2, 7),
     Local("writesame", 0, 5, 6), Local("writesame", 1, 3, 6), Local("writesame", 0, 0, 6),
     Local("wverify", 1, 2, 8), Local("format", 0, 0, 0),
     Caw(0, 2, 7), Caw(0, 2, 9), Caw(1, 2, 9),
     Copy("d1", 0, "d2", 1, 4), Copy("d2", 1, "d1", 0, 2), Copy("d1", 0, "d1", 3, 2),
     Copy("d1", 1, "d1", 0, 4), Copy("d1", 0, "d2", 0, 3), Copy("d1", 4, "d2", 0, 2),
     Copy("d1", 0, "d2", 0, 0),
     R("xcopy", 0, 1, 0, 0, "d1", "d2", 0, "INVALID_PARAM_LIST"),
     R("write", 0, 1, 7, 0, "d1", "d1", 0, "HW_ERR")}

=============================================================================
