---------------------------- MODULE BlockCommands ---------------------------
(***************************************************************************)
(* The commands of tcmur_cmd_handler.c that are chains of handler calls:   *)
(* READ and WRITE (one call), WRITE SAME, WRITE AND VERIFY, EXTENDED COPY, *)
(* COMPARE AND WRITE and FORMAT UNIT.  The command processor starts them   *)
(* one after the other; every further step is the callback of a handler    *)
(* call, in whatever thread that ends.  The commands arrive at device      *)
(* "d1"; a copy may read from or write to another device.                  *)
(*                                                                         *)
(* Lengths are counted in blocks.  A handler call reads or writes its      *)
(* range at one moment (external); calls of different commands interleave. *)
(* The progress figure of a format is left out.                            *)
(***************************************************************************)
EXTENDS Naturals, FiniteSets

CONSTANTS
    Cmds, Requests,     \* the commands, and what each may be
    NumLbas,            \* blocks of a device
    Chunk,              \* 1 MB rounded to the transfer length: WRITE SAME, FORMAT
    CopyChunk,          \* max_sectors of handle_xcopy
    MaxWriteSame        \* VPD_MAX_WRITE_SAME_LENGTH

Devs == {"d1", "d2"}
Kinds == {"read", "write", "writesame", "wverify", "xcopy", "caw", "format"}
Errors == {"NO_RESOURCE", "HW_ERR", "WR_ERR", "RANGE", "INVALID_CDB", "INVALID_PARAM_LIST",
           "MISCOMPARE", "FRMT_IN_PROGRESS"}
None == "none"

\* A request: its range (of the destination), the value it writes to each
\* block, the value it compares with, source and destination of a copy (the
\* device itself for any other command), and what the checks of its CDB and
\* parameter list say; none of them compares data.
ASSUME BlockAssumption ==
    /\ NumLbas \in Nat \ {0} /\ Chunk \in Nat \ {0} /\ CopyChunk \in Nat \ {0}
    /\ MaxWriteSame \in Nat /\ None \notin Cmds
    /\ \A r \in Requests :
         /\ r.kind \in Kinds /\ {r.lba, r.len, r.val, r.old, r.slba} \subseteq Nat
         /\ {r.src, r.dst} \subseteq Devs /\ "d1" \in {r.src, r.dst}
         /\ (r.kind # "xcopy" => r.dst = "d1")
         /\ r.check \in (Errors \ {"MISCOMPARE"}) \cup {"OK"} /\ (r.kind = "format" => r.val = 0 /\ r.lba = 0)

VARIABLES
    req,        \* what each command is
    st,         \* "new", "lock" (waits for caw_lock), "op", "ran" or "done"
    cs,         \* cmd->cmdstate: the handler call and how far the chain is
    res,        \* the result of the handler call
    answer,     \* the status the command finished with
    disk,       \* the contents of the devices
    tried, failed,      \* history: blocks handed to a write, some call failed
    cawLock,    \* the command that holds rdev->caw_lock
    formatting  \* TCMUR_DEV_FLAG_FORMATTING

vars == <<req, st, cs, res, answer, disk, tried, failed, cawLock, formatting>>
devVars == <<cawLock, formatting>>
media == <<disk, tried, failed>>

Blocks == 0 .. NumLbas - 1
InitDisk == [d \in Devs |-> [b \in Blocks |-> IF d = "d1" THEN b \div 2 ELSE 10 + b]]

Init ==
    /\ req \in [Cmds -> Requests]
    /\ st = [c \in Cmds |-> "new"]
    /\ cs = [c \in Cmds |-> [dir |-> None, pos |-> 0, left |-> 0, step |-> 0, len |-> 0, buf |-> <<>>]]
    /\ res = [c \in Cmds |-> None] /\ answer = [c \in Cmds |-> None]
    /\ disk = InitDisk
    /\ tried = [c \in Cmds |-> {}] /\ failed = [c \in Cmds |-> FALSE]
    /\ cawLock = None /\ formatting = FALSE

Lesser(a, b) == IF a < b THEN a ELSE b

\* async_handle_cmd accepts the call described by s.
Dispatch(c, s) ==
    /\ st' = [st EXCEPT ![c] = "op"] /\ cs' = [cs EXCEPT ![c] = s] /\ UNCHANGED answer

\* aio_command_finish, or the command processor's own answer.
Finish(c, status) ==
    /\ st' = [st EXCEPT ![c] = "done"] /\ answer' = [answer EXCEPT ![c] = status]
    /\ UNCHANGED cs

\* What async_handle_cmd returns when it does not accept a call: no memory for
\* the work item, or the refusal of a handler that has no worker threads.
Refusal == {"NO_RESOURCE", "HW_ERR"}

-----------------------------------------------------------------------------
(* Handler calls.                                                          *)

IsCopy(c) == req[c].kind = "xcopy"
OpDev(c) == IF IsCopy(c) /\ cs[c].dir = "read" THEN req[c].src ELSE req[c].dst
OpLba(c) == (IF IsCopy(c) /\ cs[c].dir = "read" THEN req[c].slba ELSE req[c].lba) + cs[c].pos
OpRange(c) == OpLba(c) .. OpLba(c) + cs[c].len - 1

HandlerRead(c) ==
    /\ st[c] = "op" /\ cs[c].dir = "read" /\ OpRange(c) \subseteq Blocks
    /\ st' = [st EXCEPT ![c] = "ran"] /\ res' = [res EXCEPT ![c] = "OK"]
    /\ cs' = [cs EXCEPT ![c].buf = [k \in 0 .. cs[c].len - 1 |-> disk[OpDev(c)][OpLba(c) + k]]]
    /\ UNCHANGED <<req, answer, media, devVars>>

HandlerWrite(c) ==
    /\ st[c] = "op" /\ cs[c].dir = "write" /\ OpRange(c) \subseteq Blocks
    /\ st' = [st EXCEPT ![c] = "ran"] /\ res' = [res EXCEPT ![c] = "OK"]
    /\ tried' = [tried EXCEPT ![c] = @ \cup ({OpDev(c)} \X OpRange(c))]
    /\ disk' = [disk EXCEPT ![OpDev(c)] = [b \in Blocks |->
                  IF b \notin OpRange(c) THEN @[b]
                  ELSE IF IsCopy(c) THEN cs[c].buf[b - OpLba(c)] ELSE req[c].val]]
    /\ UNCHANGED <<req, cs, answer, failed, devVars>>

\* The call fails, with nothing written; a call past the end of the device does.
HandlerFails(c) ==
    /\ st[c] = "op"
    /\ st' = [st EXCEPT ![c] = "ran"] /\ res' = [res EXCEPT ![c] = "HW_ERR"]
    /\ tried' = [tried EXCEPT ![c] = IF cs[c].dir = "read" THEN @
                                     ELSE @ \cup ({OpDev(c)} \X OpRange(c))]
    /\ failed' = [failed EXCEPT ![c] = TRUE]
    /\ UNCHANGED <<req, cs, answer, disk, devVars>>

-----------------------------------------------------------------------------
(* The command processor.                                                  *)

CheckLbas(start, cnt) == start + cnt <= NumLbas

CheckLbaAndLength(r) ==
    IF r.check # "OK" THEN r.check ELSE IF CheckLbas(r.lba, r.len) THEN "OK" ELSE "RANGE"

HandleWriteSameCheck(r) ==
    IF r.check = "OK" /\ r.len \notin 1 .. MaxWriteSame THEN "INVALID_CDB" ELSE CheckLbaAndLength(r)

\* Twice the blocks are sent, and the length checked is that.
HandleCawCheck(r) == CheckLbaAndLength(r)

\* The devices are found, their block sizes agree, and both ranges exist.  The sums
\* are those of numbers: a copy whose lba + count passes 64 bits, which the code does
\* not test for here, is left out.
XcopyParseParameterList(r) ==
    IF r.check = "OK" /\ ~CheckLbas(r.slba, r.len) THEN "RANGE" ELSE CheckLbaAndLength(r)

Check(r) ==
    CASE r.kind = "writesame" -> HandleWriteSameCheck(r)
      [] r.kind = "caw"       -> HandleCawCheck(r)
      [] r.kind = "xcopy"     -> XcopyParseParameterList(r)
      [] r.kind = "format"    -> "OK"
      [] OTHER                -> CheckLbaAndLength(r)

\* The command processor is not in pthread_mutex_lock(&rdev->caw_lock).
CmdprocFree == \A c \in Cmds : st[c] # "lock"

\* tcmur_generic_handle_cmd while the device is being formatted, and a check
\* that fails.
CmdReject(c) ==
    /\ st[c] = "new" /\ CmdprocFree
    /\ IF formatting THEN Finish(c, "FRMT_IN_PROGRESS")
       ELSE Check(req[c]) # "OK" /\ Finish(c, Check(req[c]))
    /\ UNCHANGED <<req, res, media, devVars>>

\* tcmur_cmd_handler gets to the handler of this kind of command.
Starts(c, kind) ==
    st[c] = "new" /\ CmdprocFree /\ ~formatting /\ req[c].kind = kind /\ Check(req[c]) = "OK"

\* A chain of calls for total blocks, len in the first one.
NewChain(dir, total, len) ==
    [dir |-> dir, pos |-> 0, left |-> total, step |-> len, len |-> len, buf |-> <<>>]

\* The first call is accepted, or it is refused or an allocation before it fails.
FirstCall(c, chain) == Dispatch(c, chain) \/ \E s \in Refusal : Finish(c, s)

\* handle_read, handle_write
ReadWriteStart(c) ==
    /\ \E kind \in {"read", "write"} :
         Starts(c, kind) /\ FirstCall(c, NewChain(kind, req[c].len, req[c].len))
    /\ UNCHANGED <<req, res, media, devVars>>

\* handle_writesame, without the UNMAP bit
WriteSameStart(c) ==
    /\ Starts(c, "writesame")
    /\ FirstCall(c, NewChain("write", req[c].len, Lesser(Chunk, req[c].len)))
    /\ UNCHANGED <<req, res, media, devVars>>

\* handle_write_verify
VerifyStart(c) ==
    /\ Starts(c, "wverify") /\ FirstCall(c, NewChain("write", req[c].len, req[c].len))
    /\ UNCHANGED <<req, res, media, devVars>>

\* handle_xcopy; there is nothing to do for a copy of no blocks.
XcopyStart(c) ==
    /\ Starts(c, "xcopy")
    /\ IF req[c].len = 0 THEN Finish(c, "OK")
       ELSE FirstCall(c, NewChain("read", req[c].len, Lesser(CopyChunk, req[c].len)))
    /\ UNCHANGED <<req, res, media, devVars>>

\* handle_caw allocates, then waits for caw_lock.
CawStart(c) ==
    /\ Starts(c, "caw")
    /\ \/ st' = [st EXCEPT ![c] = "lock"] /\ UNCHANGED <<cs, answer>>
       \/ Finish(c, "NO_RESOURCE")
    /\ UNCHANGED <<req, res, media, devVars>>

CawLocked(c) ==
    /\ st[c] = "lock" /\ cawLock = None
    /\ \/ Dispatch(c, NewChain("read", req[c].len, req[c].len)) /\ cawLock' = c
       \/ \E s \in Refusal : Finish(c, s) /\ UNCHANGED cawLock
    /\ UNCHANGED <<req, res, media, formatting>>

\* handle_format_unit; whatever fails is reported as NO_RESOURCE.
FormatStart(c) ==
    /\ Starts(c, "format")
    /\ \/ Dispatch(c, NewChain("write", NumLbas, Lesser(Chunk, NumLbas))) /\ formatting' = TRUE
       \/ Finish(c, "NO_RESOURCE") /\ UNCHANGED formatting
    /\ UNCHANGED <<req, res, media, cawLock>>

-----------------------------------------------------------------------------
(* Callbacks.                                                              *)

Ran(c, kind, dir) == st[c] = "ran" /\ req[c].kind = kind /\ cs[c].dir = dir

\* handle_generic_cbk
GenericCbk(c) ==
    /\ (Ran(c, "read", "read") \/ Ran(c, "write", "write")) /\ Finish(c, res[c])
    /\ UNCHANGED <<req, res, media, devVars>>

\* Mutant: only the result of the last call counts.
WriteSameCbkIgnores(c) ==
    /\ Ran(c, "writesame", "write")
    /\ LET left == cs[c].left - cs[c].len
       IN  IF left = 0 THEN Finish(c, res[c])
           ELSE \/ Dispatch(c, [cs[c] EXCEPT !.pos = @ + cs[c].len, !.left = left,
                                             !.len = Lesser(left, @)])
                \/ Finish(c, "WR_ERR")
    /\ UNCHANGED <<req, res, media, devVars>>

\* handle_writesame_cbk
WriteSameCbk(c) ==
    /\ Ran(c, "writesame", "write")
    /\ LET left == cs[c].left - cs[c].len
       IN  IF res[c] # "OK" \/ left = 0 THEN Finish(c, res[c])
           ELSE \/ Dispatch(c, [cs[c] EXCEPT !.pos = @ + cs[c].len, !.left = left,
                                             !.len = Lesser(left, @)])
                \/ Finish(c, "WR_ERR")
    /\ UNCHANGED <<req, res, media, devVars>>

\* handle_write_verify_write_cbk
VerifyWriteCbk(c) ==
    /\ Ran(c, "wverify", "write")
    /\ IF res[c] # "OK" THEN Finish(c, res[c])
       ELSE \/ Dispatch(c, [cs[c] EXCEPT !.dir = "read"])
            \/ \E s \in Refusal : Finish(c, s)
    /\ UNCHANGED <<req, res, media, devVars>>

\* tcmu_compare_with_iovec finds no difference.
Equal(buf, val) == \A k \in DOMAIN buf : buf[k] = val

\* handle_write_verify_read_cbk
VerifyReadCbk(c) ==
    /\ Ran(c, "wverify", "read")
    /\ Finish(c, IF res[c] # "OK" THEN res[c]
                 ELSE IF Equal(cs[c].buf, req[c].val) THEN "OK" ELSE "MISCOMPARE")
    /\ UNCHANGED <<req, res, media, devVars>>

\* handle_xcopy_read_cbk
XcopyReadCbk(c) ==
    /\ Ran(c, "xcopy", "read")
    /\ IF res[c] # "OK" THEN Finish(c, res[c])
       ELSE \/ Dispatch(c, [cs[c] EXCEPT !.dir = "write"])
            \/ \E s \in Refusal : Finish(c, s)
    /\ UNCHANGED <<req, res, media, devVars>>

\* handle_xcopy_write_cbk: copy_lbas shrinks for the last call, iov_len, which
\* the calls use, does not.
XcopyWriteCbk(c) ==
    /\ Ran(c, "xcopy", "write")
    /\ LET left == cs[c].left - cs[c].step
       IN  IF res[c] # "OK" \/ left = 0 THEN Finish(c, res[c])
           ELSE \/ Dispatch(c, [cs[c] EXCEPT !.dir = "read", !.pos = @ + cs[c].step, !.left = left,
                                             !.step = Lesser(left, @)])
                \/ \E s \in Refusal : Finish(c, s)
    /\ UNCHANGED <<req, res, media, devVars>>

\* Mutant: caw_lock is let go before the write.
CawReadCbkUnlocks(c) ==
    /\ Ran(c, "caw", "read") /\ cawLock' = None
    /\ IF res[c] # "OK" THEN Finish(c, res[c])
       ELSE IF ~Equal(cs[c].buf, req[c].old) THEN Finish(c, "MISCOMPARE")
       ELSE \/ Dispatch(c, [cs[c] EXCEPT !.dir = "write"])
            \/ \E s \in Refusal : Finish(c, s)
    /\ UNCHANGED <<req, res, media, formatting>>

\* handle_caw_read_cbk: the lock is kept for the write, released on every error.
CawReadCbk(c) ==
    /\ Ran(c, "caw", "read")
    /\ \/ res[c] # "OK" /\ Finish(c, res[c]) /\ cawLock' = None
       \/ res[c] = "OK" /\ ~Equal(cs[c].buf, req[c].old) /\ Finish(c, "MISCOMPARE")
          /\ cawLock' = None
       \/ res[c] = "OK" /\ Equal(cs[c].buf, req[c].old)
          /\ \/ Dispatch(c, [cs[c] EXCEPT !.dir = "write"]) /\ UNCHANGED cawLock
             \/ \E s \in Refusal : Finish(c, s) /\ cawLock' = None
    /\ UNCHANGED <<req, res, media, formatting>>

\* handle_caw_write_cbk
CawWriteCbk(c) ==
    /\ Ran(c, "caw", "write") /\ Finish(c, res[c]) /\ cawLock' = None
    /\ UNCHANGED <<req, res, media, formatting>>

\* Mutant: FORMATTING stays set when the next call cannot be made.
FormatCbkKeepsFlag(c) ==
    /\ Ran(c, "format", "write")
    /\ LET pos == cs[c].pos + cs[c].len
       IN  IF pos = NumLbas THEN Finish(c, res[c]) /\ formatting' = FALSE
           ELSE \/ Dispatch(c, [cs[c] EXCEPT !.pos = pos, !.len = Lesser(NumLbas - pos, @)])
                   /\ UNCHANGED formatting
                \/ \E s \in {"NO_RESOURCE", "WR_ERR"} : Finish(c, s) /\ UNCHANGED formatting
    /\ UNCHANGED <<req, res, media, cawLock>>

\* Mutant: a failed call is tried again.
FormatCbkRetries(c) ==
    /\ Ran(c, "format", "write")
    /\ IF res[c] = "OK" /\ cs[c].pos + cs[c].len = NumLbas
       THEN Finish(c, res[c]) /\ formatting' = FALSE
       ELSE LET pos == IF res[c] = "OK" THEN cs[c].pos + cs[c].len ELSE cs[c].pos
            IN  /\ Dispatch(c, [cs[c] EXCEPT !.pos = pos, !.len = Lesser(NumLbas - pos, @)])
                /\ UNCHANGED formatting
    /\ UNCHANGED <<req, res, media, cawLock>>

\* handle_format_unit_cbk: the result of a call is looked at after the last
\* one only.
FormatCbk(c) ==
    /\ Ran(c, "format", "write")
    /\ LET pos == cs[c].pos + cs[c].len
       IN  IF pos = NumLbas THEN Finish(c, res[c]) /\ formatting' = FALSE
           ELSE \/ Dispatch(c, [cs[c] EXCEPT !.pos = pos, !.len = Lesser(NumLbas - pos, @)])
                   /\ UNCHANGED formatting
                \/ \E s \in {"NO_RESOURCE", "WR_ERR"} : Finish(c, s) /\ formatting' = FALSE
    /\ UNCHANGED <<req, res, media, cawLock>>

AllDone == (\A c \in Cmds : st[c] = "done") /\ UNCHANGED vars

-----------------------------------------------------------------------------
CmdStep(c) ==
    \/ CmdReject(c) \/ ReadWriteStart(c) \/ WriteSameStart(c) \/ VerifyStart(c)
    \/ XcopyStart(c) \/ CawStart(c) \/ CawLocked(c) \/ FormatStart(c)
    \/ HandlerRead(c) \/ HandlerWrite(c) \/ HandlerFails(c)
    \/ GenericCbk(c) \/ WriteSameCbk(c) \/ VerifyWriteCbk(c) \/ VerifyReadCbk(c)
    \/ XcopyReadCbk(c) \/ XcopyWriteCbk(c) \/ CawReadCbk(c) \/ CawWriteCbk(c) \/ FormatCbk(c)

Next == (\E c \in Cmds : CmdStep(c)) \/ AllDone

Spec == Init /\ [][Next]_vars

\* The command processor comes to every command and the handler completes
\* every call.
FairSpec == Spec /\ \A c \in Cmds : WF_vars(CmdStep(c))

-----------------------------------------------------------------------------
(* Properties.                                                             *)

TypeOK ==
    /\ req \in [Cmds -> Requests]
    /\ st \in [Cmds -> {"new", "lock", "op", "ran", "done"}]
    /\ \A c \in Cmds :
         /\ cs[c].dir \in {None, "read", "write"}
         /\ {cs[c].pos, cs[c].left, cs[c].step, cs[c].len} \subseteq Nat
         /\ tried[c] \subseteq Devs \X Nat
    /\ res \in [Cmds -> Errors \cup {"OK", None}]
    /\ answer \in [Cmds -> Errors \cup {"OK", None}]
    /\ failed \in [Cmds -> BOOLEAN]
    /\ cawLock \in Cmds \cup {None} /\ formatting \in BOOLEAN

\* The blocks a command may write.
Intended(c) ==
    LET r == req[c]
    IN  CASE r.kind = "read"   -> {}
          [] r.kind = "format" -> {"d1"} \X Blocks
          [] OTHER             -> {r.dst} \X (r.lba .. r.lba + r.len - 1)

\* A copy all of whose handler calls are equally long.
WholeChunks(c) == req[c].len <= CopyChunk \/ req[c].len % CopyChunk = 0

\* A copy that writes no block before it has read it: to another device, in one
\* call, apart from its source or below it.
ReadsFirst(c) ==
    LET r == req[c]
    IN  r.src # r.dst \/ r.len <= CopyChunk \/ r.lba <= r.slba \/ r.slba + r.len <= r.lba

StaysInRange(c) == tried[c] \subseteq Intended(c)

\* However the chain of calls goes on and wherever it breaks off, a command
\* hands no block to the handler's write but those it names, the shorter last
\* call of WRITE SAME and FORMAT UNIT included.
WritesOnlyIntended == \A c \in Cmds : (IsCopy(c) => WholeChunks(c)) => StaysInRange(c)

\* "Copying %llu sectors from src (lba:%llu) to dst (lba:%llu)"
\* (xcopy_read_work_fn, which prints copy_lbas): a copy writes the blocks its
\* segment descriptor names.
CopiesWhatItSays == \A c \in Cmds : IsCopy(c) => StaysInRange(c)

\* What a command means for the devices.
Effect(c) ==
    LET r == req[c]
    IN  [d \in Devs |-> [b \in Blocks |->
            IF <<d, b>> \notin Intended(c) THEN InitDisk[d][b]
            ELSE CASE r.kind = "xcopy" -> InitDisk[r.src][b - r.lba + r.slba]
                   [] OTHER -> r.val]]

\* A command answered with GOOD has had its whole effect and no other, and a
\* COMPARE AND WRITE that found a difference none, when no other command wrote:
\* the chain of calls computes what the one-line definition Effect says.
\* (FORMAT UNIT overlooks a failed call that is not its last.)
GoodMeansEffect ==
    \A c \in Cmds :
        /\ answer[c] # None
        /\ \A d \in Cmds \ {c} : tried[d] = {}
        /\ IsCopy(c) => WholeChunks(c) /\ ReadsFirst(c)
        /\ req[c].kind = "format" => ~failed[c]
        => /\ answer[c] = "OK" => disk = Effect(c)
           /\ answer[c] = "MISCOMPARE" => req[c].kind = "caw" /\ disk = InitDisk

\* A command writes no block it does not name, and when it is answered with GOOD
\* it has written them all, with what it says, apart from the copies and formats
\* that the two parts except.
DoesWhatItSays == TypeOK /\ WritesOnlyIntended /\ GoodMeansEffect

\* caw_lock makes COMPARE AND WRITE atomic among its own kind: of several that
\* expect the same old contents and change them, one succeeds.  (One of no
\* blocks changes nothing.)
OneCawWins ==
    (\A c, d \in Cmds :
        req[c].kind = "caw" /\ req[c].lba = req[d].lba /\ req[c].old = req[d].old
        /\ req[c].val # req[c].old /\ req[c].len > 0)
    => Cardinality({c \in Cmds : answer[c] = "OK"}) <= 1

\* FORMATTING, which refuses every other command, is set exactly while a
\* format is under way: no error path leaves it behind.
FormattingExact ==
    formatting <=> \E c \in Cmds : req[c].kind = "format" /\ st[c] \in {"op", "ran"}

\* Every command is answered: chains of calls end, whatever fails; caw_lock is
\* released, and the command processor that waits for it goes on.
EveryCommandAnswered == \A c \in Cmds : <>(answer[c] # None)

=============================================================================
