------------------------- MODULE BlockCommandsProofs ------------------------
(***************************************************************************)
(* Proofs about BlockCommands, for any number of commands, any requests    *)
(* and any sizes: FORMATTING is exact, one of several competing COMPARE    *)
(* AND WRITE commands wins, and a command that is answered with GOOD has   *)
(* written what it says and nothing else.                                  *)
(***************************************************************************)
EXTENDS BlockCommands, FiniteSetTheorems, TLAPS

\* What the handler reads, and the state of a chain of calls.
Buf(n) == [0 .. n - 1 -> Nat]
Bufs == UNION {Buf(n) : n \in Nat}
Chains == [dir : {None, "read", "write"}, pos : Nat, left : Nat, step : Nat, len : Nat, buf : Bufs]

Running(c) == st[c] \in {"op", "ran"}
ReadDone(c) == st[c] = "ran" /\ cs[c].dir = "read" /\ res[c] = "OK"

Typed ==
    /\ TypeOK /\ cs \in [Cmds -> Chains] /\ disk \in [Devs -> [Blocks -> Nat]]
    /\ tried \in [Cmds -> SUBSET (Devs \X Nat)]

\* A call s of the command's chain lies in what is left of it.
Fits(c, s) ==
    /\ s.dir \in {"read", "write"}
    /\ req[c].kind # "format" => req[c].lba + req[c].len <= NumLbas
    /\ req[c].kind \in {"read", "write", "wverify", "caw"} => s.pos = 0 /\ s.len = req[c].len
    /\ req[c].kind = "read" => s.dir = "read"
    /\ req[c].kind \in {"write", "writesame", "format"} => s.dir = "write"
    /\ req[c].kind = "writesame" => s.pos + s.left = req[c].len /\ s.len <= s.left
    /\ req[c].kind = "format" => s.pos + s.len <= NumLbas
    /\ req[c].kind = "xcopy" =>
         /\ s.pos + s.left = req[c].len /\ s.step <= s.left
         /\ s.len = Lesser(CopyChunk, req[c].len) /\ s.len > 0
         /\ WholeChunks(c) => s.step = s.len /\ s.left > 0 /\ s.left % s.len = 0

\* A command that waits for caw_lock is a COMPARE AND WRITE of blocks that exist.
Waits(c) == st[c] = "lock" => req[c].kind = "caw" /\ req[c].lba + req[c].len <= NumLbas

Chained(c) ==
    Running(c) =>
      /\ Fits(c, cs[c]) /\ (st[c] = "ran" => res[c] \in {"OK", "HW_ERR"})
      /\ ReadDone(c) \/ (IsCopy(c) /\ cs[c].dir = "write") => cs[c].buf \in Buf(cs[c].len)

\* The blocks that were handed to the handler's write before the call s, and
\* those that were handed to it by now.
Before(c, s) == IF req[c].kind = "wverify" /\ s.dir = "read" THEN req[c].len ELSE s.pos
Wrote(c) == IF st[c] = "ran" /\ cs[c].dir = "write" THEN cs[c].pos + cs[c].len ELSE Before(c, cs[c])
Span(c, n) == {req[c].dst} \X (req[c].lba .. req[c].lba + n - 1)

Whole(c) == IsCopy(c) => WholeChunks(c)
Tries(c) ==
    /\ st[c] \in {"new", "lock"} => tried[c] = {} /\ ~failed[c]
    /\ Whole(c) /\ Running(c) => tried[c] = Span(c, Wrote(c))
    /\ Whole(c) => tried[c] \subseteq Intended(c)
    /\ Running(c) /\ failed[c] /\ req[c].kind # "format" => st[c] = "ran" /\ res[c] # "OK"

\* No other command has written.
Sole(c) == \A d \in Cmds : d # c => tried[d] = {}

\* What an answer says of the blocks that were written.
AnswerSays(c, a) ==
    /\ a = "OK" /\ Whole(c) => tried[c] = Intended(c)
    /\ a \in {"OK", "MISCOMPARE"} => req[c].kind = "format" \/ ~failed[c]
    /\ a = "MISCOMPARE" =>
         (req[c].kind = "caw" /\ tried[c] = {}) \/ (req[c].kind = "wverify" /\ ~Sole(c))
Answers(c) == (st[c] # "done" => answer[c] = None) /\ AnswerSays(c, answer[c])

\* What a block of the command is to hold, and what the disk then looks like.
Target(c, b) == IF IsCopy(c) THEN InitDisk[req[c].src][b - req[c].lba + req[c].slba] ELSE req[c].val
Apt(c) == IsCopy(c) => WholeChunks(c) /\ ReadsFirst(c)
Written(c) ==
    Sole(c) /\ ~failed[c] /\ Apt(c) =>
      \A d \in Devs, b \in Blocks :
        disk[d][b] = IF <<d, b>> \in tried[c] THEN Target(c, b) ELSE InitDisk[d][b]

\* What was read is what will be written, or what was written before.
HoldsSource(c, s) ==
    \A k \in 0 .. s.len - 1 : s.buf[k] = InitDisk[req[c].src][req[c].slba + s.pos + k]
Buffered(c) ==
    Running(c) /\ Sole(c) /\ ~failed[c] /\ Apt(c) =>
      /\ IsCopy(c) /\ (cs[c].dir = "write" \/ ReadDone(c)) => HoldsSource(c, cs[c])
      /\ req[c].kind = "wverify" /\ ReadDone(c) => Equal(cs[c].buf, req[c].val)

CmdInv(c) == Waits(c) /\ Chained(c) /\ Tries(c) /\ Answers(c) /\ Written(c) /\ Buffered(c)
BlockInv == Typed /\ \A c \in Cmds : CmdInv(c)

-----------------------------------------------------------------------------
(* Facts about the operators.                                              *)

\* What the assumption says of a command's request.
LEMMA RequestKnown ==
  ASSUME req \in [Cmds -> Requests], NEW c \in Cmds
  PROVE  /\ req[c].kind \in Kinds /\ req[c].lba \in Nat /\ req[c].len \in Nat /\ req[c].val \in Nat
         /\ req[c].old \in Nat /\ req[c].slba \in Nat /\ req[c].src \in Devs /\ req[c].dst \in Devs
         /\ req[c].kind # "xcopy" => req[c].dst = "d1"
         /\ req[c].check \in (Errors \ {"MISCOMPARE"}) \cup {"OK"}
         /\ req[c].kind = "format" => req[c].val = 0 /\ req[c].lba = 0
BY BlockAssumption

\* A check refuses with an error that is no miscompare; what passes lies on the
\* device.
LEMMA CheckSays ==
  ASSUME req \in [Cmds -> Requests], NEW c \in Cmds
  PROVE  /\ Check(req[c]) # "OK" => Check(req[c]) \in Errors \ {"MISCOMPARE"}
         /\ Check(req[c]) = "OK" /\ req[c].kind # "format" => req[c].lba + req[c].len <= NumLbas
<1>1. /\ req[c].kind \in Kinds /\ req[c].lba \in Nat /\ req[c].len \in Nat
      /\ req[c].check \in (Errors \ {"MISCOMPARE"}) \cup {"OK"}
  BY RequestKnown
<1>2. /\ CheckLbaAndLength(req[c]) # "OK" => CheckLbaAndLength(req[c]) \in Errors \ {"MISCOMPARE"}
      /\ CheckLbaAndLength(req[c]) = "OK" => req[c].lba + req[c].len <= NumLbas
  BY <1>1 DEF CheckLbaAndLength, CheckLbas, Errors
<1>3. \/ Check(req[c]) = CheckLbaAndLength(req[c])
      \/ req[c].kind \in {"xcopy", "writesame"} /\ Check(req[c]) \in {"RANGE", "INVALID_CDB"}
      \/ req[c].kind = "format" /\ Check(req[c]) = "OK"
  BY <1>1 DEF Check, HandleWriteSameCheck, HandleCawCheck, XcopyParseParameterList, Kinds
<1>4. QED
  BY <1>2, <1>3 DEF Errors

\* The contents of the devices at the start.
LEMMA InitDiskType == InitDisk \in [Devs -> [Blocks -> Nat]]
<1>1. \A b \in Blocks : b \div 2 \in Nat /\ 10 + b \in Nat
  BY BlockAssumption DEF Blocks
<1>2. QED
  BY <1>1 DEF InitDisk

\* The empty buffer of a new chain.
LEMMA NoBuf == <<>> \in Bufs
<1>1. <<>> \in Buf(0)
  BY DEF Buf
<1>2. QED
  BY <1>1 DEF Bufs

\* A new chain.
LEMMA NewChainType ==
  ASSUME NEW dir \in {"read", "write"}, NEW total \in Nat, NEW len \in Nat
  PROVE  /\ NewChain(dir, total, len) \in Chains
         /\ NewChain(dir, total, len).dir = dir /\ NewChain(dir, total, len).pos = 0
         /\ NewChain(dir, total, len).left = total /\ NewChain(dir, total, len).step = len
         /\ NewChain(dir, total, len).len = len
BY NoBuf DEF NewChain, Chains

\* No blocks are none.
LEMMA EmptySpan ==
  ASSUME req \in [Cmds -> Requests], NEW c \in Cmds
  PROVE  Span(c, 0) = {}
<1>1. req[c].lba .. req[c].lba + 0 - 1 = {}
  BY RequestKnown
<1>2. QED
  BY <1>1 DEF Span

\* A part of a command's blocks is intended.
LEMMA SpanIntended ==
  ASSUME req \in [Cmds -> Requests], NEW c \in Cmds, NEW n \in Nat,
         n <= IF req[c].kind = "format" THEN NumLbas ELSE req[c].len,
         req[c].kind = "read" => n = 0
  PROVE  Span(c, n) \subseteq Intended(c)
<1>1. /\ req[c].kind \in Kinds /\ req[c].lba \in Nat /\ req[c].len \in Nat
      /\ req[c].kind = "format" => req[c].lba = 0 /\ req[c].dst = "d1"
  BY RequestKnown
<1>2. CASE req[c].kind = "read"
  BY <1>2, EmptySpan DEF Intended
<1>3. CASE req[c].kind = "format"
  <2>1. req[c].lba .. req[c].lba + n - 1 \subseteq Blocks
    BY <1>1, <1>3, BlockAssumption DEF Blocks
  <2>2. Intended(c) = {"d1"} \X Blocks
    BY <1>3 DEF Intended
  <2>3. QED
    BY <1>1, <1>3, <2>1, <2>2 DEF Span
<1>4. CASE req[c].kind \notin {"read", "format"}
  <2>1. req[c].lba .. req[c].lba + n - 1 \subseteq req[c].lba .. req[c].lba + req[c].len - 1
    BY <1>1, <1>4
  <2>2. Intended(c) = {req[c].dst} \X (req[c].lba .. req[c].lba + req[c].len - 1)
    BY <1>4 DEF Intended
  <2>3. QED
    BY <2>1, <2>2 DEF Span
<1>5. QED
  BY <1>2, <1>3, <1>4

\* All of a command's blocks.
LEMMA FullSpan ==
  ASSUME req \in [Cmds -> Requests], NEW c \in Cmds, req[c].kind # "read"
  PROVE  Intended(c) = Span(c, IF req[c].kind = "format" THEN NumLbas ELSE req[c].len)
<1>1. CASE req[c].kind = "format"
  <2>1. req[c].lba = 0 /\ req[c].dst = "d1"
    BY <1>1, RequestKnown
  <2>2. 0 .. 0 + NumLbas - 1 = Blocks
    BY BlockAssumption DEF Blocks
  <2>3. QED
    BY <1>1, <2>1, <2>2 DEF Intended, Span
<1>2. CASE req[c].kind # "format"
  BY <1>2 DEF Intended, Span
<1>3. QED
  BY <1>1, <1>2

\* What a multiple of a call's length leaves behind it is one too, and not
\* shorter than the call.
LEMMA MultipleLeft ==
  ASSUME NEW a \in Nat, NEW n \in Nat, n > 0, a > 0, a % n = 0
  PROVE  a >= n /\ (a - n) % n = 0
<1>1. a = (a \div n) * n + (a % n) /\ a \div n \in Nat
  BY SMT
<1>2. PICK m \in Nat : a = m * n
  BY <1>1
<1>3. m # 0
  BY <1>2
<1>4. a - n = n * (m - 1)
  BY <1>2, <1>3
<1>5. a >= n
  BY <1>2, <1>3
<1>6. (n * (m - 1)) % n = 0
  BY <1>3
<1>7. QED
  BY <1>4, <1>5, <1>6

-----------------------------------------------------------------------------
(* What the steps of a command leave alone.                                *)

\* A step of c: the other commands stay as they are, and the devices change only
\* when c has written.
StepOf(c) ==
    /\ req' = req /\ tried[c] \subseteq tried'[c] /\ (disk' = disk \/ tried'[c] # {})
    /\ \A d \in Cmds : d # c =>
         /\ st'[d] = st[d] /\ cs'[d] = cs[d] /\ res'[d] = res[d] /\ answer'[d] = answer[d]
         /\ tried'[d] = tried[d] /\ failed'[d] = failed[d]

\* What holds of the other commands holds after the step.
LEMMA OthersKept ==
  ASSUME BlockInv, NEW c \in Cmds, StepOf(c), NEW d \in Cmds, d # c
  PROVE  CmdInv(d)'
<1>1. /\ req' = req /\ st'[d] = st[d] /\ cs'[d] = cs[d] /\ res'[d] = res[d]
      /\ answer'[d] = answer[d] /\ tried'[d] = tried[d] /\ failed'[d] = failed[d]
  BY DEF StepOf
<1>2. CmdInv(d)
  BY DEF BlockInv
<1>3. Sole(d)' => Sole(d) /\ disk' = disk
  <2>1. Sole(d)' => tried'[c] = {}
    BY DEF Sole
  <2>2. \A e \in Cmds : tried[e] \subseteq tried'[e]
    BY DEF StepOf
  <2>3. QED
    BY <2>1, <2>2 DEF StepOf, Sole
<1>4. Waits(d)' /\ Chained(d)'
  <2>1. (Fits(d, cs[d]) <=> Fits(d, cs[d])')
    BY <1>1 DEF Fits, WholeChunks
  <2>2. QED
    BY <1>1, <1>2, <2>1 DEF CmdInv, Waits, Chained, Running, ReadDone, IsCopy
<1>5. (Whole(d)' <=> Whole(d)) /\ (Apt(d)' <=> Apt(d)) /\ Intended(d)' = Intended(d)
  BY <1>1 DEF Whole, Apt, IsCopy, WholeChunks, ReadsFirst, Intended
<1>6. Tries(d)'
  <2>1. Span(d, Wrote(d))' = Span(d, Wrote(d))
    BY <1>1 DEF Span, Wrote, Before
  <2>2. QED
    BY <1>1, <1>2, <1>5, <2>1 DEF CmdInv, Tries, Running
<1>7. Answers(d)'
  BY <1>1, <1>2, <1>3, <1>5 DEF CmdInv, Answers, AnswerSays
<1>8. Written(d)'
  <2>1. \A b : Target(d, b)' = Target(d, b)
    BY <1>1 DEF Target, IsCopy
  <2>2. QED
    BY <1>1, <1>2, <1>3, <1>5, <2>1 DEF CmdInv, Written
<1>9. Buffered(d)'
  <2>1. HoldsSource(d, cs[d])' <=> HoldsSource(d, cs[d])
    BY <1>1 DEF HoldsSource
  <2>2. QED
    BY <1>1, <1>2, <1>3, <1>5, <2>1 DEF CmdInv, Buffered, Running, ReadDone, IsCopy
<1>10. QED
  BY <1>4, <1>6, <1>7, <1>8, <1>9 DEF CmdInv

\* A step that calls no handler keeps what is known of the devices.
LEMMA DisksKept ==
  ASSUME BlockInv, NEW c \in Cmds, UNCHANGED <<req, disk, tried, failed>>
  PROVE  /\ Written(c)' /\ (Sole(c)' <=> Sole(c)) /\ (Whole(c)' <=> Whole(c))
         /\ (Apt(c)' <=> Apt(c)) /\ (IsCopy(c)' <=> IsCopy(c)) /\ Intended(c)' = Intended(c)
<1>1. /\ (Sole(c)' <=> Sole(c)) /\ (Whole(c)' <=> Whole(c)) /\ (Apt(c)' <=> Apt(c))
      /\ (IsCopy(c)' <=> IsCopy(c)) /\ Intended(c)' = Intended(c)
  BY DEF Sole, Whole, Apt, IsCopy, WholeChunks, ReadsFirst, Intended
<1>2. Written(c)
  BY DEF BlockInv, CmdInv
<1>3. \A b : Target(c, b)' = Target(c, b)
  BY DEF Target, IsCopy
<1>4. Written(c)'
  BY <1>1, <1>2, <1>3 DEF Written
<1>5. QED
  BY <1>1, <1>4

\* The command is answered with a, and a says what is true of it.
LEMMA FinishStep ==
  ASSUME BlockInv, NEW c \in Cmds, NEW a \in Errors \cup {"OK"}, Finish(c, a), AnswerSays(c, a),
         UNCHANGED <<req, res, media>>, cawLock' \in Cmds \cup {None}, formatting' \in BOOLEAN
  PROVE  BlockInv'
<1>0. Typed /\ CmdInv(c)
  BY DEF BlockInv
<1>1. /\ req' = req /\ res' = res /\ disk' = disk /\ tried' = tried /\ failed' = failed /\ cs' = cs
      /\ st' = [st EXCEPT ![c] = "done"] /\ answer' = [answer EXCEPT ![c] = a]
  BY DEF Finish, media
<1>2. st'[c] = "done" /\ answer'[c] = a
  BY <1>0, <1>1 DEF Typed, TypeOK
<1>3. Typed'
  BY <1>0, <1>1 DEF Typed, TypeOK
<1>4. \A d \in Cmds : d # c => CmdInv(d)'
  <2>1. StepOf(c)
    BY <1>0, <1>1 DEF StepOf, Typed, TypeOK
  <2>2. QED
    BY <2>1, OthersKept
<1>5. CmdInv(c)'
  <2>1. /\ Written(c)' /\ (Sole(c)' <=> Sole(c)) /\ (Whole(c)' <=> Whole(c))
        /\ Intended(c)' = Intended(c)
    BY <1>1, DisksKept
  <2>2. ~Running(c)' /\ Waits(c)' /\ Chained(c)' /\ Buffered(c)'
    BY <1>2 DEF Running, Waits, Chained, Buffered
  <2>3. Tries(c)'
    BY <1>0, <1>1, <1>2, <2>1, <2>2 DEF CmdInv, Tries
  <2>4. Answers(c)'
    BY <1>1, <1>2, <2>1 DEF Answers, AnswerSays
  <2>5. QED
    BY <2>1, <2>2, <2>3, <2>4 DEF CmdInv
<1>6. QED
  BY <1>3, <1>4, <1>5 DEF BlockInv

\* The command is answered with an error that is no miscompare.
LEMMA ErrorStep ==
  ASSUME BlockInv, NEW c \in Cmds, NEW a \in Errors \ {"MISCOMPARE"}, Finish(c, a),
         UNCHANGED <<req, res, media>>, cawLock' \in Cmds \cup {None}, formatting' \in BOOLEAN
  PROVE  BlockInv'
<1>1. a # "OK" /\ a # "MISCOMPARE"
  BY DEF Errors
<1>2. AnswerSays(c, a)
  BY <1>1 DEF AnswerSays
<1>3. QED
  BY <1>2, FinishStep

\* The next call of the command, s, is accepted: it lies in what is left, and
\* what was written before it is where it begins.
LEMMA DispatchStep ==
  ASSUME BlockInv, NEW c \in Cmds, NEW s \in Chains, Dispatch(c, s), Fits(c, s),
         Whole(c) => tried[c] = Span(c, Before(c, s)),
         req[c].kind # "format" => ~failed[c], answer[c] = None,
         IsCopy(c) /\ s.dir = "write" =>
            s.buf \in Buf(s.len) /\ (Sole(c) /\ ~failed[c] /\ Apt(c) => HoldsSource(c, s)),
         UNCHANGED <<req, res, media>>, cawLock' \in Cmds \cup {None}, formatting' \in BOOLEAN
  PROVE  BlockInv'
<1>0. Typed /\ CmdInv(c)
  BY DEF BlockInv
<1>1. /\ req' = req /\ res' = res /\ disk' = disk /\ tried' = tried /\ failed' = failed
      /\ answer' = answer /\ st' = [st EXCEPT ![c] = "op"] /\ cs' = [cs EXCEPT ![c] = s]
  BY DEF Dispatch, media
<1>2. st'[c] = "op" /\ cs'[c] = s
  BY <1>0, <1>1 DEF Typed, TypeOK
<1>3. Typed'
  <2>1. cs' \in [Cmds -> Chains] /\ st' \in [Cmds -> {"new", "lock", "op", "ran", "done"}]
    BY <1>0, <1>1 DEF Typed, TypeOK
  <2>2. \A d \in Cmds : /\ cs'[d].dir \in {None, "read", "write"}
                        /\ {cs'[d].pos, cs'[d].left, cs'[d].step, cs'[d].len} \subseteq Nat
    BY <2>1 DEF Chains
  <2>3. QED
    BY <1>0, <1>1, <2>1, <2>2 DEF Typed, TypeOK
<1>4. \A d \in Cmds : d # c => CmdInv(d)'
  <2>1. StepOf(c)
    BY <1>0, <1>1 DEF StepOf, Typed, TypeOK
  <2>2. QED
    BY <2>1, OthersKept
<1>5. CmdInv(c)'
  <2>1. /\ Written(c)' /\ (Sole(c)' <=> Sole(c)) /\ (Whole(c)' <=> Whole(c))
        /\ (Apt(c)' <=> Apt(c)) /\ (IsCopy(c)' <=> IsCopy(c)) /\ Intended(c)' = Intended(c)
    BY <1>1, DisksKept
  <2>2. Waits(c)' /\ ~ReadDone(c)' /\ Running(c)'
    BY <1>2 DEF Waits, ReadDone, Running
  <2>3. Chained(c)'
    <3>1. Fits(c, cs[c])'
      BY <1>1, <1>2 DEF Fits, WholeChunks
    <3>2. QED
      BY <1>2, <2>1, <2>2, <3>1 DEF Chained
  <2>4. Tries(c)'
    <3>1. Span(c, Wrote(c))' = Span(c, Before(c, s))
      BY <1>1, <1>2 DEF Span, Wrote, Before
    <3>2. QED
      BY <1>0, <1>1, <1>2, <2>1, <3>1 DEF CmdInv, Tries
  <2>5. Answers(c)'
    BY <1>1 DEF Answers, AnswerSays, None
  <2>6. Buffered(c)'
    <3>1. HoldsSource(c, cs[c])' <=> HoldsSource(c, s)
      BY <1>1, <1>2 DEF HoldsSource
    <3>2. QED
      BY <1>1, <1>2, <2>1, <2>2, <3>1 DEF Buffered
  <2>7. QED
    BY <2>1, <2>2, <2>3, <2>4, <2>5, <2>6 DEF CmdInv
<1>6. QED
  BY <1>3, <1>4, <1>5 DEF BlockInv

-----------------------------------------------------------------------------
(* The command processor's steps.                                          *)

\* What Typed says of one command and of the device.
LEMMA TypesOf ==
  ASSUME BlockInv, NEW c \in Cmds
  PROVE  /\ req \in [Cmds -> Requests] /\ cs[c] \in Chains
         /\ cawLock \in Cmds \cup {None} /\ formatting \in BOOLEAN
BY DEF BlockInv, Typed, TypeOK

\* The answers a refused call gives are errors, and no miscompare.
LEMMA RefusalType == Refusal \subseteq Errors \ {"MISCOMPARE"}
BY DEF Refusal, Errors

\* A command of the given kind that starts has written nothing.
LEMMA StartKnown ==
  ASSUME BlockInv, NEW c \in Cmds, NEW kind, Starts(c, kind)
  PROVE  /\ req[c].kind = kind /\ tried[c] = {} /\ ~failed[c] /\ answer[c] = None /\ st[c] = "new"
         /\ kind # "format" => req[c].lba + req[c].len <= NumLbas
<1>1. CmdInv(c) /\ req \in [Cmds -> Requests]
  BY TypesOf DEF BlockInv
<1>2. st[c] = "new" /\ req[c].kind = kind /\ Check(req[c]) = "OK"
  BY DEF Starts
<1>3. tried[c] = {} /\ ~failed[c] /\ answer[c] = None
  BY <1>1, <1>2 DEF CmdInv, Tries, Answers
<1>4. QED
  BY <1>1, <1>2, <1>3, CheckSays

\* The lesser of two numbers.
LEMMA LesserType ==
  ASSUME NEW a \in Nat, NEW b \in Nat
  PROVE  /\ Lesser(a, b) \in Nat /\ Lesser(a, b) <= a /\ Lesser(a, b) <= b
         /\ (a > 0 /\ b > 0 => Lesser(a, b) > 0)
BY DEF Lesser

\* The first call of a chain is made or refused.
LEMMA FirstCallStep ==
  ASSUME BlockInv, NEW c \in Cmds, NEW dir \in {"read", "write"}, NEW total \in Nat, NEW len \in Nat,
         FirstCall(c, NewChain(dir, total, len)), Fits(c, NewChain(dir, total, len)),
         Starts(c, req[c].kind), req[c].kind = "wverify" => dir = "write", IsCopy(c) => dir = "read",
         UNCHANGED <<req, res, media, devVars>>
  PROVE  BlockInv'
<1> DEFINE s == NewChain(dir, total, len)
<1>0. /\ req \in [Cmds -> Requests] /\ cawLock' \in Cmds \cup {None} /\ formatting' \in BOOLEAN
  BY TypesOf DEF devVars
<1>1. s \in Chains /\ s.dir = dir /\ s.pos = 0
  BY NewChainType
<1>2. tried[c] = {} /\ ~failed[c] /\ answer[c] = None
  BY StartKnown
<1>3. Span(c, Before(c, s)) = {}
  BY <1>0, <1>1, EmptySpan DEF Before
<1>4. CASE Dispatch(c, s)
  <2>1. Fits(c, s)
    OBVIOUS
  <2> HIDE DEF s
  <2>2. ~(IsCopy(c) /\ s.dir = "write")
    BY <1>1
  <2>3. QED
    BY <1>0, <1>1, <1>2, <1>3, <1>4, <2>1, <2>2, DispatchStep
<1>5. CASE \E a \in Refusal : Finish(c, a)
  BY <1>0, <1>5, RefusalType, ErrorStep
<1>6. QED
  BY <1>4, <1>5 DEF FirstCall

\* A command that is refused has written nothing.
LEMMA CmdRejectStep ==
  ASSUME BlockInv, NEW c \in Cmds, CmdReject(c)
  PROVE  BlockInv'
<1>1. /\ req \in [Cmds -> Requests] /\ cawLock' \in Cmds \cup {None} /\ formatting' \in BOOLEAN
      /\ UNCHANGED <<req, res, media>>
  BY TypesOf DEF CmdReject, devVars
<1>2. PICK a \in Errors \ {"MISCOMPARE"} : Finish(c, a)
  <2>1. CASE formatting
    BY <2>1 DEF CmdReject, Errors
  <2>2. CASE ~formatting
    BY <1>1, <2>2, CheckSays DEF CmdReject
  <2>3. QED
    BY <2>1, <2>2
<1>3. QED
  BY <1>1, <1>2, ErrorStep

\* READ and WRITE are one call for all their blocks.
LEMMA ReadWriteStartStep ==
  ASSUME BlockInv, NEW c \in Cmds, ReadWriteStart(c)
  PROVE  BlockInv'
<1>1. PICK kind \in {"read", "write"} :
        Starts(c, kind) /\ FirstCall(c, NewChain(kind, req[c].len, req[c].len))
  BY DEF ReadWriteStart
<1>2. UNCHANGED <<req, res, media, devVars>>
  BY DEF ReadWriteStart
<1>3. req[c].kind = kind /\ req[c].lba + req[c].len <= NumLbas /\ ~IsCopy(c)
  BY <1>1, StartKnown DEF IsCopy
<1>4. req[c].len \in Nat
  BY TypesOf, RequestKnown
<1>5. Fits(c, NewChain(kind, req[c].len, req[c].len))
  BY <1>3, <1>4, NewChainType DEF Fits
<1>6. QED
  BY <1>1, <1>2, <1>3, <1>4, <1>5, FirstCallStep

\* The first call of a WRITE SAME writes no more than there is.
LEMMA WriteSameStartStep ==
  ASSUME BlockInv, NEW c \in Cmds, WriteSameStart(c)
  PROVE  BlockInv'
<1>1. /\ Starts(c, "writesame") /\ UNCHANGED <<req, res, media, devVars>>
      /\ FirstCall(c, NewChain("write", req[c].len, Lesser(Chunk, req[c].len)))
  BY DEF WriteSameStart
<1>2. req[c].kind = "writesame" /\ req[c].lba + req[c].len <= NumLbas /\ ~IsCopy(c)
  BY <1>1, StartKnown DEF IsCopy
<1>3. req[c].len \in Nat
  BY TypesOf, RequestKnown
<1>4. Lesser(Chunk, req[c].len) \in Nat /\ Lesser(Chunk, req[c].len) <= req[c].len
  BY <1>3, BlockAssumption, LesserType
<1>5. Fits(c, NewChain("write", req[c].len, Lesser(Chunk, req[c].len)))
  BY <1>2, <1>3, <1>4, NewChainType DEF Fits
<1>6. QED
  BY <1>1, <1>2, <1>3, <1>4, <1>5, FirstCallStep

\* WRITE AND VERIFY begins with one write of all its blocks.
LEMMA VerifyStartStep ==
  ASSUME BlockInv, NEW c \in Cmds, VerifyStart(c)
  PROVE  BlockInv'
<1>1. /\ Starts(c, "wverify") /\ UNCHANGED <<req, res, media, devVars>>
      /\ FirstCall(c, NewChain("write", req[c].len, req[c].len))
  BY DEF VerifyStart
<1>2. req[c].kind = "wverify" /\ req[c].lba + req[c].len <= NumLbas /\ ~IsCopy(c)
  BY <1>1, StartKnown DEF IsCopy
<1>3. req[c].len \in Nat
  BY TypesOf, RequestKnown
<1>4. Fits(c, NewChain("write", req[c].len, req[c].len))
  BY <1>2, <1>3, NewChainType DEF Fits
<1>5. QED
  BY <1>1, <1>2, <1>3, <1>4, FirstCallStep

\* A copy of no blocks is done; the calls of any other divide it into
\* equal parts when it is of whole chunks.
LEMMA XcopyStartStep ==
  ASSUME BlockInv, NEW c \in Cmds, XcopyStart(c)
  PROVE  BlockInv'
<1>1. Starts(c, "xcopy") /\ UNCHANGED <<req, res, media, devVars>>
  BY DEF XcopyStart
<1>2. req[c].kind = "xcopy" /\ req[c].lba + req[c].len <= NumLbas /\ IsCopy(c)
  BY <1>1, StartKnown DEF IsCopy
<1>3. /\ req[c].len \in Nat /\ req \in [Cmds -> Requests]
      /\ cawLock' \in Cmds \cup {None} /\ formatting' \in BOOLEAN
  BY <1>1, TypesOf, RequestKnown DEF devVars
<1>4. CASE req[c].len = 0
  <2>1. Finish(c, "OK")
    BY <1>4 DEF XcopyStart
  <2>2. Intended(c) = {}
    BY <1>2, <1>3, <1>4, FullSpan, EmptySpan
  <2>3. AnswerSays(c, "OK")
    BY <1>1, <2>2, StartKnown DEF AnswerSays
  <2>4. QED
    BY <1>1, <1>3, <2>1, <2>3, FinishStep
<1>5. CASE req[c].len # 0
  <2> DEFINE n == Lesser(CopyChunk, req[c].len)
  <2>1. FirstCall(c, NewChain("read", req[c].len, n))
    BY <1>5 DEF XcopyStart
  <2>2. n \in Nat /\ n <= req[c].len /\ n > 0
    BY <1>3, <1>5, BlockAssumption, LesserType
  <2>3. WholeChunks(c) => req[c].len % n = 0
    <3>1. CASE req[c].len <= CopyChunk
      <4>1. n = req[c].len
        BY <1>3, <3>1, BlockAssumption DEF Lesser
      <4>2. \A x \in Nat : x > 0 => x % x = 0
        OBVIOUS
      <4>3. QED
        BY <1>3, <1>5, <4>1, <4>2
    <3>2. CASE ~(req[c].len <= CopyChunk)
      <4>1. n = CopyChunk
        BY <1>3, <3>2, BlockAssumption DEF Lesser
      <4>2. QED
        BY <3>2, <4>1 DEF WholeChunks
    <3>3. QED
      BY <3>1, <3>2
  <2>4. Fits(c, NewChain("read", req[c].len, n))
    BY <1>2, <1>3, <1>5, <2>2, <2>3, NewChainType DEF Fits
  <2>5. QED
    BY <1>1, <1>2, <1>3, <2>1, <2>2, <2>4, FirstCallStep
<1>6. QED
  BY <1>4, <1>5

\* A COMPARE AND WRITE comes to wait for caw_lock.
LEMMA CawStartStep ==
  ASSUME BlockInv, NEW c \in Cmds, CawStart(c)
  PROVE  BlockInv'
<1>1. /\ Starts(c, "caw") /\ UNCHANGED <<req, res, media, devVars>>
  BY DEF CawStart
<1>2. /\ cawLock' \in Cmds \cup {None} /\ formatting' \in BOOLEAN /\ Typed /\ CmdInv(c)
  BY <1>1, TypesOf DEF devVars, BlockInv
<1>3. /\ req[c].kind = "caw" /\ req[c].lba + req[c].len <= NumLbas
      /\ tried[c] = {} /\ ~failed[c] /\ answer[c] = None
  BY <1>1, StartKnown
<1>4. CASE Finish(c, "NO_RESOURCE")
  <2>1. "NO_RESOURCE" \in Errors \ {"MISCOMPARE"}
    BY DEF Errors
  <2>2. QED
    BY <1>1, <1>2, <1>4, <2>1, ErrorStep
<1>5. CASE st' = [st EXCEPT ![c] = "lock"] /\ UNCHANGED <<cs, answer>>
  <2>1. /\ req' = req /\ res' = res /\ disk' = disk /\ tried' = tried /\ failed' = failed
        /\ answer' = answer /\ cs' = cs
    BY <1>1, <1>5 DEF media
  <2>2. st'[c] = "lock"
    BY <1>2, <1>5 DEF Typed, TypeOK
  <2>3. Typed'
    BY <1>2, <1>5, <2>1 DEF Typed, TypeOK
  <2>4. \A d \in Cmds : d # c => CmdInv(d)'
    <3>1. StepOf(c)
      BY <1>2, <1>5, <2>1 DEF StepOf, Typed, TypeOK
    <3>2. QED
      BY <3>1, OthersKept
  <2>5. Written(c)'
    BY <2>1, DisksKept
  <2>6. Waits(c)' /\ ~Running(c)' /\ Chained(c)' /\ Buffered(c)'
    BY <1>3, <2>1, <2>2 DEF Waits, Running, Chained, Buffered
  <2>7. Tries(c)' /\ Answers(c)'
    BY <1>3, <2>1, <2>2, <2>6 DEF Tries, Answers, AnswerSays, None
  <2>8. QED
    BY <2>3, <2>4, <2>5, <2>6, <2>7 DEF BlockInv, CmdInv
<1>6. QED
  BY <1>4, <1>5 DEF CawStart

\* With caw_lock taken the blocks to compare are read.
LEMMA CawLockedStep ==
  ASSUME BlockInv, NEW c \in Cmds, CawLocked(c)
  PROVE  BlockInv'
<1>1. /\ st[c] = "lock" /\ UNCHANGED <<req, res, media>> /\ formatting' = formatting
      /\ \/ Dispatch(c, NewChain("read", req[c].len, req[c].len)) /\ cawLock' = c
         \/ \E s \in Refusal : Finish(c, s) /\ UNCHANGED cawLock
  BY DEF CawLocked
<1>2. /\ req \in [Cmds -> Requests] /\ req[c].len \in Nat
      /\ cawLock' \in Cmds \cup {None} /\ formatting' \in BOOLEAN /\ CmdInv(c)
  BY <1>1, TypesOf, RequestKnown DEF BlockInv
<1>3. /\ req[c].kind = "caw" /\ req[c].lba + req[c].len <= NumLbas
      /\ tried[c] = {} /\ ~failed[c] /\ answer[c] = None
  BY <1>1, <1>2 DEF CmdInv, Waits, Tries, Answers
<1>4. CASE \E s \in Refusal : Finish(c, s)
  BY <1>1, <1>2, <1>4, RefusalType, ErrorStep
<1>5. CASE Dispatch(c, NewChain("read", req[c].len, req[c].len))
  <2> DEFINE s == NewChain("read", req[c].len, req[c].len)
  <2>1. s \in Chains /\ s.dir = "read" /\ s.pos = 0 /\ s.len = req[c].len
    BY <1>2, NewChainType
  <2>2. Dispatch(c, s)
    BY <1>5
  <2> HIDE DEF s
  <2>3. Fits(c, s)
    BY <1>3, <2>1 DEF Fits
  <2>4. tried[c] = Span(c, Before(c, s))
    BY <1>2, <1>3, <2>1, EmptySpan DEF Before
  <2>5. QED
    BY <1>1, <1>2, <1>3, <2>1, <2>2, <2>3, <2>4, DispatchStep
<1>6. QED
  BY <1>1, <1>4, <1>5

\* The first call of a format writes no more than the device holds.
LEMMA FormatStartStep ==
  ASSUME BlockInv, NEW c \in Cmds, FormatStart(c)
  PROVE  BlockInv'
<1>1. /\ Starts(c, "format") /\ UNCHANGED <<req, res, media>> /\ cawLock' = cawLock
      /\ \/ Dispatch(c, NewChain("write", NumLbas, Lesser(Chunk, NumLbas))) /\ formatting' = TRUE
         \/ Finish(c, "NO_RESOURCE") /\ UNCHANGED formatting
  BY DEF FormatStart
<1>2. /\ req \in [Cmds -> Requests] /\ cawLock' \in Cmds \cup {None} /\ formatting' \in BOOLEAN
  BY <1>1, TypesOf
<1>3. req[c].kind = "format" /\ tried[c] = {} /\ ~failed[c] /\ answer[c] = None
  BY <1>1, StartKnown
<1>4. CASE Finish(c, "NO_RESOURCE")
  <2>1. "NO_RESOURCE" \in Errors \ {"MISCOMPARE"}
    BY DEF Errors
  <2>2. QED
    BY <1>1, <1>2, <1>4, <2>1, ErrorStep
<1>5. CASE Dispatch(c, NewChain("write", NumLbas, Lesser(Chunk, NumLbas)))
  <2> DEFINE s == NewChain("write", NumLbas, Lesser(Chunk, NumLbas))
  <2>1. NumLbas \in Nat /\ Lesser(Chunk, NumLbas) \in Nat /\ Lesser(Chunk, NumLbas) <= NumLbas
    BY BlockAssumption, LesserType
  <2>2. s \in Chains /\ s.dir = "write" /\ s.pos = 0 /\ s.len \in Nat /\ s.len <= NumLbas
    BY <2>1, NewChainType
  <2>3. Dispatch(c, s)
    BY <1>5
  <2> HIDE DEF s
  <2>4. Fits(c, s)
    BY <1>3, <2>1, <2>2 DEF Fits
  <2>5. tried[c] = Span(c, Before(c, s)) /\ ~IsCopy(c)
    BY <1>2, <1>3, <2>2, EmptySpan DEF Before, IsCopy
  <2>6. QED
    BY <1>1, <1>2, <1>3, <2>2, <2>3, <2>4, <2>5, DispatchStep
<1>6. QED
  BY <1>1, <1>4, <1>5

-----------------------------------------------------------------------------
(* Handler calls.                                                          *)

\* What is known of a command whose chain runs.
LEMMA RunKnown ==
  ASSUME BlockInv, NEW c \in Cmds, Running(c)
  PROVE  /\ Fits(c, cs[c]) /\ answer[c] = None
         /\ cs[c] \in Chains /\ cs[c].dir \in {"read", "write"} /\ cs[c].pos \in Nat
         /\ cs[c].left \in Nat /\ cs[c].step \in Nat /\ cs[c].len \in Nat
         /\ Whole(c) => tried[c] = Span(c, Wrote(c))
<1>1. CmdInv(c) /\ cs[c] \in Chains
  BY TypesOf DEF BlockInv
<1>2. Fits(c, cs[c]) /\ answer[c] = None /\ (Whole(c) => tried[c] = Span(c, Wrote(c)))
  BY <1>1 DEF CmdInv, Chained, Tries, Answers, Running
<1>3. cs[c].dir \in {"read", "write"}
  BY <1>2 DEF Fits
<1>4. QED
  BY <1>1, <1>2, <1>3 DEF Chains

\* Two ranges one after the other.
LEMMA RangeJoin ==
  ASSUME NEW a \in Nat, NEW m \in Nat, NEW n \in Nat
  PROVE  (a .. a + m - 1) \cup (a + m .. a + m + n - 1) = a .. a + (m + n) - 1
<1>1. \A x \in Int : x \in a .. a + (m + n) - 1 <=>
                       x \in a .. a + m - 1 \/ x \in a + m .. a + m + n - 1
  OBVIOUS
<1>2. QED
  BY <1>1

\* The range of a write, and what it adds to the blocks before it.
LEMMA WriteRange ==
  ASSUME BlockInv, NEW c \in Cmds, Running(c), cs[c].dir = "write"
  PROVE  /\ OpDev(c) = req[c].dst /\ OpLba(c) = req[c].lba + cs[c].pos
         /\ OpRange(c) = req[c].lba + cs[c].pos .. req[c].lba + cs[c].pos + cs[c].len - 1
         /\ {OpDev(c)} \X OpRange(c) \subseteq Devs \X Nat
         /\ Span(c, cs[c].pos) \cup ({OpDev(c)} \X OpRange(c)) = Span(c, cs[c].pos + cs[c].len)
         /\ Whole(c) => Span(c, cs[c].pos + cs[c].len) \subseteq Intended(c)
<1>0. /\ req \in [Cmds -> Requests] /\ cs[c].pos \in Nat /\ cs[c].len \in Nat /\ Fits(c, cs[c])
      /\ cs[c].left \in Nat /\ cs[c].step \in Nat
  BY TypesOf, RunKnown
<1>1. /\ req[c].lba \in Nat /\ req[c].len \in Nat /\ req[c].dst \in Devs /\ req[c].kind \in Kinds
  BY <1>0, RequestKnown
<1>2. OpDev(c) = req[c].dst /\ OpLba(c) = req[c].lba + cs[c].pos
  BY DEF OpDev, OpLba
<1>3. OpRange(c) = req[c].lba + cs[c].pos .. req[c].lba + cs[c].pos + cs[c].len - 1
  BY <1>2 DEF OpRange
<1>4. OpRange(c) \subseteq Nat
  BY <1>0, <1>1, <1>3
<1>5. (req[c].lba .. req[c].lba + cs[c].pos - 1) \cup OpRange(c)
        = req[c].lba .. req[c].lba + (cs[c].pos + cs[c].len) - 1
  <2>1. (req[c].lba .. req[c].lba + cs[c].pos - 1)
           \cup (req[c].lba + cs[c].pos .. req[c].lba + cs[c].pos + cs[c].len - 1)
          = req[c].lba .. req[c].lba + (cs[c].pos + cs[c].len) - 1
    <3> DEFINE x == req[c].lba  y == cs[c].pos  z == cs[c].len
    <3>1. x \in Nat /\ y \in Nat /\ z \in Nat
      BY <1>0, <1>1
    <3> HIDE DEF x, y, z
    <3>2. (x .. x + y - 1) \cup (x + y .. x + y + z - 1) = x .. x + (y + z) - 1
      BY <3>1, RangeJoin
    <3>3. QED
      BY <3>2 DEF x, y, z
  <2>2. QED
    BY <1>3, <2>1
<1>6. Span(c, cs[c].pos) \cup ({OpDev(c)} \X OpRange(c)) = Span(c, cs[c].pos + cs[c].len)
  BY <1>2, <1>5 DEF Span
<1>7. ASSUME Whole(c) PROVE Span(c, cs[c].pos + cs[c].len) \subseteq Intended(c)
  <2>1. req[c].kind # "read"
    BY <1>0 DEF Fits
  <2>2. cs[c].pos + cs[c].len <= IF req[c].kind = "format" THEN NumLbas ELSE req[c].len
    <3>1. CASE req[c].kind \in {"write", "wverify", "caw"}
      BY <1>0, <1>1, <3>1 DEF Fits
    <3>2. CASE req[c].kind = "writesame"
      BY <1>0, <1>1, <3>2 DEF Fits
    <3>3. CASE req[c].kind = "format"
      BY <1>0, <1>1, <3>3 DEF Fits
    <3>4. CASE req[c].kind = "xcopy"
      <4>1. WholeChunks(c)
        BY <1>7, <3>4 DEF Whole, IsCopy
      <4>2. cs[c].pos + cs[c].left = req[c].len /\ cs[c].step <= cs[c].left /\ cs[c].step = cs[c].len
        BY <1>0, <3>4, <4>1 DEF Fits
      <4>3. QED
        BY <1>0, <1>1, <3>4, <4>2
    <3>5. QED
      BY <1>1, <2>1, <3>1, <3>2, <3>3, <3>4 DEF Kinds
  <2>3. cs[c].pos + cs[c].len \in Nat
    BY <1>0
  <2>4. QED
    BY <1>0, <2>1, <2>2, <2>3, SpanIntended
<1>8. QED
  BY <1>1, <1>2, <1>3, <1>4, <1>6, <1>7

\* What a call of c, whatever its end, does: the parts of the invariant that do
\* not speak of the contents of the devices.
LEMMA CallParts ==
  ASSUME BlockInv, NEW c \in Cmds, st[c] = "op", NEW s \in Chains, NEW r \in {"OK", "HW_ERR"},
         req' = req, answer' = answer, UNCHANGED devVars,
         st' = [st EXCEPT ![c] = "ran"], res' = [res EXCEPT ![c] = r],
         cs' = [cs EXCEPT ![c] = s],
         s.dir = cs[c].dir, s.pos = cs[c].pos, s.left = cs[c].left, s.step = cs[c].step,
         s.len = cs[c].len,
         s.dir = "read" /\ r = "OK" => s.buf \in Buf(s.len), s.dir = "write" => s.buf = cs[c].buf,
         tried' = [tried EXCEPT ![c] = IF cs[c].dir = "read" THEN @
                                       ELSE @ \cup ({OpDev(c)} \X OpRange(c))],
         failed' \in [Cmds -> BOOLEAN], \A d \in Cmds : d # c => failed'[d] = failed[d],
         failed'[c] => failed[c] \/ r # "OK",
         disk' \in [Devs -> [Blocks -> Nat]], disk' = disk \/ tried'[c] # {}
  PROVE  /\ Typed' /\ (\A d \in Cmds : d # c => CmdInv(d)')
         /\ st'[c] = "ran" /\ res'[c] = r /\ cs'[c] = s
         /\ Waits(c)' /\ Chained(c)' /\ Tries(c)' /\ Answers(c)'
<1>0. Typed /\ CmdInv(c) /\ Running(c)
  BY DEF BlockInv, Running
<1>1. st'[c] = "ran" /\ res'[c] = r /\ cs'[c] = s
  BY <1>0 DEF Typed, TypeOK
<1>2. /\ cs[c].dir = "read" => tried'[c] = tried[c]
      /\ cs[c].dir = "write" => tried'[c] = tried[c] \cup ({OpDev(c)} \X OpRange(c))
      /\ \A d \in Cmds : d # c => tried'[d] = tried[d]
  BY <1>0 DEF Typed
<1>3. cs[c].dir \in {"read", "write"} /\ Fits(c, cs[c]) /\ (Whole(c) => tried[c] = Span(c, Wrote(c)))
  BY <1>0, RunKnown
<1>4. tried' \in [Cmds -> SUBSET (Devs \X Nat)]
  BY <1>0, <1>3, WriteRange DEF Typed
<1>5. Typed'
  <2>1. cs' \in [Cmds -> Chains]
    BY <1>0 DEF Typed
  <2>2. \A d \in Cmds : /\ cs'[d].dir \in {None, "read", "write"}
                        /\ {cs'[d].pos, cs'[d].left, cs'[d].step, cs'[d].len} \subseteq Nat
    BY <2>1 DEF Chains
  <2>3. /\ st' \in [Cmds -> {"new", "lock", "op", "ran", "done"}]
        /\ res' \in [Cmds -> Errors \cup {"OK", None}]
    BY <1>0 DEF Typed, TypeOK, Errors
  <2>4. /\ req' \in [Cmds -> Requests] /\ answer' \in [Cmds -> Errors \cup {"OK", None}]
        /\ cawLock' \in Cmds \cup {None} /\ formatting' \in BOOLEAN
    BY <1>0 DEF Typed, TypeOK, devVars
  <2>5. QED
    BY <1>4, <2>1, <2>2, <2>3, <2>4 DEF Typed, TypeOK
<1>6. \A d \in Cmds : d # c => CmdInv(d)'
  <2>1. StepOf(c)
    BY <1>0, <1>2, <1>3 DEF StepOf, Typed, TypeOK
  <2>2. QED
    BY <2>1, OthersKept
<1>7. Waits(c)' /\ Running(c)'
  BY <1>1 DEF Waits, Running
<1>8. (Whole(c)' <=> Whole(c)) /\ Intended(c)' = Intended(c) /\ (IsCopy(c)' <=> IsCopy(c))
  BY DEF Whole, IsCopy, WholeChunks, Intended
<1>9. Chained(c)'
  <2>1. Fits(c, cs[c])'
    BY <1>1, <1>3 DEF Fits, WholeChunks
  <2>2. IsCopy(c) /\ cs[c].dir = "write" => cs[c].buf \in Buf(cs[c].len)
    BY <1>0 DEF CmdInv, Chained
  <2>3. QED
    BY <1>1, <1>8, <2>1, <2>2 DEF Chained, ReadDone
<1>10. Tries(c)'
  <2>1. ASSUME Whole(c) PROVE tried'[c] = Span(c, Wrote(c))' /\ tried'[c] \subseteq Intended(c)
    <3>1. CASE cs[c].dir = "read"
      <4>1. Span(c, Wrote(c))' = Span(c, Wrote(c))
        BY <1>1, <3>1 DEF Span, Wrote, Before
      <4>2. QED
        BY <1>0, <1>2, <1>3, <2>1, <3>1, <4>1 DEF CmdInv, Tries
    <3>2. CASE cs[c].dir = "write"
      <4>1. Wrote(c) = cs[c].pos
        BY <3>2 DEF Wrote, Before
      <4>2. tried'[c] = Span(c, cs[c].pos + cs[c].len) /\ tried'[c] \subseteq Intended(c)
        BY <1>0, <1>2, <1>3, <2>1, <3>2, <4>1, WriteRange
      <4>3. Span(c, Wrote(c))' = Span(c, cs[c].pos + cs[c].len)
        BY <1>1, <3>2 DEF Span, Wrote
      <4>4. QED
        BY <4>2, <4>3
    <3>3. QED
      BY <1>3, <3>1, <3>2
  <2>2. req[c].kind # "format" => ~failed[c]
    BY <1>0 DEF CmdInv, Tries
  <2>3. QED
    BY <1>1, <1>7, <1>8, <2>1, <2>2 DEF Tries
<1>11. Answers(c)'
  <2>1. answer[c] = None
    BY <1>0, RunKnown
  <2>2. QED
    BY <2>1 DEF Answers, AnswerSays, None
<1>12. QED
  BY <1>1, <1>5, <1>6, <1>7, <1>9, <1>10, <1>11

\* Nothing is claimed of the contents once a call has failed.
LEMMA HandlerFailsStep ==
  ASSUME BlockInv, NEW c \in Cmds, HandlerFails(c)
  PROVE  BlockInv'
<1>0. Typed /\ CmdInv(c) /\ Running(c) /\ cs[c] \in Chains
  BY TypesOf DEF BlockInv, Running, HandlerFails
<1>1. /\ st[c] = "op" /\ req' = req /\ answer' = answer /\ UNCHANGED devVars /\ disk' = disk
      /\ st' = [st EXCEPT ![c] = "ran"] /\ res' = [res EXCEPT ![c] = "HW_ERR"] /\ cs' = cs
      /\ tried' = [tried EXCEPT ![c] = IF cs[c].dir = "read" THEN @
                                       ELSE @ \cup ({OpDev(c)} \X OpRange(c))]
      /\ failed' = [failed EXCEPT ![c] = TRUE]
  BY DEF HandlerFails
<1>2. cs' = [cs EXCEPT ![c] = cs[c]]
  BY <1>0, <1>1 DEF Typed
<1>3. failed' \in [Cmds -> BOOLEAN] /\ failed'[c] = TRUE /\ \A d \in Cmds : d # c => failed'[d] = failed[d]
  BY <1>0, <1>1 DEF Typed, TypeOK
<1>4. disk' \in [Devs -> [Blocks -> Nat]]
  BY <1>0, <1>1 DEF Typed
<1>5. /\ Typed' /\ (\A d \in Cmds : d # c => CmdInv(d)')
      /\ Waits(c)' /\ Chained(c)' /\ Tries(c)' /\ Answers(c)'
  BY <1>0, <1>1, <1>2, <1>3, <1>4, CallParts, ZenonT(60)
<1>6. Written(c)' /\ Buffered(c)'
  BY <1>3 DEF Written, Buffered
<1>7. QED
  BY <1>5, <1>6 DEF BlockInv, CmdInv

\* Reading into the buffer: a copy reads what was there at the start, because
\* it has written none of it yet, and WRITE AND VERIFY what it has written.
LEMMA HandlerReadStep ==
  ASSUME BlockInv, NEW c \in Cmds, HandlerRead(c)
  PROVE  BlockInv'
<1> DEFINE buf == [k \in 0 .. cs[c].len - 1 |-> disk[OpDev(c)][OpLba(c) + k]]
           s == [cs[c] EXCEPT !.buf = buf]
<1>0. /\ Typed /\ CmdInv(c) /\ Running(c) /\ cs[c] \in Chains /\ Fits(c, cs[c])
      /\ req \in [Cmds -> Requests]
  BY TypesOf, RunKnown DEF BlockInv, Running, HandlerRead
<1>1. /\ st[c] = "op" /\ cs[c].dir = "read" /\ OpRange(c) \subseteq Blocks
      /\ req' = req /\ answer' = answer /\ UNCHANGED devVars
      /\ disk' = disk /\ tried' = tried /\ failed' = failed
      /\ st' = [st EXCEPT ![c] = "ran"] /\ res' = [res EXCEPT ![c] = "OK"]
      /\ cs' = [cs EXCEPT ![c].buf = buf]
  BY DEF HandlerRead, media
<1>2. /\ cs[c].pos \in Nat /\ cs[c].left \in Nat /\ cs[c].step \in Nat /\ cs[c].len \in Nat
      /\ req[c].lba \in Nat /\ req[c].len \in Nat /\ req[c].slba \in Nat
      /\ req[c].src \in Devs /\ req[c].dst \in Devs
  BY <1>0, RunKnown, RequestKnown
<1>3. OpDev(c) \in Devs /\ OpLba(c) \in Nat
  BY <1>2 DEF OpDev, OpLba
<1>4. \A k \in 0 .. cs[c].len - 1 : OpLba(c) + k \in Blocks
  <2>1. \A k \in 0 .. cs[c].len - 1 : OpLba(c) + k \in OpLba(c) .. OpLba(c) + cs[c].len - 1
    BY <1>2, <1>3
  <2>2. QED
    BY <1>1, <2>1 DEF OpRange
<1>5. buf \in Buf(cs[c].len)
  BY <1>0, <1>3, <1>4 DEF Typed, Buf
<1>6. buf \in Bufs
  BY <1>2, <1>5 DEF Bufs
<1>7. /\ s \in Chains /\ s.dir = cs[c].dir /\ s.pos = cs[c].pos /\ s.left = cs[c].left
      /\ s.step = cs[c].step /\ s.len = cs[c].len /\ s.buf = buf
  <2> HIDE DEF buf
  <2> QED
    BY <1>0, <1>6 DEF Chains
<1>8. cs' = [cs EXCEPT ![c] = s]
  BY <1>0, <1>1 DEF Typed
<1>9. tried' = [tried EXCEPT ![c] = IF cs[c].dir = "read" THEN @
                                    ELSE @ \cup ({OpDev(c)} \X OpRange(c))]
  BY <1>0, <1>1 DEF Typed
<1>10. disk' \in [Devs -> [Blocks -> Nat]] /\ failed' \in [Cmds -> BOOLEAN]
  BY <1>0, <1>1 DEF Typed, TypeOK
<1>11. \A k \in 0 .. cs[c].len - 1 : buf[k] = disk[OpDev(c)][OpLba(c) + k]
  OBVIOUS
<1>12. DOMAIN buf = 0 .. cs[c].len - 1
  OBVIOUS
<1> HIDE DEF buf, s
<1>13. /\ Typed' /\ (\A d \in Cmds : d # c => CmdInv(d)')
       /\ st'[c] = "ran" /\ res'[c] = "OK" /\ cs'[c] = s
       /\ Waits(c)' /\ Chained(c)' /\ Tries(c)' /\ Answers(c)'
  BY <1>1, <1>5, <1>7, <1>8, <1>9, <1>10, CallParts
<1>14. /\ Written(c)' /\ (Sole(c)' <=> Sole(c)) /\ (Apt(c)' <=> Apt(c)) /\ (IsCopy(c)' <=> IsCopy(c))
  BY <1>1, DisksKept
<1>15. ASSUME Sole(c), ~failed[c], Apt(c), IsCopy(c)
       PROVE  HoldsSource(c, s)
  <2>1. WholeChunks(c) /\ ReadsFirst(c) /\ Whole(c)
    BY <1>15 DEF Apt, Whole
  <2>2. tried[c] = Span(c, cs[c].pos)
    BY <1>0, <1>1, <1>15, <2>1, RunKnown DEF Wrote, Before, IsCopy
  <2>3. OpDev(c) = req[c].src /\ OpLba(c) = req[c].slba + cs[c].pos
    BY <1>1, <1>15 DEF OpDev, OpLba
  <2>4. /\ cs[c].pos + cs[c].left = req[c].len /\ cs[c].step <= cs[c].left /\ cs[c].step = cs[c].len
        /\ cs[c].len = Lesser(CopyChunk, req[c].len) /\ cs[c].left > 0 /\ cs[c].len > 0
        /\ cs[c].left % cs[c].len = 0
    BY <1>0, <1>15, <2>1 DEF Fits, IsCopy
  <2>5. req[c].len <= CopyChunk => cs[c].pos = 0
    <3>1. req[c].len <= CopyChunk => cs[c].len = req[c].len
      BY <1>2, <2>4, BlockAssumption DEF Lesser
    <3>2. cs[c].left >= cs[c].len
      BY <1>2, <2>4
    <3>3. QED
      BY <1>2, <2>4, <3>1, <3>2
  <2>6. ASSUME NEW k \in 0 .. cs[c].len - 1
        PROVE  <<req[c].src, req[c].slba + cs[c].pos + k>> \notin tried[c]
    <3>1. SUFFICES ASSUME req[c].src = req[c].dst,
                          req[c].slba + cs[c].pos + k \in req[c].lba .. req[c].lba + cs[c].pos - 1
                   PROVE  FALSE
      BY <2>2 DEF Span
    <3>2. req[c].len <= CopyChunk \/ req[c].lba <= req[c].slba \/ req[c].slba + req[c].len <= req[c].lba
      BY <2>1, <3>1 DEF ReadsFirst
    <3>3. k \in Nat /\ k < cs[c].len
      BY <1>2
    <3>4. QED
      BY <1>2, <2>4, <2>5, <3>1, <3>2, <3>3
  <2>7. \A k \in 0 .. cs[c].len - 1 :
          disk[req[c].src][req[c].slba + cs[c].pos + k] = InitDisk[req[c].src][req[c].slba + cs[c].pos + k]
    BY <1>0, <1>2, <1>4, <1>15, <2>3, <2>6 DEF CmdInv, Written
  <2>8. QED
    BY <1>7, <1>11, <2>3, <2>7 DEF HoldsSource
<1>16. ASSUME Sole(c), ~failed[c], Apt(c), req[c].kind = "wverify"
       PROVE  Equal(buf, req[c].val)
  <2>1. ~IsCopy(c) /\ Whole(c) /\ cs[c].pos = 0 /\ cs[c].len = req[c].len
    BY <1>0, <1>16 DEF IsCopy, Whole, Fits
  <2>2. tried[c] = Span(c, req[c].len)
    BY <1>0, <1>1, <1>16, <2>1, RunKnown DEF Wrote, Before
  <2>3. OpDev(c) = req[c].dst /\ OpLba(c) = req[c].lba
    BY <1>2, <2>1 DEF OpDev, OpLba
  <2>4. \A k \in 0 .. cs[c].len - 1 : <<req[c].dst, req[c].lba + k>> \in tried[c]
    <3>1. \A k \in 0 .. cs[c].len - 1 : req[c].lba + k \in req[c].lba .. req[c].lba + req[c].len - 1
      BY <1>2, <2>1
    <3>2. QED
      BY <2>2, <3>1 DEF Span
  <2>5. \A b : Target(c, b) = req[c].val
    BY <2>1 DEF Target
  <2>6. \A k \in 0 .. cs[c].len - 1 : disk[req[c].dst][req[c].lba + k] = req[c].val
    <3>1. \A d \in Devs, b \in Blocks : <<d, b>> \in tried[c] => disk[d][b] = req[c].val
      BY <1>0, <1>16, <2>5 DEF CmdInv, Written
    <3>2. \A k \in 0 .. cs[c].len - 1 : req[c].lba + k \in Blocks
      BY <1>4, <2>3
    <3>3. QED
      BY <1>2, <2>4, <3>1, <3>2
  <2>7. QED
    BY <1>11, <1>12, <2>3, <2>6 DEF Equal
<1>17. Buffered(c)'
  <2>1. HoldsSource(c, cs[c])' <=> HoldsSource(c, s)
    BY <1>1, <1>13 DEF HoldsSource
  <2>2. Equal(cs[c].buf, req[c].val)' <=> Equal(buf, req[c].val)
    BY <1>1, <1>7, <1>13 DEF Equal
  <2>3. QED
    BY <1>1, <1>14, <1>15, <1>16, <2>1, <2>2 DEF Buffered
<1>18. QED
  BY <1>13, <1>14, <1>17 DEF BlockInv, CmdInv

\* Writing the buffer, or the value: where the command may be trusted, every
\* block it has written holds what it is to hold.
LEMMA HandlerWriteStep ==
  ASSUME BlockInv, NEW c \in Cmds, HandlerWrite(c)
  PROVE  BlockInv'
<1> DEFINE New(b) == IF IsCopy(c) THEN cs[c].buf[b - OpLba(c)] ELSE req[c].val
<1>0. /\ Typed /\ CmdInv(c) /\ Running(c) /\ cs[c] \in Chains /\ Fits(c, cs[c])
      /\ req \in [Cmds -> Requests] /\ disk \in [Devs -> [Blocks -> Nat]]
  BY TypesOf, RunKnown DEF BlockInv, Typed, Running, HandlerWrite
<1>1. /\ st[c] = "op" /\ cs[c].dir = "write" /\ OpRange(c) \subseteq Blocks
      /\ req' = req /\ answer' = answer /\ UNCHANGED devVars /\ cs' = cs /\ failed' = failed
      /\ st' = [st EXCEPT ![c] = "ran"] /\ res' = [res EXCEPT ![c] = "OK"]
      /\ tried' = [tried EXCEPT ![c] = @ \cup ({OpDev(c)} \X OpRange(c))]
      /\ disk' = [disk EXCEPT ![OpDev(c)] = [b \in Blocks |->
                    IF b \notin OpRange(c) THEN @[b] ELSE New(b)]]
  BY DEF HandlerWrite
<1>2. /\ cs[c].pos \in Nat /\ cs[c].len \in Nat /\ req[c].lba \in Nat /\ req[c].val \in Nat
      /\ req[c].src \in Devs /\ req[c].dst \in Devs /\ req[c].slba \in Nat
  BY <1>0, RunKnown, RequestKnown
<1>3. /\ OpDev(c) = req[c].dst /\ OpLba(c) = req[c].lba + cs[c].pos
      /\ OpRange(c) = req[c].lba + cs[c].pos .. req[c].lba + cs[c].pos + cs[c].len - 1
  BY <1>0, <1>1, WriteRange
<1>4. \A b \in OpRange(c) : b - OpLba(c) \in 0 .. cs[c].len - 1
  BY <1>2, <1>3
<1>5. \A b \in OpRange(c) : New(b) \in Nat
  <2>1. IsCopy(c) => cs[c].buf \in [0 .. cs[c].len - 1 -> Nat]
    BY <1>0, <1>1 DEF CmdInv, Chained, Buf
  <2>2. QED
    BY <1>2, <1>4, <2>1
<1> HIDE DEF New
<1>6. /\ \A d \in Devs, b \in Blocks :
           disk'[d][b] = IF d = OpDev(c) /\ b \in OpRange(c) THEN New(b) ELSE disk[d][b]
      /\ disk' \in [Devs -> [Blocks -> Nat]]
  <2>1. disk'[OpDev(c)] = [b \in Blocks |-> IF b \notin OpRange(c) THEN disk[OpDev(c)][b] ELSE New(b)]
    BY <1>0, <1>1, <1>2, <1>3
  <2>2. \A d \in Devs : d # OpDev(c) => disk'[d] = disk[d]
    BY <1>0, <1>1, <1>2, <1>3
  <2>3. disk'[OpDev(c)] \in [Blocks -> Nat]
    BY <1>0, <1>2, <1>3, <1>5, <2>1
  <2>4. disk' \in [Devs -> [Blocks -> Nat]]
    BY <1>0, <1>1, <2>2, <2>3
  <2>5. \A b \in Blocks : disk'[OpDev(c)][b] = IF b \in OpRange(c) THEN New(b) ELSE disk[OpDev(c)][b]
    BY <2>1
  <2>6. QED
    BY <2>2, <2>4, <2>5
<1>7. /\ tried'[c] = tried[c] \cup ({OpDev(c)} \X OpRange(c))
      /\ \A d \in Cmds : d # c => tried'[d] = tried[d]
      /\ tried' = [tried EXCEPT ![c] = IF cs[c].dir = "read" THEN @
                                       ELSE @ \cup ({OpDev(c)} \X OpRange(c))]
  BY <1>0, <1>1 DEF Typed
<1>8. disk' = disk \/ tried'[c] # {}
  <2>1. CASE OpRange(c) = {}
    <3>1. \A d \in Devs, b \in Blocks : disk'[d][b] = disk[d][b]
      BY <1>6, <2>1
    <3>2. \A d \in Devs : disk'[d] = disk[d]
      BY <1>0, <1>6, <3>1
    <3>3. QED
      BY <1>0, <1>6, <3>2
  <2>2. CASE OpRange(c) # {}
    <3>1. PICK b \in OpRange(c) : TRUE
      BY <2>2
    <3>2. <<OpDev(c), b>> \in tried'[c]
      BY <1>7, <3>1
    <3>3. QED
      BY <3>2
  <2>3. QED
    BY <2>1, <2>2
<1>9. cs' = [cs EXCEPT ![c] = cs[c]] /\ failed' \in [Cmds -> BOOLEAN]
  BY <1>0, <1>1 DEF Typed, TypeOK
<1>10. /\ Typed' /\ (\A d \in Cmds : d # c => CmdInv(d)')
       /\ Waits(c)' /\ Chained(c)' /\ Tries(c)' /\ Answers(c)'
  BY <1>0, <1>1, <1>6, <1>7, <1>8, <1>9, CallParts
<1>11. /\ (Sole(c)' <=> Sole(c)) /\ (Apt(c)' <=> Apt(c)) /\ (IsCopy(c)' <=> IsCopy(c))
       /\ \A b : Target(c, b)' = Target(c, b)
  BY <1>1, <1>7 DEF Sole, Apt, IsCopy, WholeChunks, ReadsFirst, Target
<1>12. ASSUME Sole(c), ~failed[c], Apt(c), NEW b \in OpRange(c)
       PROVE  New(b) = Target(c, b)
  <2>1. CASE IsCopy(c)
    <3>1. \A k \in 0 .. cs[c].len - 1 : cs[c].buf[k] = InitDisk[req[c].src][req[c].slba + cs[c].pos + k]
      BY <1>0, <1>1, <1>12, <2>1 DEF CmdInv, Buffered, HoldsSource
    <3>2. New(b) = InitDisk[req[c].src][req[c].slba + cs[c].pos + (b - OpLba(c))]
      BY <1>4, <2>1, <3>1 DEF New
    <3>3. req[c].slba + cs[c].pos + (b - OpLba(c)) = b - req[c].lba + req[c].slba
      BY <1>2, <1>3
    <3>4. QED
      BY <2>1, <3>2, <3>3 DEF Target
  <2>2. CASE ~IsCopy(c)
    BY <2>2 DEF New, Target
  <2>3. QED
    BY <2>1, <2>2
<1>13. Written(c)'
  <2>1. SUFFICES ASSUME Sole(c), ~failed[c], Apt(c), NEW d \in Devs, NEW b \in Blocks
                 PROVE  disk'[d][b] = IF <<d, b>> \in tried'[c] THEN Target(c, b) ELSE InitDisk[d][b]
    BY <1>1, <1>11 DEF Written
  <2>2. disk[d][b] = IF <<d, b>> \in tried[c] THEN Target(c, b) ELSE InitDisk[d][b]
    BY <1>0, <2>1 DEF CmdInv, Written
  <2>3. <<d, b>> \in tried'[c] <=> <<d, b>> \in tried[c] \/ (d = OpDev(c) /\ b \in OpRange(c))
    BY <1>7
  <2>4. CASE d = OpDev(c) /\ b \in OpRange(c)
    BY <1>6, <1>12, <2>1, <2>3, <2>4
  <2>5. CASE ~(d = OpDev(c) /\ b \in OpRange(c))
    BY <1>6, <2>2, <2>3, <2>5
  <2>6. QED
    BY <2>4, <2>5
<1>14. Buffered(c)'
  <2>1. HoldsSource(c, cs[c])' <=> HoldsSource(c, cs[c])
    BY <1>1 DEF HoldsSource
  <2>2. ~ReadDone(c)' /\ cs'[c] = cs[c]
    BY <1>1 DEF ReadDone
  <2>3. QED
    BY <1>0, <1>1, <1>11, <2>1, <2>2 DEF CmdInv, Buffered
<1>15. QED
  BY <1>10, <1>13, <1>14 DEF BlockInv, CmdInv

-----------------------------------------------------------------------------
(* Callbacks.                                                              *)

\* What is known of a command whose call has ended.
LEMMA RanKnown ==
  ASSUME BlockInv, NEW c \in Cmds, NEW kind, NEW dir, Ran(c, kind, dir)
  PROVE  /\ Running(c) /\ st[c] = "ran" /\ req[c].kind = kind /\ cs[c].dir = dir
         /\ res[c] \in {"OK", "HW_ERR"}
         /\ kind # "format" /\ res[c] = "OK" => ~failed[c]
         /\ Whole(c) /\ dir = "write" => tried[c] = Span(c, cs[c].pos + cs[c].len)
         /\ Whole(c) /\ dir = "read" => tried[c] = Span(c, Before(c, cs[c]))
<1>1. CmdInv(c)
  BY DEF BlockInv
<1>2. Running(c) /\ st[c] = "ran" /\ req[c].kind = kind /\ cs[c].dir = dir
  BY DEF Ran, Running
<1>3. res[c] \in {"OK", "HW_ERR"} /\ (kind # "format" /\ res[c] = "OK" => ~failed[c])
  BY <1>1, <1>2 DEF CmdInv, Chained, Tries
<1>4. Whole(c) => tried[c] = Span(c, Wrote(c))
  BY <1>2, RunKnown
<1>5. QED
  BY <1>2, <1>3, <1>4 DEF Wrote

\* The result of the last call is the answer.
LEMMA ResultStep ==
  ASSUME BlockInv, NEW c \in Cmds, NEW kind, NEW dir, Ran(c, kind, dir), Finish(c, res[c]),
         res[c] = "OK" /\ Whole(c) => tried[c] = Intended(c),
         UNCHANGED <<req, res, media>>, cawLock' \in Cmds \cup {None}, formatting' \in BOOLEAN
  PROVE  BlockInv'
<1>1. /\ res[c] \in {"OK", "HW_ERR"} /\ req[c].kind = kind
      /\ kind # "format" /\ res[c] = "OK" => ~failed[c]
  BY RanKnown
<1>2. AnswerSays(c, res[c])
  BY <1>1 DEF AnswerSays
<1>3. res[c] \in Errors \cup {"OK"}
  BY <1>1 DEF Errors
<1>4. QED
  BY <1>2, <1>3, FinishStep

\* The write of all blocks.
LEMMA AllWritten ==
  ASSUME BlockInv, NEW c \in Cmds, NEW kind, Ran(c, kind, "write"), Whole(c),
         cs[c].pos + cs[c].len = IF kind = "format" THEN NumLbas ELSE req[c].len
  PROVE  tried[c] = Intended(c)
<1>1. req[c].kind = kind /\ tried[c] = Span(c, cs[c].pos + cs[c].len) /\ Fits(c, cs[c])
  BY RanKnown, RunKnown
<1>2. kind # "read"
  BY <1>1 DEF Fits, Ran
<1>3. QED
  BY <1>1, <1>2, TypesOf, FullSpan

\* The one call of READ and WRITE was all there was to do.
LEMMA GenericCbkStep ==
  ASSUME BlockInv, NEW c \in Cmds, GenericCbk(c)
  PROVE  BlockInv'
<1>0. /\ Finish(c, res[c]) /\ UNCHANGED <<req, res, media>>
      /\ cawLock' \in Cmds \cup {None} /\ formatting' \in BOOLEAN /\ req \in [Cmds -> Requests]
  BY TypesOf DEF GenericCbk, devVars
<1>1. req[c].len \in Nat
  BY <1>0, RequestKnown
<1>2. CASE Ran(c, "read", "read")
  <2>1. /\ req[c].kind = "read" /\ Fits(c, cs[c]) /\ Whole(c)
        /\ tried[c] = Span(c, Before(c, cs[c]))
    BY <1>2, RanKnown, RunKnown DEF Whole, IsCopy
  <2>2. Span(c, Before(c, cs[c])) = {}
    BY <1>0, <2>1, EmptySpan DEF Before, Fits
  <2>3. Intended(c) = {}
    BY <2>1 DEF Intended
  <2>4. QED
    BY <1>0, <1>2, <2>1, <2>2, <2>3, ResultStep
<1>3. CASE Ran(c, "write", "write")
  <2>1. req[c].kind = "write" /\ Fits(c, cs[c]) /\ Whole(c)
    BY <1>3, RanKnown, RunKnown DEF Whole, IsCopy
  <2>2. cs[c].pos + cs[c].len = req[c].len
    BY <1>1, <2>1 DEF Fits
  <2>3. QED
    BY <1>0, <1>3, <2>1, <2>2, AllWritten, ResultStep
<1>4. QED
  BY <1>2, <1>3 DEF GenericCbk

\* The next call of a WRITE SAME begins where the last one ended; after the
\* last there is nothing left.
LEMMA WriteSameCbkStep ==
  ASSUME BlockInv, NEW c \in Cmds, WriteSameCbk(c)
  PROVE  BlockInv'
<1> DEFINE left == cs[c].left - cs[c].len
           s == [cs[c] EXCEPT !.pos = @ + cs[c].len, !.left = left, !.len = Lesser(left, @)]
<1>0. /\ Ran(c, "writesame", "write") /\ UNCHANGED <<req, res, media>>
      /\ cawLock' \in Cmds \cup {None} /\ formatting' \in BOOLEAN /\ req \in [Cmds -> Requests]
  BY TypesOf DEF WriteSameCbk, devVars
<1>1. /\ req[c].kind = "writesame" /\ Fits(c, cs[c]) /\ Whole(c) /\ ~IsCopy(c) /\ answer[c] = None
      /\ cs[c] \in Chains /\ cs[c].pos \in Nat /\ cs[c].left \in Nat /\ cs[c].len \in Nat
      /\ cs[c].dir = "write" /\ res[c] \in {"OK", "HW_ERR"} /\ (res[c] = "OK" => ~failed[c])
      /\ tried[c] = Span(c, cs[c].pos + cs[c].len) /\ req[c].len \in Nat
  BY <1>0, RanKnown, RunKnown, RequestKnown DEF Whole, IsCopy
<1>2. cs[c].pos + cs[c].left = req[c].len /\ cs[c].len <= cs[c].left
  BY <1>1 DEF Fits
<1>3. left \in Nat
  BY <1>1, <1>2
<1>4. CASE Finish(c, res[c]) /\ (res[c] # "OK" \/ left = 0)
  <2>1. res[c] = "OK" => cs[c].pos + cs[c].len = req[c].len
    BY <1>1, <1>2, <1>4
  <2>2. QED
    BY <1>0, <1>1, <1>4, <2>1, AllWritten, ResultStep
<1>5. CASE Finish(c, "WR_ERR")
  <2>1. "WR_ERR" \in Errors \ {"MISCOMPARE"}
    BY DEF Errors
  <2>2. QED
    BY <1>0, <1>5, <2>1, ErrorStep
<1>6. CASE Dispatch(c, s) /\ res[c] = "OK"
  <2> HIDE DEF left
  <2>1. Lesser(left, cs[c].len) \in Nat /\ Lesser(left, cs[c].len) <= left
    BY <1>1, <1>3, LesserType
  <2>2. /\ s \in Chains /\ s.dir = "write" /\ s.pos = cs[c].pos + cs[c].len /\ s.left = left
        /\ s.len = Lesser(left, cs[c].len)
    <3> DEFINE p == cs[c].pos + cs[c].len  n == Lesser(left, cs[c].len)
    <3>1. s = [cs[c] EXCEPT !.pos = p, !.left = left, !.len = n]
      BY <1>1 DEF Chains
    <3>2. p \in Nat /\ n \in Nat
      BY <1>1, <2>1
    <3> HIDE DEF p, n, s
    <3>3. s \in Chains /\ s.dir = "write" /\ s.pos = p /\ s.left = left /\ s.len = n
      BY <1>1, <1>3, <3>1, <3>2 DEF Chains
    <3>4. QED
      BY <3>3 DEF p, n
  <2>3. Dispatch(c, s)
    BY <1>6
  <2> HIDE DEF s
  <2>4. Fits(c, s)
    <3>1. s.pos + s.left = req[c].len
      BY <1>1, <1>2, <2>2 DEF left
    <3>2. QED
      BY <1>1, <2>1, <2>2, <3>1 DEF Fits
  <2>5. tried[c] = Span(c, Before(c, s))
    BY <1>1, <2>2 DEF Before
  <2>6. ~failed[c]
    BY <1>1, <1>6
  <2>7. QED
    BY <1>0, <1>1, <2>2, <2>3, <2>4, <2>5, <2>6, DispatchStep
<1>7. QED
  BY <1>1, <1>4, <1>5, <1>6 DEF WriteSameCbk

\* All blocks are written before they are read back.
LEMMA VerifyWriteCbkStep ==
  ASSUME BlockInv, NEW c \in Cmds, VerifyWriteCbk(c)
  PROVE  BlockInv'
<1> DEFINE s == [cs[c] EXCEPT !.dir = "read"]
<1>0. /\ Ran(c, "wverify", "write") /\ UNCHANGED <<req, res, media>>
      /\ cawLock' \in Cmds \cup {None} /\ formatting' \in BOOLEAN /\ req \in [Cmds -> Requests]
  BY TypesOf DEF VerifyWriteCbk, devVars
<1>1. /\ req[c].kind = "wverify" /\ Fits(c, cs[c]) /\ Whole(c) /\ ~IsCopy(c) /\ answer[c] = None
      /\ cs[c] \in Chains /\ res[c] \in {"OK", "HW_ERR"} /\ (res[c] = "OK" => ~failed[c])
      /\ tried[c] = Span(c, cs[c].pos + cs[c].len) /\ req[c].len \in Nat
  BY <1>0, RanKnown, RunKnown, RequestKnown DEF Whole, IsCopy
<1>2. cs[c].pos = 0 /\ cs[c].len = req[c].len
  BY <1>1 DEF Fits
<1>3. CASE Finish(c, res[c]) /\ res[c] # "OK"
  BY <1>0, <1>3, ResultStep
<1>4. CASE \E a \in Refusal : Finish(c, a)
  BY <1>0, <1>4, RefusalType, ErrorStep
<1>5. CASE Dispatch(c, s) /\ res[c] = "OK"
  <2>1. s \in Chains /\ s.dir = "read" /\ s.pos = cs[c].pos /\ s.len = cs[c].len
    BY <1>1 DEF Chains
  <2>2. Dispatch(c, s)
    BY <1>5
  <2> HIDE DEF s
  <2>3. Fits(c, s)
    BY <1>1, <1>2, <2>1 DEF Fits
  <2>4. tried[c] = Span(c, Before(c, s))
    BY <1>1, <1>2, <2>1 DEF Before
  <2>5. ~failed[c]
    BY <1>1, <1>5
  <2>6. QED
    BY <1>0, <1>1, <2>1, <2>2, <2>3, <2>4, <2>5, DispatchStep
<1>6. QED
  BY <1>3, <1>4, <1>5 DEF VerifyWriteCbk

\* What is read back differs only if another command has written.
LEMMA VerifyReadCbkStep ==
  ASSUME BlockInv, NEW c \in Cmds, VerifyReadCbk(c)
  PROVE  BlockInv'
<1>0. /\ Ran(c, "wverify", "read") /\ UNCHANGED <<req, res, media>>
      /\ cawLock' \in Cmds \cup {None} /\ formatting' \in BOOLEAN /\ req \in [Cmds -> Requests]
  BY TypesOf DEF VerifyReadCbk, devVars
<1>1. /\ req[c].kind = "wverify" /\ Fits(c, cs[c]) /\ Whole(c) /\ Running(c) /\ ~IsCopy(c)
      /\ res[c] \in {"OK", "HW_ERR"} /\ (res[c] = "OK" => ~failed[c])
      /\ tried[c] = Span(c, Before(c, cs[c])) /\ cs[c].dir = "read" /\ st[c] = "ran"
  BY <1>0, RanKnown, RunKnown DEF Whole, IsCopy
<1>2. tried[c] = Intended(c)
  BY <1>0, <1>1, FullSpan DEF Before
<1>3. CASE res[c] # "OK" \/ Equal(cs[c].buf, req[c].val)
  <2>1. Finish(c, res[c])
    BY <1>1, <1>3 DEF VerifyReadCbk
  <2>2. QED
    BY <1>0, <1>2, <2>1, ResultStep
<1>4. CASE res[c] = "OK" /\ ~Equal(cs[c].buf, req[c].val)
  <2>1. Finish(c, "MISCOMPARE")
    BY <1>4 DEF VerifyReadCbk
  <2>2. ~Sole(c)
    BY <1>1, <1>4 DEF BlockInv, CmdInv, Buffered, Apt, ReadDone
  <2>3. AnswerSays(c, "MISCOMPARE")
    BY <1>1, <1>4, <2>2 DEF AnswerSays
  <2>4. "MISCOMPARE" \in Errors
    BY DEF Errors
  <2>5. QED
    BY <1>0, <2>1, <2>3, <2>4, FinishStep
<1>5. QED
  BY <1>3, <1>4

\* What is written is what was read.
LEMMA XcopyReadCbkStep ==
  ASSUME BlockInv, NEW c \in Cmds, XcopyReadCbk(c)
  PROVE  BlockInv'
<1> DEFINE s == [cs[c] EXCEPT !.dir = "write"]
<1>0. /\ Ran(c, "xcopy", "read") /\ UNCHANGED <<req, res, media>>
      /\ cawLock' \in Cmds \cup {None} /\ formatting' \in BOOLEAN /\ CmdInv(c)
  BY TypesOf DEF XcopyReadCbk, devVars, BlockInv
<1>1. /\ req[c].kind = "xcopy" /\ IsCopy(c) /\ Fits(c, cs[c]) /\ answer[c] = None /\ cs[c].dir = "read"
      /\ cs[c] \in Chains /\ res[c] \in {"OK", "HW_ERR"} /\ (res[c] = "OK" => ~failed[c])
      /\ (Whole(c) => tried[c] = Span(c, Before(c, cs[c]))) /\ Running(c) /\ st[c] = "ran"
  BY <1>0, RanKnown, RunKnown DEF IsCopy
<1>2. CASE Finish(c, res[c]) /\ res[c] # "OK"
  BY <1>0, <1>2, ResultStep
<1>3. CASE \E a \in Refusal : Finish(c, a)
  BY <1>0, <1>3, RefusalType, ErrorStep
<1>4. CASE Dispatch(c, s) /\ res[c] = "OK"
  <2>1. /\ s \in Chains /\ s.dir = "write" /\ s.pos = cs[c].pos /\ s.left = cs[c].left
        /\ s.step = cs[c].step /\ s.len = cs[c].len /\ s.buf = cs[c].buf
    BY <1>1 DEF Chains
  <2>2. Dispatch(c, s)
    BY <1>4
  <2> HIDE DEF s
  <2>3. Fits(c, s)
    BY <1>1, <2>1 DEF Fits
  <2>4. Whole(c) => tried[c] = Span(c, Before(c, s))
    BY <1>1, <2>1 DEF Before
  <2>5. ReadDone(c) /\ ~failed[c]
    BY <1>1, <1>4 DEF ReadDone
  <2>6. s.buf \in Buf(s.len)
    BY <1>0, <1>1, <2>1, <2>5 DEF CmdInv, Chained
  <2>7. Sole(c) /\ Apt(c) => HoldsSource(c, s)
    <3>1. HoldsSource(c, s) <=> HoldsSource(c, cs[c])
      BY <2>1 DEF HoldsSource
    <3>2. QED
      BY <1>0, <1>1, <2>5, <3>1 DEF CmdInv, Buffered
  <2>8. QED
    BY <1>0, <1>1, <2>1, <2>2, <2>3, <2>4, <2>5, <2>6, <2>7, DispatchStep
<1>5. QED
  BY <1>2, <1>3, <1>4 DEF XcopyReadCbk

\* The next part of a copy is as long as the last, and begins after it.
LEMMA XcopyWriteCbkStep ==
  ASSUME BlockInv, NEW c \in Cmds, XcopyWriteCbk(c)
  PROVE  BlockInv'
<1> DEFINE left == cs[c].left - cs[c].step
           s == [cs[c] EXCEPT !.dir = "read", !.pos = @ + cs[c].step, !.left = left,
                              !.step = Lesser(left, @)]
<1>0. /\ Ran(c, "xcopy", "write") /\ UNCHANGED <<req, res, media>>
      /\ cawLock' \in Cmds \cup {None} /\ formatting' \in BOOLEAN /\ req \in [Cmds -> Requests]
  BY TypesOf DEF XcopyWriteCbk, devVars
<1>1. /\ req[c].kind = "xcopy" /\ IsCopy(c) /\ Fits(c, cs[c]) /\ answer[c] = None /\ cs[c] \in Chains
      /\ cs[c].pos \in Nat /\ cs[c].left \in Nat /\ cs[c].len \in Nat /\ cs[c].step \in Nat
      /\ res[c] \in {"OK", "HW_ERR"} /\ (res[c] = "OK" => ~failed[c]) /\ req[c].len \in Nat
      /\ (Whole(c) => tried[c] = Span(c, cs[c].pos + cs[c].len))
  BY <1>0, RanKnown, RunKnown, RequestKnown DEF IsCopy
<1>2. /\ cs[c].pos + cs[c].left = req[c].len /\ cs[c].step <= cs[c].left
      /\ req[c].lba + req[c].len <= NumLbas
      /\ cs[c].len = Lesser(CopyChunk, req[c].len) /\ cs[c].len > 0
      /\ WholeChunks(c) => cs[c].step = cs[c].len /\ cs[c].left > 0 /\ cs[c].left % cs[c].len = 0
  BY <1>1 DEF Fits
<1>3. left \in Nat
  BY <1>1, <1>2
<1>4. CASE Finish(c, res[c]) /\ (res[c] # "OK" \/ left = 0)
  <2>1. res[c] = "OK" /\ Whole(c) => cs[c].pos + cs[c].len = req[c].len
    BY <1>1, <1>2, <1>4 DEF Whole
  <2>2. QED
    BY <1>0, <1>1, <1>4, <2>1, AllWritten, ResultStep
<1>5. CASE \E a \in Refusal : Finish(c, a)
  BY <1>0, <1>5, RefusalType, ErrorStep
<1>6. CASE Dispatch(c, s) /\ res[c] = "OK" /\ left # 0
  <2>1. WholeChunks(c) => left % cs[c].len = 0 /\ left >= cs[c].len
    <3>1. SUFFICES ASSUME WholeChunks(c)
                   PROVE  left % cs[c].len = 0 /\ left >= cs[c].len
      OBVIOUS
    <3>2. left = cs[c].left - cs[c].len /\ left > 0
      BY <1>2, <1>3, <1>6, <3>1
    <3>3. left % cs[c].len = 0
      BY <1>1, <1>2, <3>1, <3>2, MultipleLeft
    <3> HIDE DEF left
    <3>4. QED
      BY <1>1, <1>2, <1>3, <3>2, <3>3, MultipleLeft
  <2>2. cs[c].pos + cs[c].step + left = req[c].len
    BY <1>1, <1>2
  <2> HIDE DEF left
  <2>3. Lesser(left, cs[c].step) \in Nat /\ Lesser(left, cs[c].step) <= left
    BY <1>1, <1>3, LesserType
  <2>4. WholeChunks(c) => Lesser(left, cs[c].step) = cs[c].len
    BY <1>1, <1>2, <1>3, <2>1 DEF Lesser
  <2>5. /\ s \in Chains /\ s.dir = "read" /\ s.pos = cs[c].pos + cs[c].step /\ s.left = left
        /\ s.len = cs[c].len /\ s.step = Lesser(left, cs[c].step)
    <3> DEFINE p == cs[c].pos + cs[c].step  n == Lesser(left, cs[c].step)
    <3>1. s = [cs[c] EXCEPT !.dir = "read", !.pos = p, !.left = left, !.step = n]
      BY <1>1 DEF Chains
    <3>2. p \in Nat /\ n \in Nat
      BY <1>1, <2>3
    <3> HIDE DEF p, n, s
    <3>3. /\ s \in Chains /\ s.dir = "read" /\ s.pos = p /\ s.left = left /\ s.len = cs[c].len
          /\ s.step = n
      BY <1>1, <1>3, <3>1, <3>2 DEF Chains
    <3>4. QED
      BY <3>3 DEF p, n
  <2>6. Dispatch(c, s)
    BY <1>6
  <2> HIDE DEF s
  <2>7. Fits(c, s)
    BY <1>1, <1>2, <1>3, <1>6, <2>1, <2>2, <2>3, <2>4, <2>5 DEF Fits
  <2>8. Whole(c) => tried[c] = Span(c, Before(c, s))
    BY <1>1, <1>2, <2>5 DEF Before, Whole
  <2>9. ~failed[c]
    BY <1>1, <1>6
  <2>10. QED
    BY <1>0, <1>1, <2>5, <2>6, <2>7, <2>8, <2>9, DispatchStep
<1>7. QED
  BY <1>4, <1>5, <1>6 DEF XcopyWriteCbk

\* A COMPARE AND WRITE that finds a difference has written nothing.
LEMMA CawReadCbkStep ==
  ASSUME BlockInv, NEW c \in Cmds, CawReadCbk(c)
  PROVE  BlockInv'
<1> DEFINE s == [cs[c] EXCEPT !.dir = "write"]
<1>0. /\ Ran(c, "caw", "read") /\ UNCHANGED <<req, res, media>>
      /\ cawLock' \in Cmds \cup {None} /\ formatting' \in BOOLEAN /\ req \in [Cmds -> Requests]
  BY TypesOf DEF CawReadCbk
<1>1. /\ req[c].kind = "caw" /\ ~IsCopy(c) /\ Whole(c) /\ Fits(c, cs[c]) /\ answer[c] = None
      /\ cs[c] \in Chains /\ res[c] \in {"OK", "HW_ERR"} /\ (res[c] = "OK" => ~failed[c])
      /\ tried[c] = Span(c, Before(c, cs[c]))
  BY <1>0, RanKnown, RunKnown DEF IsCopy, Whole
<1>2. cs[c].pos = 0 /\ cs[c].len = req[c].len
  BY <1>1 DEF Fits
<1>3. tried[c] = {}
  BY <1>0, <1>1, <1>2, EmptySpan DEF Before
<1>4. CASE Finish(c, res[c]) /\ res[c] # "OK"
  BY <1>0, <1>4, ResultStep
<1>5. CASE Finish(c, "MISCOMPARE") /\ res[c] = "OK"
  <2>1. AnswerSays(c, "MISCOMPARE")
    BY <1>1, <1>3, <1>5 DEF AnswerSays
  <2>2. "MISCOMPARE" \in Errors
    BY DEF Errors
  <2>3. QED
    BY <1>0, <1>5, <2>1, <2>2, FinishStep
<1>6. CASE \E a \in Refusal : Finish(c, a)
  BY <1>0, <1>6, RefusalType, ErrorStep
<1>7. CASE Dispatch(c, s) /\ res[c] = "OK"
  <2>1. s \in Chains /\ s.dir = "write" /\ s.pos = cs[c].pos /\ s.len = cs[c].len
    BY <1>1 DEF Chains
  <2>2. Dispatch(c, s)
    BY <1>7
  <2> HIDE DEF s
  <2>3. Fits(c, s)
    BY <1>1, <1>2, <2>1 DEF Fits
  <2>4. tried[c] = Span(c, Before(c, s))
    BY <1>1, <1>2, <2>1 DEF Before
  <2>5. ~failed[c]
    BY <1>1, <1>7
  <2>6. QED
    BY <1>0, <1>1, <2>1, <2>2, <2>3, <2>4, <2>5, DispatchStep
<1>8. QED
  BY <1>4, <1>5, <1>6, <1>7 DEF CawReadCbk

\* The write of a COMPARE AND WRITE covers all its blocks.
LEMMA CawWriteCbkStep ==
  ASSUME BlockInv, NEW c \in Cmds, CawWriteCbk(c)
  PROVE  BlockInv'
<1>0. /\ Ran(c, "caw", "write") /\ UNCHANGED <<req, res, media>> /\ Finish(c, res[c])
      /\ cawLock' \in Cmds \cup {None} /\ formatting' \in BOOLEAN /\ req \in [Cmds -> Requests]
  BY TypesOf DEF CawWriteCbk
<1>1. req[c].kind = "caw" /\ Fits(c, cs[c]) /\ req[c].len \in Nat
  BY <1>0, RanKnown, RunKnown, RequestKnown
<1>2. cs[c].pos + cs[c].len = req[c].len
  BY <1>1 DEF Fits
<1>3. QED
  BY <1>0, <1>2, AllWritten, ResultStep

\* The next call of a format begins where the last one ended.
LEMMA FormatCbkStep ==
  ASSUME BlockInv, NEW c \in Cmds, FormatCbk(c)
  PROVE  BlockInv'
<1> DEFINE pos == cs[c].pos + cs[c].len
           s == [cs[c] EXCEPT !.pos = pos, !.len = Lesser(NumLbas - pos, @)]
<1>0. /\ Ran(c, "format", "write") /\ UNCHANGED <<req, res, media>>
      /\ cawLock' \in Cmds \cup {None} /\ formatting' \in BOOLEAN /\ req \in [Cmds -> Requests]
  BY TypesOf DEF FormatCbk
<1>1. /\ req[c].kind = "format" /\ ~IsCopy(c) /\ Whole(c) /\ Fits(c, cs[c]) /\ answer[c] = None
      /\ cs[c] \in Chains /\ cs[c].pos \in Nat /\ cs[c].len \in Nat /\ cs[c].dir = "write"
      /\ tried[c] = Span(c, pos)
  BY <1>0, RanKnown, RunKnown DEF IsCopy, Whole
<1>2. pos \in Nat /\ pos <= NumLbas /\ NumLbas \in Nat
  BY <1>1, BlockAssumption DEF Fits
<1>3. CASE Finish(c, res[c]) /\ pos = NumLbas
  BY <1>0, <1>1, <1>3, AllWritten, ResultStep
<1>4. CASE \E a \in {"NO_RESOURCE", "WR_ERR"} : Finish(c, a)
  <2>1. {"NO_RESOURCE", "WR_ERR"} \subseteq Errors \ {"MISCOMPARE"}
    BY DEF Errors
  <2>2. QED
    BY <1>0, <1>4, <2>1, ErrorStep
<1>5. CASE Dispatch(c, s)
  <2>1. NumLbas - pos \in Nat
    BY <1>2
  <2> HIDE DEF pos
  <2>2. Lesser(NumLbas - pos, cs[c].len) \in Nat /\ Lesser(NumLbas - pos, cs[c].len) <= NumLbas - pos
    BY <1>1, <2>1, LesserType
  <2>3. /\ s \in Chains /\ s.dir = "write" /\ s.pos = pos /\ s.len = Lesser(NumLbas - pos, cs[c].len)
    BY <1>1, <1>2, <2>2 DEF Chains
  <2>4. Dispatch(c, s)
    BY <1>5
  <2> HIDE DEF s
  <2>5. s.pos + s.len <= NumLbas
    BY <1>2, <2>2, <2>3
  <2>6. Fits(c, s)
    BY <1>1, <2>3, <2>5 DEF Fits
  <2>7. tried[c] = Span(c, Before(c, s))
    BY <1>1, <2>3 DEF Before
  <2>8. QED
    BY <1>0, <1>1, <2>3, <2>4, <2>6, <2>7, DispatchStep
<1>6. QED
  BY <1>3, <1>4, <1>5 DEF FormatCbk

-----------------------------------------------------------------------------
(* A command does what it says.                                            *)

\* The invariant holds at the start.
LEMMA BlockInit == Init => BlockInv
<1>1. SUFFICES ASSUME Init PROVE BlockInv
  OBVIOUS
<1>2. Typed
  <2>1. cs \in [Cmds -> Chains]
    BY <1>1, NoBuf DEF Init, Chains
  <2>2. \A c \in Cmds : /\ cs[c].dir \in {None, "read", "write"}
                        /\ {cs[c].pos, cs[c].left, cs[c].step, cs[c].len} \subseteq Nat
    BY <2>1 DEF Chains
  <2>3. /\ st \in [Cmds -> {"new", "lock", "op", "ran", "done"}] /\ req \in [Cmds -> Requests]
        /\ res \in [Cmds -> Errors \cup {"OK", None}] /\ answer \in [Cmds -> Errors \cup {"OK", None}]
        /\ failed \in [Cmds -> BOOLEAN] /\ cawLock \in Cmds \cup {None} /\ formatting \in BOOLEAN
    BY <1>1 DEF Init
  <2>4. tried \in [Cmds -> SUBSET (Devs \X Nat)] /\ \A c \in Cmds : tried[c] \subseteq Devs \X Nat
    BY <1>1 DEF Init
  <2>5. disk \in [Devs -> [Blocks -> Nat]]
    BY <1>1, InitDiskType DEF Init
  <2>6. QED
    BY <2>1, <2>2, <2>3, <2>4, <2>5 DEF Typed, TypeOK
<1>3. ASSUME NEW c \in Cmds PROVE CmdInv(c)
  <2>1. /\ st[c] = "new" /\ answer[c] = None /\ tried[c] = {} /\ ~failed[c] /\ disk = InitDisk
    BY <1>1 DEF Init
  <2>2. Waits(c) /\ Chained(c) /\ Tries(c) /\ Buffered(c)
    BY <2>1 DEF Waits, Chained, Tries, Buffered, Running
  <2>3. Answers(c) /\ Written(c)
    BY <2>1 DEF Answers, AnswerSays, Written, None
  <2>4. QED
    BY <2>2, <2>3 DEF CmdInv
<1>4. QED
  BY <1>2, <1>3 DEF BlockInv

\* Every step keeps it.
LEMMA BlockStep == BlockInv /\ [Next]_vars => BlockInv'
<1>1. SUFFICES ASSUME BlockInv, [Next]_vars PROVE BlockInv'
  OBVIOUS
<1>2. CASE UNCHANGED vars
  <2>1. /\ req' = req /\ st' = st /\ cs' = cs /\ res' = res /\ answer' = answer /\ disk' = disk
        /\ tried' = tried /\ failed' = failed /\ cawLock' = cawLock /\ formatting' = formatting
    BY <1>2 DEF vars
  <2>2. Typed'
    BY <1>1, <2>1 DEF BlockInv, Typed, TypeOK
  <2>3. ASSUME NEW d \in Cmds PROVE CmdInv(d)'
    <3>1. CmdInv(d)
      BY <1>1 DEF BlockInv
    <3>2. /\ Written(d)' /\ (Sole(d)' <=> Sole(d)) /\ (Whole(d)' <=> Whole(d))
          /\ (Apt(d)' <=> Apt(d)) /\ (IsCopy(d)' <=> IsCopy(d)) /\ Intended(d)' = Intended(d)
      BY <1>1, <2>1, DisksKept
    <3>3. Waits(d)' /\ Chained(d)'
      <4>1. Fits(d, cs[d])' <=> Fits(d, cs[d])
        BY <2>1 DEF Fits, WholeChunks
      <4>2. QED
        BY <2>1, <3>1, <3>2, <4>1 DEF CmdInv, Waits, Chained, Running, ReadDone
    <3>4. Tries(d)' /\ Answers(d)'
      <4>1. Span(d, Wrote(d))' = Span(d, Wrote(d))
        BY <2>1 DEF Span, Wrote, Before
      <4>2. QED
        BY <2>1, <3>1, <3>2, <4>1 DEF CmdInv, Tries, Answers, AnswerSays, Running
    <3>5. Buffered(d)'
      <4>1. HoldsSource(d, cs[d])' <=> HoldsSource(d, cs[d])
        BY <2>1 DEF HoldsSource
      <4>2. QED
        BY <2>1, <3>1, <3>2, <4>1 DEF CmdInv, Buffered, Running, ReadDone
    <3>6. QED
      BY <3>2, <3>3, <3>4, <3>5 DEF CmdInv
  <2>4. QED
    BY <2>2, <2>3 DEF BlockInv
<1>3. ASSUME NEW c \in Cmds, CmdStep(c) PROVE BlockInv'
  BY <1>1, <1>3, CmdRejectStep, ReadWriteStartStep, WriteSameStartStep, VerifyStartStep,
     XcopyStartStep, CawStartStep, CawLockedStep, FormatStartStep, HandlerReadStep,
     HandlerWriteStep, HandlerFailsStep, GenericCbkStep, WriteSameCbkStep, VerifyWriteCbkStep,
     VerifyReadCbkStep, XcopyReadCbkStep, XcopyWriteCbkStep, CawReadCbkStep, CawWriteCbkStep,
     FormatCbkStep DEF CmdStep
<1>4. QED
  BY <1>1, <1>2, <1>3 DEF Next, AllDone

\* The invariant says that a command does what it says.
LEMMA InvIsDoing == BlockInv => DoesWhatItSays
<1>1. SUFFICES ASSUME BlockInv PROVE DoesWhatItSays
  OBVIOUS
<1>2. TypeOK /\ disk \in [Devs -> [Blocks -> Nat]]
  BY <1>1 DEF BlockInv, Typed
<1>3. WritesOnlyIntended
  BY <1>1 DEF BlockInv, CmdInv, Tries, Whole, WritesOnlyIntended, StaysInRange
<1>4. ASSUME NEW c \in Cmds, answer[c] # None, \A d \in Cmds \ {c} : tried[d] = {},
             IsCopy(c) => WholeChunks(c) /\ ReadsFirst(c), req[c].kind = "format" => ~failed[c]
      PROVE  /\ answer[c] = "OK" => disk = Effect(c)
             /\ answer[c] = "MISCOMPARE" => req[c].kind = "caw" /\ disk = InitDisk
  <2>1. CmdInv(c) /\ Sole(c) /\ Apt(c) /\ Whole(c)
    BY <1>1, <1>4 DEF BlockInv, Sole, Apt, Whole
  <2>2. answer[c] \in {"OK", "MISCOMPARE"} =>
          \A d \in Devs, b \in Blocks :
            disk[d][b] = IF <<d, b>> \in tried[c] THEN Target(c, b) ELSE InitDisk[d][b]
    BY <1>4, <2>1 DEF CmdInv, Answers, AnswerSays, Written
  <2>3. ASSUME answer[c] = "OK" PROVE disk = Effect(c)
    <3>1. tried[c] = Intended(c)
      BY <2>1, <2>3 DEF CmdInv, Answers, AnswerSays
    <3>2. \A d \in Devs, b \in Blocks : Effect(c)[d][b] =
            IF <<d, b>> \in Intended(c) THEN Target(c, b) ELSE InitDisk[d][b]
      BY DEF Effect, Target, IsCopy
    <3>3. \A d \in Devs, b \in Blocks : disk[d][b] = Effect(c)[d][b]
      BY <2>2, <2>3, <3>1, <3>2
    <3>4. /\ DOMAIN Effect(c) = Devs /\ Effect(c) = [d \in Devs |-> Effect(c)[d]]
          /\ \A d \in Devs : DOMAIN Effect(c)[d] = Blocks /\ Effect(c)[d] = [b \in Blocks |-> Effect(c)[d][b]]
      BY DEF Effect
    <3>5. \A d \in Devs : disk[d] = Effect(c)[d]
      BY <1>2, <3>3, <3>4
    <3>6. QED
      BY <1>2, <3>4, <3>5
  <2>4. ASSUME answer[c] = "MISCOMPARE" PROVE req[c].kind = "caw" /\ disk = InitDisk
    <3>1. req[c].kind = "caw" /\ tried[c] = {}
      BY <2>1, <2>4 DEF CmdInv, Answers, AnswerSays
    <3>2. \A d \in Devs, b \in Blocks : disk[d][b] = InitDisk[d][b]
      BY <2>2, <2>4, <3>1
    <3>3. \A d \in Devs : disk[d] = InitDisk[d]
      BY <1>2, <3>2, InitDiskType
    <3>4. QED
      BY <1>2, <3>1, <3>3, InitDiskType
  <2>5. QED
    BY <2>3, <2>4
<1>5. GoodMeansEffect
  BY <1>4 DEF GoodMeansEffect
<1>6. QED
  BY <1>2, <1>3, <1>5 DEF DoesWhatItSays

\* A command writes no block it does not name, and one that is answered with GOOD
\* has had the whole effect it is defined by when no other has written, whatever
\* failed.  The statement says nothing of copies with a shorter last step
\* (handle_xcopy_write_cbk gives them more blocks than they have left), nothing of
\* the effect of copies that overwrite what they have yet to read, nor of that of a
\* FORMAT UNIT after a failed call, which handle_format_unit_cbk overlooks.
THEOREM CommandsDoWhatTheySay == Spec => []DoesWhatItSays
<1>1. Spec => []BlockInv
  BY BlockInit, BlockStep, PTL DEF Spec
<1>2. QED
  BY <1>1, InvIsDoing, PTL

-----------------------------------------------------------------------------
(* FORMATTING.                                                             *)

\* One format at a time: the flag, which its start finds clear, says whether
\* there is one.
Formats(c) == req[c].kind = "format" /\ Running(c)
FormatInv == (formatting <=> \E c \in Cmds : Formats(c)) /\ \A c, d \in Cmds : Formats(c) /\ Formats(d) => c = d

\* A step that starts and ends no format.
LEMMA FormatKept ==
  ASSUME FormatInv, NEW c \in Cmds, req' = req, formatting' = formatting,
         \A d \in Cmds : d # c => st'[d] = st[d], Formats(c)' <=> Formats(c)
  PROVE  FormatInv'
<1>1. \A d \in Cmds : Formats(d)' <=> Formats(d)
  BY DEF Formats, Running
<1>2. QED
  BY <1>1 DEF FormatInv

\* A step of a command that is no format.
LEMMA OtherKindStep ==
  ASSUME Typed, FormatInv, NEW c \in Cmds, req[c].kind # "format", req' = req,
         formatting' = formatting, NEW x, st' = [st EXCEPT ![c] = x]
  PROVE  FormatInv'
<1>1. (\A d \in Cmds : d # c => st'[d] = st[d]) /\ (Formats(c)' <=> Formats(c))
  BY DEF Typed, TypeOK, Formats
<1>2. QED
  BY <1>1, FormatKept

\* The flag and the running format go together in every step.
LEMMA FormatStep == BlockInv /\ FormatInv /\ [Next]_vars => FormatInv'
<1>0. SUFFICES ASSUME BlockInv, FormatInv, [Next]_vars PROVE FormatInv'
  OBVIOUS
<1>1. Typed /\ FormatInv /\ [Next]_vars
  BY <1>0 DEF BlockInv
<1>2. CASE UNCHANGED vars
  BY <1>1, <1>2 DEF vars, FormatInv, Formats, Running
<1>3. ASSUME NEW c \in Cmds, CmdStep(c) PROVE FormatInv'
  <2>1. st \in [Cmds -> {"new", "lock", "op", "ran", "done"}]
    BY <1>1 DEF Typed, TypeOK
  <2>2. CASE CmdReject(c)
    <3>1. st[c] = "new" /\ req' = req /\ formatting' = formatting /\ st' = [st EXCEPT ![c] = "done"]
      BY <2>2 DEF CmdReject, Finish, devVars
    <3>2. (\A d \in Cmds : d # c => st'[d] = st[d]) /\ ~Formats(c)' /\ ~Formats(c)
      BY <2>1, <3>1 DEF Formats, Running
    <3>3. QED
      BY <1>1, <3>1, <3>2, FormatKept
  <2>3. CASE HandlerRead(c) \/ HandlerWrite(c) \/ HandlerFails(c)
    <3>1. st[c] = "op" /\ req' = req /\ formatting' = formatting /\ st' = [st EXCEPT ![c] = "ran"]
      BY <2>3 DEF HandlerRead, HandlerWrite, HandlerFails, devVars
    <3>2. (\A d \in Cmds : d # c => st'[d] = st[d]) /\ (Formats(c)' <=> Formats(c))
      BY <2>1, <3>1 DEF Formats, Running
    <3>3. QED
      BY <1>1, <3>1, <3>2, FormatKept
  <2>4. CASE FormatStart(c)
    <3>1. /\ ~formatting /\ req[c].kind = "format" /\ req' = req /\ st[c] = "new"
          /\ \/ st' = [st EXCEPT ![c] = "op"] /\ formatting' = TRUE
             \/ st' = [st EXCEPT ![c] = "done"] /\ formatting' = formatting
      BY <2>4 DEF FormatStart, Starts, Dispatch, Finish
    <3>2. \A d \in Cmds : d # c => (Formats(d)' <=> Formats(d))
      BY <2>1, <3>1 DEF Formats, Running
    <3>3. \A d \in Cmds : ~Formats(d)
      BY <1>1, <3>1 DEF FormatInv
    <3>4. CASE st' = [st EXCEPT ![c] = "op"] /\ formatting' = TRUE
      <4>1. Formats(c)'
        BY <2>1, <3>1, <3>4 DEF Formats, Running
      <4>2. QED
        BY <3>2, <3>3, <3>4, <4>1 DEF FormatInv
    <3>5. CASE st' = [st EXCEPT ![c] = "done"] /\ formatting' = formatting
      <4>1. ~Formats(c)'
        BY <2>1, <3>1, <3>5 DEF Formats, Running
      <4>2. QED
        BY <3>1, <3>2, <3>3, <3>5, <4>1 DEF FormatInv
    <3>6. QED
      BY <3>1, <3>4, <3>5
  <2>5. CASE FormatCbk(c)
    <3>1. /\ req[c].kind = "format" /\ st[c] = "ran" /\ req' = req
          /\ \/ st' = [st EXCEPT ![c] = "op"] /\ formatting' = formatting
             \/ st' = [st EXCEPT ![c] = "done"] /\ formatting' = FALSE
      BY <2>5 DEF FormatCbk, Ran, Dispatch, Finish
    <3>2. \A d \in Cmds : d # c => (Formats(d)' <=> Formats(d)) /\ st'[d] = st[d]
      BY <2>1, <3>1 DEF Formats, Running
    <3>3. Formats(c) /\ \A d \in Cmds : d # c => ~Formats(d)
      BY <1>1, <3>1 DEF FormatInv, Formats, Running
    <3>4. CASE st' = [st EXCEPT ![c] = "op"] /\ formatting' = formatting
      <4>1. Formats(c)'
        BY <2>1, <3>1, <3>4 DEF Formats, Running
      <4>2. QED
        BY <1>1, <3>1, <3>2, <3>3, <3>4, <4>1, FormatKept
    <3>5. CASE st' = [st EXCEPT ![c] = "done"] /\ formatting' = FALSE
      <4>1. ~Formats(c)'
        BY <2>1, <3>1, <3>5 DEF Formats, Running
      <4>2. QED
        BY <3>2, <3>3, <3>5, <4>1 DEF FormatInv
    <3>6. QED
      BY <3>1, <3>4, <3>5
  <2>6. CASE \/ ReadWriteStart(c) \/ WriteSameStart(c) \/ VerifyStart(c) \/ XcopyStart(c) \/ CawStart(c)
    <3>1. req[c].kind # "format" /\ req' = req /\ formatting' = formatting
      BY <2>6 DEF ReadWriteStart, WriteSameStart, VerifyStart, XcopyStart, CawStart, Starts, devVars
    <3>2. \E x : st' = [st EXCEPT ![c] = x]
      BY <2>6 DEF ReadWriteStart, WriteSameStart, VerifyStart, XcopyStart, CawStart, FirstCall,
                  Dispatch, Finish
    <3>3. QED
      BY <1>1, <3>1, <3>2, OtherKindStep
  <2>7. CASE \/ GenericCbk(c) \/ WriteSameCbk(c) \/ VerifyWriteCbk(c) \/ VerifyReadCbk(c)
             \/ XcopyReadCbk(c) \/ XcopyWriteCbk(c) \/ CawReadCbk(c) \/ CawWriteCbk(c)
    <3>1. req[c].kind # "format" /\ req' = req /\ formatting' = formatting
      BY <2>7 DEF GenericCbk, WriteSameCbk, VerifyWriteCbk, VerifyReadCbk, XcopyReadCbk,
                  XcopyWriteCbk, CawReadCbk, CawWriteCbk, Ran, devVars
    <3>2. \E x : st' = [st EXCEPT ![c] = x]
      BY <2>7 DEF GenericCbk, WriteSameCbk, VerifyWriteCbk, VerifyReadCbk, XcopyReadCbk,
                  XcopyWriteCbk, CawReadCbk, CawWriteCbk, Dispatch, Finish
    <3>3. QED
      BY <1>1, <3>1, <3>2, OtherKindStep
  <2>8. CASE CawLocked(c)
    <3>1. req[c].kind # "format" /\ req' = req /\ formatting' = formatting
      BY <1>0, <2>8 DEF CawLocked, BlockInv, CmdInv, Waits
    <3>2. \E x : st' = [st EXCEPT ![c] = x]
      BY <2>8 DEF CawLocked, Dispatch, Finish
    <3>3. QED
      BY <1>1, <3>1, <3>2, OtherKindStep
  <2>9. QED
    BY <1>3, <2>2, <2>3, <2>4, <2>5, <2>6, <2>7, <2>8 DEF CmdStep
<1>4. QED
  BY <1>1, <1>2, <1>3 DEF Next, AllDone

\* FORMATTING, which refuses every other command, is set exactly while a FORMAT
\* UNIT is under way: every end of handle_format_unit_cbk clears it.
THEOREM FlagFollowsFormat == Spec => []FormattingExact
<1>1. Init => FormatInv
  BY DEF Init, FormatInv, Formats, Running
<1>2. Spec => [](BlockInv /\ FormatInv)
  BY <1>1, BlockInit, BlockStep, FormatStep, PTL DEF Spec
<1>3. FormatInv => FormattingExact
  BY DEF FormatInv, FormattingExact, Formats, Running
<1>4. QED
  BY <1>2, <1>3, PTL

-----------------------------------------------------------------------------
(* COMPARE AND WRITE.                                                      *)

\* The commands are COMPARE AND WRITEs that compete for one block.
Compete ==
    \A c, d \in Cmds :
        req[c].kind = "caw" /\ req[c].lba = req[d].lba /\ req[c].old = req[d].old
        /\ req[c].val # req[c].old /\ req[c].len > 0

\* caw_lock is held from the read to the end of the write, so that the block
\* still holds what was compared when it is written; whoever won has changed it.
Won(c) == answer[c] = "OK" \/ (st[c] = "ran" /\ cs[c].dir = "write" /\ res[c] = "OK")
Contents(c) == disk["d1"][req[c].lba]
LockInv == \A c \in Cmds : Running(c) <=> cawLock = c
Compared(c) ==
    /\ st[c] = "op" /\ cs[c].dir = "write" => Contents(c) = req[c].old
    /\ ReadDone(c) => cs[c].buf[0] = Contents(c)
    /\ Won(c) => Contents(c) # req[c].old
OneWinner == \A c, d \in Cmds : Won(c) /\ Won(d) => c = d
CawInv == Compete => LockInv /\ (\A c \in Cmds : Compared(c)) /\ OneWinner

\* A step that writes nothing and wins nothing, and takes, keeps or releases
\* the lock with the command's chain of calls.
LEMMA CawKept ==
  ASSUME Compete, CawInv, NEW c \in Cmds, req' = req, disk' = disk,
         \A d \in Cmds : d # c => st'[d] = st[d] /\ cs'[d] = cs[d] /\ res'[d] = res[d]
                                  /\ answer'[d] = answer[d],
         \/ cawLock' = cawLock /\ (Running(c)' <=> Running(c))
         \/ cawLock = None /\ cawLock' = c /\ Running(c)'
         \/ Running(c) /\ cawLock' = None /\ ~Running(c)',
         st'[c] = "op" /\ cs'[c].dir = "write" => Contents(c) = req[c].old,
         ReadDone(c)' => cs'[c].buf[0] = Contents(c),
         Won(c)' => Won(c)
  PROVE  CawInv'
<1>1. LockInv /\ (\A d \in Cmds : Compared(d)) /\ OneWinner
  BY DEF CawInv
<1>2. \A d \in Cmds : d # c => /\ Running(d)' <=> Running(d)
                               /\ ReadDone(d)' <=> ReadDone(d)
                               /\ Won(d)' <=> Won(d)
  BY DEF Running, ReadDone, Won
<1>3. LockInv'
  <2>1. \A d \in Cmds : d # None
    BY BlockAssumption
  <2>2. QED
    BY <1>1, <1>2, <2>1 DEF LockInv
<1>4. \A d \in Cmds : Contents(d)' = Contents(d)
  BY DEF Contents
<1>5. ASSUME NEW d \in Cmds PROVE Compared(d)'
  <2>1. Compared(d)
    BY <1>1
  <2>2. CASE d = c
    BY <1>4, <2>1, <2>2 DEF Compared
  <2>3. CASE d # c
    BY <1>2, <1>4, <2>1, <2>3 DEF Compared
  <2>4. QED
    BY <2>2, <2>3
<1>6. OneWinner'
  <2>1. \A d \in Cmds : Won(d)' => Won(d)
    BY <1>2
  <2>2. QED
    BY <1>1, <2>1 DEF OneWinner
<1>7. QED
  BY <1>3, <1>5, <1>6 DEF CawInv

\* What is known of a competing command whose calls run.
LEMMA CawRuns ==
  ASSUME BlockInv, Compete, NEW c \in Cmds, Running(c)
  PROVE  /\ OpDev(c) = "d1" /\ OpLba(c) = req[c].lba /\ cs[c].len = req[c].len
         /\ req[c].lba \in Nat /\ req[c].len \in Nat /\ req[c].len > 0 /\ ~IsCopy(c)
         /\ req[c].lba \in OpRange(c) /\ 0 \in 0 .. cs[c].len - 1
<1>1. /\ req[c].kind = "caw" /\ req[c].len > 0 /\ Fits(c, cs[c]) /\ req[c].dst = "d1"
      /\ req[c].lba \in Nat /\ req[c].len \in Nat
  BY RunKnown, TypesOf, RequestKnown DEF Compete
<1>2. cs[c].pos = 0 /\ cs[c].len = req[c].len /\ ~IsCopy(c)
  BY <1>1 DEF Fits, IsCopy
<1>3. OpDev(c) = "d1" /\ OpLba(c) = req[c].lba
  BY <1>1, <1>2 DEF OpDev, OpLba
<1>4. req[c].lba \in OpRange(c) /\ 0 \in 0 .. cs[c].len - 1
  BY <1>1, <1>2, <1>3 DEF OpRange
<1>5. QED
  BY <1>1, <1>2, <1>3, <1>4

\* The write of the winner: nobody has won before it, because the block still
\* holds the old contents, and nobody wins after it.
LEMMA CawWrites ==
  ASSUME BlockInv, Compete, CawInv, NEW c \in Cmds, HandlerWrite(c)
  PROVE  CawInv'
<1>1. LockInv /\ (\A d \in Cmds : Compared(d)) /\ OneWinner
  BY DEF CawInv
<1>2. /\ st[c] = "op" /\ cs[c].dir = "write" /\ req' = req /\ cs' = cs /\ answer' = answer
      /\ cawLock' = cawLock /\ st' = [st EXCEPT ![c] = "ran"] /\ res' = [res EXCEPT ![c] = "OK"]
      /\ OpRange(c) \subseteq Blocks
      /\ disk' = [disk EXCEPT ![OpDev(c)] = [b \in Blocks |->
                    IF b \notin OpRange(c) THEN @[b]
                    ELSE IF IsCopy(c) THEN cs[c].buf[b - OpLba(c)] ELSE req[c].val]]
  BY DEF HandlerWrite, devVars
<1>3. /\ Running(c) /\ Typed /\ disk \in [Devs -> [Blocks -> Nat]]
      /\ st \in [Cmds -> {"new", "lock", "op", "ran", "done"}]
  BY <1>2 DEF BlockInv, Typed, TypeOK, Running
<1>4. /\ OpDev(c) = "d1" /\ req[c].lba \in OpRange(c) /\ ~IsCopy(c)
  BY <1>3, CawRuns
<1>5. disk'["d1"][req[c].lba] = req[c].val
  BY <1>2, <1>3, <1>4 DEF Devs
<1>6. \A d \in Cmds : req[d].lba = req[c].lba /\ req[d].old = req[c].old /\ req[c].val # req[c].old
  BY DEF Compete
<1>7. \A d \in Cmds : Contents(d)' # req[d].old
  BY <1>2, <1>5, <1>6 DEF Contents
<1>8. \A d \in Cmds : Contents(d) = req[d].old
  BY <1>1, <1>2, <1>6 DEF Compared, Contents
<1>9. \A d \in Cmds : ~Won(d)
  BY <1>1, <1>8 DEF Compared
<1>10. \A d \in Cmds : d # c => ~Running(d) /\ st'[d] = st[d] /\ res'[d] = res[d]
  BY <1>1, <1>2, <1>3 DEF LockInv, Typed, TypeOK
<1>11. LockInv'
  <2>1. \A d \in Cmds : Running(d)' <=> Running(d)
    BY <1>2, <1>3, <1>10 DEF Running
  <2>2. QED
    BY <1>1, <1>2, <2>1 DEF LockInv
<1>12. \A d \in Cmds : Won(d)' => d = c
  BY <1>2, <1>9, <1>10 DEF Won
<1>13. ASSUME NEW d \in Cmds PROVE Compared(d)'
  <2>1. ~(st'[d] = "op" /\ cs'[d].dir = "write") /\ ~ReadDone(d)'
    BY <1>2, <1>3, <1>10 DEF Running, ReadDone
  <2>2. QED
    BY <1>2, <1>7, <2>1 DEF Compared
<1>14. QED
  BY <1>11, <1>12, <1>13 DEF CawInv, OneWinner

\* Every step keeps the competition's invariant.
LEMMA CawStep == BlockInv /\ CawInv /\ [Next]_vars => CawInv'
<1>0. SUFFICES ASSUME BlockInv, CawInv, [Next]_vars, Compete' PROVE CawInv'
  BY DEF CawInv
<1>1. CASE UNCHANGED vars
  BY <1>0, <1>1 DEF vars, CawInv, Compete, LockInv, Compared, OneWinner, Won, Running, ReadDone, Contents
<1>2. ASSUME NEW c \in Cmds, CmdStep(c) PROVE CawInv'
  <2>0. req' = req
    BY <1>2 DEF CmdStep, CmdReject, ReadWriteStart, WriteSameStart, VerifyStart, XcopyStart, CawStart,
         CawLocked, FormatStart, HandlerRead, HandlerWrite, HandlerFails, GenericCbk, WriteSameCbk,
         VerifyWriteCbk, VerifyReadCbk, XcopyReadCbk, XcopyWriteCbk, CawReadCbk, CawWriteCbk, FormatCbk
  <2>1. Compete /\ req[c].kind = "caw"
    BY <1>0, <2>0 DEF Compete
  <2>2. /\ Typed /\ CmdInv(c) /\ LockInv /\ Compared(c)
        /\ st \in [Cmds -> {"new", "lock", "op", "ran", "done"}] /\ cs \in [Cmds -> Chains]
        /\ res \in [Cmds -> Errors \cup {"OK", None}] /\ answer \in [Cmds -> Errors \cup {"OK", None}]
    BY <1>0, <2>1 DEF BlockInv, CawInv, Typed, TypeOK
  <2>3. CASE CmdReject(c)
    <3>1. PICK a \in Errors \ {"MISCOMPARE"} : Finish(c, a)
      <4>1. CASE formatting
        BY <2>3, <4>1 DEF CmdReject, Errors
      <4>2. CASE ~formatting
        BY <1>0, <2>3, <4>2, TypesOf, CheckSays DEF CmdReject
      <4>3. QED
        BY <4>1, <4>2
    <3>2. st[c] = "new" /\ disk' = disk /\ cawLock' = cawLock /\ res' = res
      BY <2>3 DEF CmdReject, media, devVars
    <3>3. a # "OK"
      BY <3>1 DEF Errors
    <3>4. /\ st'[c] = "done" /\ answer'[c] = a
          /\ \A d \in Cmds : d # c => st'[d] = st[d] /\ cs'[d] = cs[d] /\ res'[d] = res[d]
                                      /\ answer'[d] = answer[d]
      BY <2>2, <3>1, <3>2 DEF Finish
    <3>5. ~Running(c) /\ ~Running(c)' /\ ~ReadDone(c)' /\ ~Won(c)'
      BY <3>2, <3>3, <3>4 DEF Running, ReadDone, Won
    <3>6. QED
      BY <1>0, <2>0, <2>1, <3>2, <3>4, <3>5, CawKept
  <2>4. CASE CawStart(c)
    <3>1. /\ st[c] = "new" /\ disk' = disk /\ cawLock' = cawLock /\ res' = res /\ cs' = cs
          /\ \/ st' = [st EXCEPT ![c] = "lock"] /\ answer' = answer
             \/ st' = [st EXCEPT ![c] = "done"] /\ answer' = [answer EXCEPT ![c] = "NO_RESOURCE"]
      BY <2>4 DEF CawStart, Starts, Finish, media, devVars
    <3>2. answer[c] # "OK"
      BY <2>2, <3>1 DEF CmdInv, Answers, None
    <3>3. /\ st'[c] \in {"lock", "done"} /\ answer'[c] # "OK"
          /\ \A d \in Cmds : d # c => st'[d] = st[d] /\ cs'[d] = cs[d] /\ res'[d] = res[d]
                                      /\ answer'[d] = answer[d]
      BY <2>2, <3>1, <3>2
    <3>4. ~Running(c) /\ ~Running(c)' /\ ~ReadDone(c)' /\ ~Won(c)'
      BY <3>1, <3>3 DEF Running, ReadDone, Won
    <3>5. QED
      BY <1>0, <2>0, <2>1, <3>1, <3>3, <3>4, CawKept
  <2>5. CASE CawLocked(c)
    <3>1. st[c] = "lock" /\ cawLock = None /\ disk' = disk /\ res' = res
      BY <2>5 DEF CawLocked, media
    <3>2. answer[c] # "OK"
      BY <2>2, <3>1 DEF CmdInv, Answers, None
    <3>3. CASE Dispatch(c, NewChain("read", req[c].len, req[c].len)) /\ cawLock' = c
      <4>1. /\ st'[c] = "op" /\ cs'[c].dir = "read" /\ answer' = answer
            /\ \A d \in Cmds : d # c => st'[d] = st[d] /\ cs'[d] = cs[d]
        BY <2>2, <3>3 DEF Dispatch, NewChain
      <4>2. Running(c)' /\ ~ReadDone(c)' /\ ~Won(c)'
        BY <3>2, <4>1 DEF Running, ReadDone, Won
      <4>3. QED
        BY <1>0, <2>0, <2>1, <3>1, <3>3, <4>1, <4>2, CawKept
    <3>4. ASSUME NEW a \in Refusal, Finish(c, a), cawLock' = cawLock PROVE CawInv'
      <4>1. /\ st'[c] = "done" /\ cs' = cs /\ answer'[c] = a
            /\ \A d \in Cmds : d # c => st'[d] = st[d] /\ answer'[d] = answer[d]
        BY <2>2, <3>4 DEF Finish
      <4>2. ~Running(c) /\ ~Running(c)' /\ ~ReadDone(c)' /\ ~Won(c)'
        BY <3>1, <4>1 DEF Running, ReadDone, Won, Refusal
      <4>3. QED
        BY <1>0, <2>0, <2>1, <3>1, <3>4, <4>1, <4>2, CawKept
    <3>5. QED
      BY <2>5, <3>3, <3>4 DEF CawLocked
  <2>6. CASE HandlerRead(c)
    <3>1. /\ st[c] = "op" /\ cs[c].dir = "read" /\ answer' = answer /\ disk' = disk /\ cawLock' = cawLock
          /\ st' = [st EXCEPT ![c] = "ran"] /\ res' = [res EXCEPT ![c] = "OK"]
          /\ cs' = [cs EXCEPT ![c].buf = [k \in 0 .. cs[c].len - 1 |-> disk[OpDev(c)][OpLba(c) + k]]]
      BY <2>6 DEF HandlerRead, media, devVars
    <3>2. Running(c)
      BY <3>1 DEF Running
    <3>3. /\ OpDev(c) = "d1" /\ OpLba(c) = req[c].lba /\ req[c].lba \in Nat /\ 0 \in 0 .. cs[c].len - 1
      BY <1>0, <2>1, <3>2, CawRuns
    <3>4. /\ st'[c] = "ran" /\ cs'[c].dir = "read"
          /\ \A d \in Cmds : d # c => st'[d] = st[d] /\ cs'[d] = cs[d] /\ res'[d] = res[d]
      BY <2>2, <3>1 DEF Chains
    <3>5. cs'[c].buf[0] = Contents(c)
      <4>1. cs'[c].buf = [k \in 0 .. cs[c].len - 1 |-> disk[OpDev(c)][OpLba(c) + k]]
        BY <2>2, <3>1 DEF Chains
      <4>2. cs'[c].buf[0] = disk["d1"][req[c].lba + 0]
        BY <3>3, <4>1
      <4>3. QED
        BY <3>3, <4>2 DEF Contents
    <3>6. Running(c)' /\ (Won(c)' => Won(c))
      BY <3>1, <3>4 DEF Running, Won
    <3>7. QED
      BY <1>0, <2>0, <2>1, <3>1, <3>2, <3>4, <3>5, <3>6, CawKept
  <2>7. CASE HandlerWrite(c)
    BY <1>0, <2>1, <2>7, CawWrites
  <2>8. CASE HandlerFails(c)
    <3>1. /\ st[c] = "op" /\ answer' = answer /\ disk' = disk /\ cawLock' = cawLock /\ cs' = cs
          /\ st' = [st EXCEPT ![c] = "ran"] /\ res' = [res EXCEPT ![c] = "HW_ERR"]
      BY <2>8 DEF HandlerFails, devVars
    <3>2. /\ st'[c] = "ran" /\ res'[c] = "HW_ERR"
          /\ \A d \in Cmds : d # c => st'[d] = st[d] /\ res'[d] = res[d]
      BY <2>2, <3>1
    <3>3. Running(c) /\ Running(c)' /\ ~ReadDone(c)' /\ (Won(c)' => Won(c))
      BY <3>1, <3>2 DEF Running, ReadDone, Won
    <3>4. QED
      BY <1>0, <2>0, <2>1, <3>1, <3>2, <3>3, CawKept
  <2>9. CASE CawReadCbk(c)
    <3>1. st[c] = "ran" /\ cs[c].dir = "read" /\ disk' = disk /\ res' = res
      BY <2>9 DEF CawReadCbk, Ran, media
    <3>2. Running(c) /\ answer[c] # "OK"
      BY <2>2, <3>1 DEF Running, CmdInv, Answers, None
    <3>3. ASSUME NEW a, a # "OK", Finish(c, a), cawLock' = None PROVE CawInv'
      <4>1. /\ st'[c] = "done" /\ cs' = cs /\ answer'[c] = a
            /\ \A d \in Cmds : d # c => st'[d] = st[d] /\ answer'[d] = answer[d]
        BY <2>2, <3>3 DEF Finish
      <4>2. ~Running(c)' /\ ~ReadDone(c)' /\ ~Won(c)'
        BY <3>3, <4>1 DEF Running, ReadDone, Won
      <4>3. QED
        BY <1>0, <2>0, <2>1, <3>1, <3>2, <3>3, <4>1, <4>2, CawKept
    <3>4. CASE /\ res[c] = "OK" /\ Equal(cs[c].buf, req[c].old) /\ cawLock' = cawLock
               /\ Dispatch(c, [cs[c] EXCEPT !.dir = "write"])
      <4>1. /\ st'[c] = "op" /\ answer' = answer
            /\ \A d \in Cmds : d # c => st'[d] = st[d] /\ cs'[d] = cs[d]
        BY <2>2, <3>4 DEF Dispatch
      <4>2. ReadDone(c)
        BY <3>1, <3>4 DEF ReadDone
      <4>3. cs[c].buf \in [0 .. cs[c].len - 1 -> Nat] /\ 0 \in 0 .. cs[c].len - 1
        BY <1>0, <2>1, <2>2, <3>2, <4>2, CawRuns DEF CmdInv, Chained, Buf
      <4>4. cs[c].buf[0] = req[c].old
        BY <3>4, <4>3 DEF Equal
      <4>5. Contents(c) = req[c].old
        BY <2>2, <4>2, <4>4 DEF Compared
      <4>6. Running(c)' /\ ~ReadDone(c)' /\ ~Won(c)'
        BY <3>2, <4>1 DEF Running, ReadDone, Won
      <4>7. QED
        BY <1>0, <2>0, <2>1, <3>1, <3>2, <3>4, <4>1, <4>5, <4>6, CawKept
    <3>5. \A a \in Refusal : a # "OK"
      BY DEF Refusal
    <3>6. QED
      BY <2>9, <3>3, <3>4, <3>5 DEF CawReadCbk
  <2>10. CASE CawWriteCbk(c)
    <3>1. /\ st[c] = "ran" /\ cs[c].dir = "write" /\ disk' = disk /\ res' = res /\ cs' = cs
          /\ cawLock' = None /\ Finish(c, res[c])
      BY <2>10 DEF CawWriteCbk, Ran, media, Finish
    <3>2. /\ st'[c] = "done" /\ answer'[c] = res[c]
          /\ \A d \in Cmds : d # c => st'[d] = st[d] /\ answer'[d] = answer[d]
      BY <2>2, <3>1 DEF Finish
    <3>3. Running(c) /\ ~Running(c)' /\ ~ReadDone(c)' /\ (Won(c)' => Won(c))
      BY <3>1, <3>2 DEF Running, ReadDone, Won
    <3>4. QED
      BY <1>0, <2>0, <2>1, <3>1, <3>2, <3>3, CawKept
  <2>11. ~\/ ReadWriteStart(c) \/ WriteSameStart(c) \/ VerifyStart(c) \/ XcopyStart(c) \/ FormatStart(c)
          \/ GenericCbk(c) \/ WriteSameCbk(c) \/ VerifyWriteCbk(c) \/ VerifyReadCbk(c)
          \/ XcopyReadCbk(c) \/ XcopyWriteCbk(c) \/ FormatCbk(c)
    BY <2>1 DEF ReadWriteStart, WriteSameStart, VerifyStart, XcopyStart, FormatStart, Starts, GenericCbk,
         WriteSameCbk, VerifyWriteCbk, VerifyReadCbk, XcopyReadCbk, XcopyWriteCbk, FormatCbk, Ran
  <2>12. QED
    BY <1>2, <2>3, <2>4, <2>5, <2>6, <2>7, <2>8, <2>9, <2>10, <2>11 DEF CmdStep
<1>3. QED
  BY <1>0, <1>1, <1>2 DEF Next, AllDone

\* Of several COMPARE AND WRITE commands that expect the same old contents of a
\* block and change them, at most one succeeds, because caw_lock is held from
\* the comparison to the end of the write.
THEOREM CompareAndWriteAtomic == Spec => []OneCawWins
<1>1. Init => CawInv
  <2>1. SUFFICES ASSUME Init PROVE CawInv
    OBVIOUS
  <2>2. \A c \in Cmds : st[c] = "new" /\ answer[c] = None /\ cawLock # c
    BY <2>1, BlockAssumption DEF Init
  <2>3. \A c \in Cmds : ~Running(c) /\ ~ReadDone(c) /\ ~Won(c)
    BY <2>2 DEF Running, ReadDone, Won, None
  <2>4. QED
    BY <2>2, <2>3 DEF CawInv, LockInv, Compared, OneWinner
<1>2. Spec => []CawInv
  BY <1>1, BlockInit, BlockStep, CawStep, PTL DEF Spec
<1>3. CawInv => OneCawWins
  <2> DEFINE W == {c \in Cmds : answer[c] = "OK"}
  <2>1. SUFFICES ASSUME CawInv, Compete PROVE Cardinality(W) <= 1
    BY DEF OneCawWins, Compete
  <2>2. \A c, d \in W : c = d
    BY <2>1 DEF CawInv, OneWinner, Won
  <2> HIDE DEF W
  <2>3. CASE W = {}
    BY <2>3, FS_EmptySet
  <2>4. CASE W # {}
    <3>1. PICK c : W = {c}
      BY <2>2, <2>4
    <3>2. QED
      BY <3>1, FS_Singleton
  <2>5. QED
    BY <2>3, <2>4
<1>4. QED
  BY <1>2, <1>3, PTL

=============================================================================
