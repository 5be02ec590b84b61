----------------------------- MODULE CommandRing ----------------------------
(***************************************************************************)
(* The command ring between the kernel and libtcmu: one mailbox with the   *)
(* offsets cmd_head (kernel) and cmd_tail (user), entries of varying       *)
(* length with padding before the wrap, and libtcmu's private tail         *)
(* dev->cmd_tail of what it has fetched.  Commands are fetched in order,   *)
(* completed in any order, and an answer overwrites the oldest entry still *)
(* open, whichever command that entry once held.  The daemon may die and   *)
(* be restarted, or shut down after flushing the ring.                     *)
(*                                                                         *)
(* Offsets are in units of the ring's alignment.  tcmulib_get_next_command *)
(* and tcmulib_command_complete run in different threads; each step here   *)
(* is one loop iteration of the first and one call of the second, which    *)
(* holds rdev->lock.                                                       *)
(***************************************************************************)
EXTENDS Naturals, FiniteSets

CONSTANTS
    Ids,        \* command identifiers of the kernel
    Size,       \* cmdr_size, in units
    MaxLen,     \* longest entry, in units
    Statuses,   \* TCMU_STS_* codes the handlers return
    Faults,     \* of "crash", "expire", "badcdb", "otherop"
    ActionSupported  \* the kernel's configfs has the "action" directory

ASSUME RingAssumption ==
    /\ Size \in Nat /\ MaxLen \in Nat \ {0} /\ 2 * MaxLen < Size
    /\ Faults \subseteq {"crash", "expire", "badcdb", "otherop"}
    /\ ActionSupported \in BOOLEAN /\ IsFiniteSet(Ids)

VARIABLES
    ring,       \* the entry that starts at each offset
    head,       \* mb->cmd_head
    tail,       \* mb->cmd_tail
    devTail,    \* dev->cmd_tail
    cleaned,    \* how far the kernel has read answers (cmdr_last_cleaned)
    kst,        \* the kernel's view of each identifier
    reply,      \* the answer the initiator got to the last command, per identifier
    verdict,    \* history: the outcome handlers gave each open command
    broken,     \* the kernel met an answer for a command it does not know
    taken,      \* commands libtcmu has fetched and not completed
    daemon,     \* "up", "flushing" (shutdown begun) or "down"
    blocked     \* block_dev: the kernel sends nothing new

vars == <<ring, head, tail, devTail, cleaned, kst, reply, verdict, broken, taken, daemon,
          blocked>>
kernVars == <<kst, reply, verdict, broken>>

Offsets == 0 .. Size - 1
NoId == "no id"
Own(scsi) == [scsi |-> scsi, sense |-> "none"]
Undecided == Own("none")        \* no answer yet
TimedOut  == Own("timed out")   \* answers the kernel gives by itself
Retry     == Own("retry")
Blank == [op |-> "NONE", id |-> NoId, len |-> 1, bad |-> FALSE, rsp |-> Undecided]

\* tcmu_sts_to_scsi: the SCSI status of a TCMU_STS code; every code without a
\* status of its own is a check condition that carries sense data.
StsToScsi(s) ==
    CASE s = "OK"                     -> "GOOD"
      [] s = "NO_RESOURCE"            -> "TASK_SET_FULL"
      [] s \in {"TIMEOUT", "BUSY"}    -> "BUSY"
      [] OTHER                        -> "CHECK_CONDITION"

\* What is written to the entry for a status: sense only with a check condition.
Outcome(s) == [scsi |-> StsToScsi(s),
               sense |-> IF StsToScsi(s) = "CHECK_CONDITION" THEN s ELSE "none"]

\* Distance from offset a forward to offset b.
Dist(a, b) == (b + Size - a) % Size
Advance(o) == (o + ring[o].len) % Size

Init ==
    /\ ring = [o \in Offsets |-> Blank]
    /\ head = 0 /\ tail = 0 /\ devTail = 0 /\ cleaned = 0
    /\ kst = [i \in Ids |-> "free"] /\ reply = [i \in Ids |-> Undecided]
    /\ verdict = [i \in Ids |-> Undecided] /\ broken = FALSE
    /\ taken = {} /\ daemon = "up" /\ blocked = FALSE

-----------------------------------------------------------------------------
(* The kernel (external).                                                  *)

\* One command of some length; padding first when it does not fit before the
\* end of the ring.  One unit stays free so that head = tail means empty.
KernelQueue(i, len, bad) ==
    LET room  == Dist(head, cleaned + Size - 1)
        pad   == IF head + len > Size THEN Size - head ELSE 0
        start == (head + pad) % Size
    IN  /\ ~blocked /\ kst[i] = "free"
        /\ room >= pad + len
        /\ ring' = [o \in Offsets |->
                     IF o = start THEN [op |-> "CMD", id |-> i, len |-> len,
                                        bad |-> bad, rsp |-> Undecided]
                     ELSE IF pad > 0 /\ o = head THEN [Blank EXCEPT !.op = "PAD", !.len = pad]
                     ELSE ring[o]]
        /\ head' = (start + len) % Size
        /\ kst' = [kst EXCEPT ![i] = "sent"] /\ reply' = [reply EXCEPT ![i] = Undecided]
        /\ UNCHANGED <<tail, devTail, cleaned, verdict, broken, taken, daemon, blocked>>

\* An entry whose opcode libtcmu does not know.
KernelQueueOther ==
    /\ "otherop" \in Faults
    /\ ~blocked /\ Dist(head, cleaned + Size - 1) >= 1
    /\ ring' = [ring EXCEPT ![head] = [Blank EXCEPT !.op = "OTHER"]]
    /\ head' = (head + 1) % Size
    /\ UNCHANGED <<tail, devTail, cleaned, kernVars, taken, daemon, blocked>>

\* The kernel reads the next entry below cmd_tail: the answer of the command
\* whose identifier the entry now holds.
KernelHandleCompletion ==
    /\ cleaned # tail
    /\ cleaned' = Advance(cleaned)
    /\ ring' = [ring EXCEPT ![cleaned] = Blank]
    /\ LET e == ring[cleaned]
       IN  IF e.op # "CMD" THEN UNCHANGED kernVars
           ELSE IF kst[e.id] = "free" THEN broken' = TRUE /\ UNCHANGED <<kst, reply, verdict>>
           ELSE /\ reply' = IF kst[e.id] = "sent" THEN [reply EXCEPT ![e.id] = e.rsp] ELSE reply
                /\ kst' = [kst EXCEPT ![e.id] = "free"]
                /\ verdict' = [verdict EXCEPT ![e.id] = Undecided]
                /\ UNCHANGED broken
    /\ UNCHANGED <<head, tail, devTail, taken, daemon, blocked>>

\* cmd_time_out: the initiator gets an error; the entry stays on the ring.
KernelExpire(i) ==
    /\ "expire" \in Faults /\ kst[i] = "sent"
    /\ kst' = [kst EXCEPT ![i] = "expired"]
    /\ reply' = [reply EXCEPT ![i] = TimedOut]
    /\ UNCHANGED <<ring, head, tail, devTail, cleaned, verdict, broken, taken, daemon, blocked>>

-----------------------------------------------------------------------------
(* libtcmu.                                                                *)

\* Mutant: padding is not stepped over.
GetNextCommandStopsAtPad ==
    /\ daemon # "down" /\ devTail # head /\ ring[devTail].op # "PAD"
    /\ devTail' = Advance(devTail)
    /\ taken' = IF ring[devTail].op = "CMD" /\ ~ring[devTail].bad
                THEN taken \cup {ring[devTail].id} ELSE taken
    /\ UNCHANGED <<ring, head, tail, cleaned, kernVars, daemon, blocked>>

\* One iteration of tcmulib_get_next_command.  Padding, opcodes it does not
\* know and commands whose CDB length it does not know are stepped over.
GetNextCommand ==
    /\ daemon # "down" /\ devTail # head
    /\ devTail' = Advance(devTail)
    /\ taken' = IF ring[devTail].op = "CMD" /\ ~ring[devTail].bad
                THEN taken \cup {ring[devTail].id} ELSE taken
    /\ UNCHANGED <<ring, head, tail, cleaned, kernVars, daemon, blocked>>

\* Mutant: the answer goes to the entry at cmd_tail, padding or not.
CompletionTargetNoSkip == tail

\* The first command entry at or after cmd_tail: padding and other opcodes
\* are skipped, but not beyond cmd_head.
CompletionTarget ==
    LET skipped(o) == \A p \in Offsets :
                        Dist(tail, p) < Dist(tail, o) => ring[p].op # "CMD"
    IN  CHOOSE o \in Offsets :
          /\ Dist(tail, o) <= Dist(tail, head) /\ skipped(o)
          /\ ring[o].op = "CMD" \/ o = head

\* Mutant: the entry keeps the identifier it was queued with.
CommandCompleteKeepsId(i, s) ==
    /\ daemon # "down" /\ i \in taken
    /\ LET ent == CompletionTarget
       IN  /\ ring' = [ring EXCEPT ![ent].rsp = Outcome(s)]
           /\ tail' = Advance(ent)
    /\ taken' = taken \ {i} /\ verdict' = [verdict EXCEPT ![i] = Outcome(s)]
    /\ UNCHANGED <<head, devTail, cleaned, kst, reply, broken, daemon, blocked>>

\* tcmulib_command_complete.
CommandComplete(i, s) ==
    /\ daemon # "down" /\ i \in taken
    /\ LET ent == CompletionTarget
       IN  /\ ring' = [ring EXCEPT ![ent].id = i, ![ent].rsp = Outcome(s)]
           /\ tail' = Advance(ent)
    /\ taken' = taken \ {i} /\ verdict' = [verdict EXCEPT ![i] = Outcome(s)]
    /\ UNCHANGED <<head, devTail, cleaned, kst, reply, broken, daemon, blocked>>

-----------------------------------------------------------------------------
(* The daemon's life.                                                      *)

\* The daemon dies; the ring and the kernel's commands survive.
Crash ==
    /\ "crash" \in Faults /\ daemon # "down"
    /\ daemon' = "down" /\ taken' = {}
    /\ UNCHANGED <<ring, head, tail, devTail, cleaned, kernVars, blocked>>

\* remove_device(should_block): tcmu_block_device, where it is supported.
ShutdownBegin ==
    /\ daemon = "up" /\ daemon' = "flushing"
    /\ blocked' = ActionSupported
    /\ UNCHANGED <<ring, head, tail, devTail, cleaned, kernVars, taken>>

\* tcmu_flush_device has seen the ring empty; the device is closed and the
\* kernel unblocked.
ShutdownEnd ==
    /\ daemon = "flushing" /\ head = tail
    /\ daemon' = "down" /\ taken' = {} /\ blocked' = FALSE
    /\ UNCHANGED <<ring, head, tail, devTail, cleaned, kernVars>>

\* add_device(reopen): block, reset_ring (the kernel hands every open command
\* back for a retry), map the ring, start from cmd_tail, unblock.
Restart ==
    /\ daemon = "down" /\ daemon' = "up" /\ taken' = {} /\ blocked' = FALSE
    /\ IF ActionSupported
       THEN /\ ring' = [o \in Offsets |-> Blank]
            /\ head' = 0 /\ tail' = 0 /\ cleaned' = 0 /\ devTail' = 0
            /\ kst' = [i \in Ids |-> "free"] /\ verdict' = [i \in Ids |-> Undecided]
            /\ reply' = [i \in Ids |-> IF kst[i] = "sent" THEN Retry ELSE reply[i]]
            /\ UNCHANGED broken
       ELSE /\ devTail' = tail
            /\ UNCHANGED <<ring, head, tail, cleaned, kernVars>>

Next ==
    \/ \E i \in Ids, len \in 1 .. MaxLen, bad \in {FALSE} \cup {"badcdb" \in Faults} :
         KernelQueue(i, len, bad)
    \/ KernelQueueOther \/ KernelHandleCompletion
    \/ \E i \in Ids : KernelExpire(i)
    \/ GetNextCommand
    \/ \E i \in Ids, s \in Statuses : CommandComplete(i, s)
    \/ Crash \/ ShutdownBegin \/ ShutdownEnd \/ Restart

Spec == Init /\ [][Next]_vars

\* The command processor fetches, handlers complete what they were given, the
\* kernel reads answers (module AioQueue shows it is told of them), and a
\* shutdown that finds the ring empty goes on.
Fairness ==
    /\ WF_vars(GetNextCommand) /\ WF_vars(KernelHandleCompletion)
    /\ \A i \in Ids : WF_vars(\E s \in Statuses : CommandComplete(i, s))
    /\ WF_vars(ShutdownEnd) /\ WF_vars(Restart)

FairSpec == Spec /\ Fairness

-----------------------------------------------------------------------------
(* Properties.                                                             *)

Answers == {Outcome(s) : s \in Statuses}

TypeOK ==
    /\ ring \in [Offsets -> [op : {"NONE", "PAD", "CMD", "OTHER"}, id : Ids \cup {NoId},
                             len : 1 .. Size, bad : BOOLEAN,
                             rsp : Answers \cup {Undecided}]]
    /\ {head, tail, devTail, cleaned} \subseteq Offsets
    /\ kst \in [Ids -> {"free", "sent", "expired"}]
    /\ reply \in [Ids -> Answers \cup {Undecided, TimedOut, Retry}]
    /\ verdict \in [Ids -> Answers \cup {Undecided}]
    /\ broken \in BOOLEAN /\ taken \subseteq Ids
    /\ daemon \in {"up", "flushing", "down"} /\ blocked \in BOOLEAN

\* The kernel never reads an answer for a command it does not have open.
RingNotBroken == ~broken

\* The four offsets keep their order around the ring: the kernel reads only
\* answers, libtcmu completes only what it fetched and fetches only what was
\* queued.
PointersOrdered ==
    /\ Dist(cleaned, tail) <= Dist(cleaned, devTail)
    /\ Dist(cleaned, devTail) <= Dist(cleaned, head)

\* An answer destroys no request: the entry tcmulib_command_complete is about
\* to overwrite has already been copied out of the ring.
AnswersOverwriteFetched ==
    taken # {} => /\ ring[CompletionTarget].op = "CMD"
                  /\ Dist(tail, CompletionTarget) < Dist(tail, devTail)

\* There is an entry left to answer into for each command the handlers hold,
\* and the only entries beyond that are those of dropped commands.
Fetched(o) == Dist(cleaned, tail) <= Dist(cleaned, o) /\ Dist(cleaned, o) < Dist(cleaned, devTail)
Dropped(i) ==
    /\ kst[i] # "free" /\ i \notin taken
    /\ ~\E o \in Offsets : /\ ring[o].op = "CMD" /\ ring[o].id = i
                           /\ ring[o].rsp # Undecided \/ ~Fetched(o)
EntryPerCommand ==
    daemon # "down" =>
      Cardinality({o \in Offsets : ring[o].op = "CMD" /\ Fetched(o)})
        = Cardinality(taken) + Cardinality({i \in Ids : Dropped(i)})

\* The ring as tcmulib_get_next_command and tcmulib_command_complete need it,
\* through padding, unknown entries, crashes and restarts: the offsets in
\* order, no unread request overwritten, an entry for every command in the
\* handlers' hands, and nothing on it the kernel cannot read.
RingConsistent ==
    TypeOK /\ RingNotBroken /\ PointersOrdered /\ AnswersOverwriteFetched /\ EntryPerCommand

\* The ring implements CommandService: a command is decided once its handler
\* has called tcmulib_command_complete for it, wherever the answer went.
StageOf(i) ==
    CASE kst[i] = "free"    -> "idle"
      [] kst[i] = "sent"    -> IF verdict[i] = Undecided THEN "open" ELSE "decided"
      [] kst[i] = "expired" -> IF verdict[i] = Undecided THEN "expired" ELSE "late"

Service == INSTANCE CommandService WITH
    Outcomes <- Answers,
    stage    <- [i \in Ids |-> StageOf(i)],
    outcome  <- verdict

\* Every command is answered at most once, with the outcome decided for that
\* very command, although answers go into whichever entry is oldest.
ImplementsService == Service!Spec

\* A shutdown that waits for the ring to clear (tcmu_flush_device) ends, unless
\* a command was dropped or an unknown entry is the last one on the ring.
FlushTerminates ==
    (daemon = "flushing") ~>
      \/ daemon = "down"
      \/ \E i \in Ids : Dropped(i)
      \/ \E o \in Offsets : ring[o].op = "OTHER" /\ Fetched(o)

\* Every command the kernel sends gets an answer, from the daemon or from the
\* kernel itself, unless it is dropped.
CommandReplied == \A i \in Ids : (kst[i] = "sent") ~> (kst[i] # "sent" \/ Dropped(i))

=============================================================================
