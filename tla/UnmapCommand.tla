---------------------------- MODULE UnmapCommand ----------------------------
(***************************************************************************)
(* One UNMAP command, or one WRITE SAME with the UNMAP bit, of             *)
(* tcmur_cmd_handler.c: the command processor splits its ranges into parts *)
(* under state->lock and hands each to the handler, the parts run in any   *)
(* order in other threads, and the callback of the last one answers the    *)
(* command.  The command processor answers it where no part was started.   *)
(*                                                                         *)
(* A range is counted in blocks; lba and nlbas are unsigned 64 bit numbers *)
(* in the code, numbers below Word here.                                   *)
(***************************************************************************)
EXTENDS Naturals, Sequences

CONSTANTS
    Requests,   \* the commands to look at
    NumLbas,    \* blocks of the device
    Word,       \* 2^64
    Gran,       \* tcmu_get_dev_opt_unmap_gran
    Align,      \* tcmu_get_dev_unmap_gran_align; dev_added sets it to 0
    MaxLbaCount, MaxDescCount   \* VPD_MAX_UNMAP_*

\* The kinds of command, what is wrong with the CDB or the parameter list, and
\* the descriptors.
Heads == {"good", "anchor", "nodata", "short", "truncated"}
Desc == [lba : 0 .. Word - 1, nlbas : 0 .. Word - 1]

ASSUME UnmapAssumption ==
    /\ NumLbas \in Nat /\ Word \in Nat /\ NumLbas < Word
    /\ Gran \in 1 .. Word - 1 /\ Align \in {0, Gran}
    /\ MaxLbaCount \in 1 .. Word - 1 /\ MaxDescCount \in Nat \ {0}
    /\ \A r \in Requests :
         /\ r.kind \in {"unmap", "writesame"} /\ r.head \in Heads
         /\ r.descs \in Seq(Desc) /\ (r.kind = "writesame" => Len(r.descs) = 1)

VARIABLES
    req,        \* the command
    pool,       \* the handler has threads of its own queue (nr_threads > 0)
    pc,         \* the command processor's place in the code
    i, lba, nlbas, lbas, ret,       \* its local variables
    refcount, error, status,        \* struct unmap_state
    freed,      \* unmap_state_free was called
    parts,      \* what was handed to the handler
    unmapped,   \* blocks the handler has unmapped
    answers     \* the answers given to the command, in order

vars == <<req, pool, pc, i, lba, nlbas, lbas, ret, refcount, error, status, freed, parts,
          unmapped, answers>>
locals == <<i, lba, nlbas, lbas, ret>>
state == <<refcount, error, status, freed>>

Statuses == {"OK", "ASYNC", "NO_RESOURCE", "HW_ERR", "RANGE", "INVALID_CDB",
             "INVALID_PARAM_LIST", "INVALID_PARAM_LIST_LEN"}

Init ==
    /\ req \in Requests /\ pool \in BOOLEAN
    /\ pc = "start" /\ i = 1 /\ lba = 0 /\ nlbas = 0 /\ lbas = 0 /\ ret = "OK"
    /\ refcount = 0 /\ error = FALSE /\ status = "OK" /\ freed = FALSE
    /\ parts = <<>> /\ unmapped = {} /\ answers = <<>>

Lesser(a, b) == IF a < b THEN a ELSE b

Answer(s) == answers' = Append(answers, s)

-----------------------------------------------------------------------------
(* The command processor, with the state lock held from Begin to Unlock.   *)

CheckLbas(start, cnt) ==
    LET end == (start + cnt) % Word IN end <= NumLbas /\ end >= start

\* What handle_unmap answers before it looks at a descriptor ("ASYNC" if nothing).
HandleUnmapCheck ==
    CASE req.head = "anchor"               -> "INVALID_CDB"
      [] req.head = "nodata"               -> "OK"
      [] req.head \in {"short", "truncated"} -> "INVALID_PARAM_LIST_LEN"
      [] req.descs = <<>>                  -> "OK"
      [] Len(req.descs) > MaxDescCount     -> "INVALID_PARAM_LIST"
      [] OTHER                             -> "ASYNC"

HandleWriteSameCheck ==
    CASE req.head # "good"                 -> "INVALID_CDB"
      [] req.descs[1].nlbas = 0            -> "INVALID_CDB"
      [] ~CheckLbas(req.descs[1].lba, req.descs[1].nlbas) -> "RANGE"
      [] OTHER                             -> "ASYNC"

Check == IF req.kind = "unmap" THEN HandleUnmapCheck ELSE HandleWriteSameCheck

\* The checks fail, or an allocation does.
Reject ==
    /\ pc = "start" /\ pc' = "returned"
    /\ \/ Check # "ASYNC" /\ Answer(Check)
       \/ Check = "ASYNC" /\ Answer("NO_RESOURCE")
    /\ UNCHANGED <<req, pool, locals, state, parts, unmapped>>

\* lbas of align_and_split_unmap before its loop: Gran - (lba & (Align - 1)),
\* where an alignment of 0 makes a mask of all ones.
FirstLbas(start, cnt) ==
    LET off == IF Align = 0 THEN start ELSE start % Align
    IN  Lesser((Gran + Word - off) % Word, cnt)

BeginSplit(d) ==
    /\ lba' = d.lba /\ nlbas' = d.nlbas /\ lbas' = FirstLbas(d.lba, d.nlbas) /\ pc' = "split"

Begin ==
    /\ pc = "start" /\ Check = "ASYNC"
    /\ IF req.kind = "unmap" THEN pc' = "desc" /\ UNCHANGED <<lba, nlbas, lbas>>
       ELSE BeginSplit(req.descs[1])
    /\ UNCHANGED <<req, pool, i, ret, state, parts, unmapped, answers>>

\* The loop of handle_unmap_internal: one descriptor.
NextDescriptor ==
    /\ pc = "desc"
    /\ IF i > Len(req.descs) THEN pc' = "unlock" /\ UNCHANGED locals
       ELSE LET d == req.descs[i] IN
            /\ \/ d.nlbas > MaxLbaCount /\ ret' = "INVALID_PARAM_LIST" /\ pc' = "unlock"
                  /\ UNCHANGED <<i, lba, nlbas, lbas>>
               \/ d.nlbas <= MaxLbaCount /\ ~CheckLbas(d.lba, d.nlbas) /\ ret' = "RANGE"
                  /\ pc' = "unlock" /\ UNCHANGED <<i, lba, nlbas, lbas>>
               \/ d.nlbas = 0 /\ CheckLbas(d.lba, 0) /\ ret' = "OK" /\ i' = i + 1
                  /\ UNCHANGED <<pc, lba, nlbas, lbas>>
               \/ d.nlbas \in 1 .. MaxLbaCount /\ CheckLbas(d.lba, d.nlbas) /\ ret' = "OK"
                  /\ BeginSplit(d) /\ UNCHANGED i
    /\ UNCHANGED <<req, pool, state, parts, unmapped, answers>>

\* The loop of align_and_split_unmap: a part is queued, or started at once.
DispatchPart ==
    /\ pc = "split" /\ nlbas > 0
    /\ parts' = Append(parts, [lba |-> lba, len |-> lbas, at |-> "queued"])
    /\ refcount' = refcount + 1
    /\ nlbas' = nlbas - lbas /\ lba' = lba + lbas /\ lbas' = Lesser(Gran, nlbas')
    /\ IF nlbas' > 0 THEN UNCHANGED <<pc, i, ret>>
       ELSE ret' = "ASYNC" /\ i' = i + 1 /\ pc' = IF req.kind = "unmap" THEN "desc" ELSE "unlock"
    /\ UNCHANGED <<req, pool, error, status, freed, unmapped, answers>>

\* No memory for it; or a handler without a pool refuses it.
DispatchFails ==
    /\ pc = "split" /\ nlbas > 0 /\ pc' = "unlock"
    /\ ret' \in {"NO_RESOURCE"} \cup IF pool THEN {} ELSE {"HW_ERR"}
    /\ UNCHANGED <<req, pool, i, lba, nlbas, lbas, state, parts, unmapped, answers>>

\* Mutant: an error is returned although parts are running.
UnlockUnmapReturnsError ==
    /\ pc = "unlock" /\ req.kind = "unmap" /\ pc' = "returned"
    /\ status' = ret /\ error' = (ret # "ASYNC")
    /\ freed' = (refcount = 0)
    /\ IF ret = "ASYNC" THEN UNCHANGED answers ELSE Answer(ret)
    /\ UNCHANGED <<req, pool, locals, refcount, parts, unmapped>>

\* The label state_unlock of handle_unmap_internal.
UnlockUnmap ==
    /\ pc = "unlock" /\ req.kind = "unmap" /\ pc' = "returned"
    /\ status' = ret /\ error' = (ret # "ASYNC")
    /\ freed' = (refcount = 0)
    /\ IF refcount > 0 THEN UNCHANGED answers ELSE Answer(ret)
    /\ UNCHANGED <<req, pool, locals, refcount, parts, unmapped>>

\* The end of handle_unmap_in_writesame: status is left as it was allocated,
\* and an error is returned whether or not parts are running.
UnlockWriteSame ==
    /\ pc = "unlock" /\ req.kind = "writesame"
    /\ pc' = IF ret = "ASYNC" THEN "returned" ELSE "answer"
    /\ error' = (ret # "ASYNC")
    /\ freed' = (refcount = 0)
    /\ UNCHANGED <<req, pool, locals, refcount, status, parts, unmapped, answers>>

\* tcmur_cmdproc_thread answers with the error that was returned, the lock no
\* longer held: the callbacks of the parts may have run since.
AnswerReturned ==
    /\ pc = "answer" /\ pc' = "returned" /\ Answer(ret)
    /\ UNCHANGED <<req, pool, locals, state, parts, unmapped>>

-----------------------------------------------------------------------------
(* The parts.                                                              *)

\* rhandler->unmap runs in a worker or a thread of the handler.
PartRun(p) ==
    /\ parts[p].at = "queued"
    /\ \/ /\ parts' = [parts EXCEPT ![p].at = "ok"]
          /\ unmapped' = unmapped \cup (parts[p].lba .. parts[p].lba + parts[p].len - 1)
       \/ parts' = [parts EXCEPT ![p].at = "failed"] /\ UNCHANGED unmapped
    /\ UNCHANGED <<req, pool, pc, locals, state, answers>>

LockFree == pc \in {"start", "answer", "returned"}

\* Mutant: the status of the last part is the command's.
PartCallbackLast(p) ==
    /\ parts[p].at \in {"ok", "failed"} /\ LockFree
    /\ LET r == IF parts[p].at = "ok" THEN "OK" ELSE "HW_ERR"
       IN  /\ parts' = [parts EXCEPT ![p].at = "done"]
           /\ UNCHANGED <<error, status>>
           /\ refcount' = refcount - 1
           /\ IF refcount' > 0 THEN UNCHANGED <<freed, answers>>
              ELSE freed' = TRUE /\ Answer(IF error THEN status ELSE r)
    /\ UNCHANGED <<req, pool, pc, locals, unmapped>>

\* Mutant: the last part does not answer.
PartCallbackSilent(p) ==
    /\ parts[p].at \in {"ok", "failed"} /\ LockFree
    /\ parts' = [parts EXCEPT ![p].at = "done"]
    /\ refcount' = refcount - 1 /\ freed' = (refcount' = 0)
    /\ UNCHANGED <<req, pool, pc, locals, unmapped, error, status, answers>>

\* handle_unmap_cbk: the first error is kept, the last part answers.
PartCallback(p) ==
    /\ parts[p].at \in {"ok", "failed"} /\ LockFree
    /\ LET r == IF parts[p].at = "ok" THEN "OK" ELSE "HW_ERR"
       IN  /\ parts' = [parts EXCEPT ![p].at = "done"]
           /\ IF ~error /\ r # "OK" THEN error' = TRUE /\ status' = r
              ELSE UNCHANGED <<error, status>>
           /\ refcount' = refcount - 1
           /\ IF refcount' > 0 THEN UNCHANGED <<freed, answers>>
              ELSE freed' = TRUE /\ Answer(IF error' THEN status' ELSE r)
    /\ UNCHANGED <<req, pool, pc, locals, unmapped>>

Returned == pc = "returned" /\ (\A p \in DOMAIN parts : parts[p].at = "done") /\ UNCHANGED vars

-----------------------------------------------------------------------------
CmdprocStep ==
    \/ Reject \/ Begin \/ NextDescriptor \/ DispatchPart \/ DispatchFails
    \/ UnlockUnmap \/ UnlockWriteSame \/ AnswerReturned

Next ==
    \/ CmdprocStep
    \/ \E p \in DOMAIN parts : PartRun(p) \/ PartCallback(p)
    \/ Returned

Spec == Init /\ [][Next]_vars

\* The command processor runs, and the handler completes every part.
Fairness == WF_vars(CmdprocStep) /\ WF_vars(\E p \in DOMAIN parts : PartRun(p) \/ PartCallback(p))

FairSpec == Spec /\ Fairness

-----------------------------------------------------------------------------
(* Properties.                                                             *)

TypeOK ==
    /\ req \in Requests /\ {pool, error, freed} \subseteq BOOLEAN
    /\ pc \in {"start", "desc", "split", "unlock", "answer", "returned"}
    /\ i \in Nat \ {0} /\ {lba, nlbas, lbas, refcount} \subseteq Nat
    /\ {ret, status} \subseteq Statuses
    /\ \A p \in DOMAIN parts :
         parts[p] \in [lba : Nat, len : Nat, at : {"queued", "ok", "failed", "done"}]
    /\ unmapped \subseteq Nat
    /\ answers \in Seq(Statuses \ {"ASYNC"})

BlocksOf(d) == d.lba .. d.lba + d.nlbas - 1
Requested == UNION {BlocksOf(req.descs[k]) : k \in DOMAIN req.descs}
Outstanding == {p \in DOMAIN parts : parts[p].at # "done"}

\* A WRITE SAME that could start only some of its parts: it is answered by the
\* command processor, with the error, and by its last part, which finds the
\* status still 0 (GOOD); either may be the first.
PartlyStarted == req.kind = "writesame" /\ parts # <<>> /\ ret # "ASYNC"

\* "Some unmaps have been dispatched, so the cbk will handle releasing of
\* resources and returning the error" (handle_unmap_internal): whatever fails
\* and in whatever order the parts end, a command is answered once, after all
\* its parts, and its state freed then, a partly started WRITE SAME excepted.
AnsweredOnceAfterParts ==
    /\ freed => Outstanding = {} /\ pc \in {"answer", "returned"}
    /\ answers # <<>> /\ ~PartlyStarted => Len(answers) = 1 /\ Outstanding = {}

\* No block outside the ranges of the command is unmapped, and none that the
\* device does not have, with lba + nlbas beyond 64 bits too.
UnmapsOnlyRequested == unmapped \subseteq Requested \cap (0 .. NumLbas - 1)

\* One answer, after all parts, and only blocks that the command names.
UnmapsAsAsked == TypeOK /\ AnsweredOnceAfterParts /\ UnmapsOnlyRequested

\* The last descriptor is empty: handle_unmap_internal then takes its own
\* result, OK, for an error of the whole and the parts' errors are ignored.
EmptyTail == req.descs # <<>> /\ req.descs[Len(req.descs)].nlbas = 0

\* A command that is answered with GOOD has unmapped every block of every
\* descriptor, whichever part failed, or could not be started if it is an UNMAP.
OkMeansUnmapped ==
    answers # <<>> /\ answers[1] = "OK" /\ req.head = "good" /\ ~EmptyTail /\ ~PartlyStarted
       => unmapped = Requested

\* The command is answered.
Answered == <>(answers # <<>>)

\* "Align the start lba of a unmap request and split the large num blocks into
\* OPTIMAL UNMAP GRANULARITY size" (align_and_split_unmap).
SplitToGranularity == \A p \in DOMAIN parts : parts[p].len <= Gran

=============================================================================
