------------------------------ MODULE AioQueue ------------------------------
(***************************************************************************)
(* The threads that carry SCSI commands through one tcmu-runner device:    *)
(* the command processor (tcmur_cmdproc_thread), the io work queue threads *)
(* (io_work_queue), the threads of a handler's own library that call       *)
(* cmd->done (asynchronous handlers), and the thread that removes the      *)
(* device (dev_removed, reached from a netlink event or from the daemon's  *)
(* shutdown).  They share the io queue, the count of tracked operations    *)
(* and the count of pending wakeups of tcmur_aio.c.                        *)
(*                                                                         *)
(* Every region the code runs under one mutex or spin lock is one action;  *)
(* the thread can be preempted between any two of them.  The command ring  *)
(* appears as the sequence of commands not fetched yet; its layout is the  *)
(* business of module CommandRing.                                         *)
(***************************************************************************)
EXTENDS Naturals, Integers, Sequences, FiniteSets

CONSTANTS
    Cmds,       \* command slots of the kernel; a slot is reused once answered
    Workers,    \* io_wq_threads; {} is nr_threads = 0
    Callbacks,  \* library threads of an asynchronous handler; {} for a synchronous one
    Faults,     \* which of "expire", "nomem", "pollerror", "spurious" can occur
    Removals,   \* how the device may be removed: "netlink", "shutdown"
    MaxPending, \* bound on pending_wakeups, an unbounded counter in the code
    None        \* no command

Threads == Workers \cup Callbacks

ASSUME ConstantsAssumption ==
    /\ Workers \cap Callbacks = {}
    /\ IsFiniteSet(Cmds) /\ IsFiniteSet(Threads)
    /\ None \notin Cmds
    /\ MaxPending \in Nat \ {0, 1}
    /\ Faults \subseteq {"expire", "nomem", "pollerror", "spurious"}
    /\ Removals \subseteq {"netlink", "shutdown"}

VARIABLES
    st,             \* where each command is
    ring,           \* commands between dev->cmd_tail and mb->cmd_head
    expired,        \* commands the kernel gave up on (cmd_time_out)
    uioEvent,       \* the uio fd is readable
    queue,          \* io_wq->io_queue
    tracked,        \* aio_track->tracked_aio_ops
    pending,        \* aio_track->pending_wakeups
    emptyCond,      \* aio_track->is_empty_cond is set
    cpc, cjob,      \* the command processor: program counter, command in hand
    completed,      \* its local flag "completed"
    devStopping,    \* its local flag "dev_stopping"
    pc, job,        \* workers and library threads: program counter, command
    dead,           \* workers that were cancelled and joined
    rpc,            \* the removing thread
    stopping        \* TCMUR_DEV_FLAG_STOPPING

cmdVars  == <<st, ring, expired>>
aioVars  == <<tracked, pending, emptyCond>>
procVars == <<cpc, cjob, completed, devStopping>>
thrVars  == <<pc, job, dead>>
rmVars   == <<rpc, stopping>>
vars == <<st, ring, expired, uioEvent, queue, tracked, pending, emptyCond,
          cpc, cjob, completed, devStopping, pc, job, dead, rpc, stopping>>

CmdStates == {"free", "ring", "cmdproc", "tracked", "queued", "work",
              "inflight", "done", "rsp"}
CmdprocPCs == {"start", "fetch", "handle", "tracked", "untrack", "complete",
               "kick", "poll", "exited"}
ThreadPCs == {"top", "wait", "work", "complete", "finish", "kick", "wakefin"}
RemoverPCs == {"none", "flush", "cancel", "empty", "wait", "woken", "cmdproc",
               "stopdev", "cleanup", "done"}

Init ==
    /\ st = [c \in Cmds |-> "free"]
    /\ ring = <<>> /\ expired = {} /\ uioEvent = FALSE /\ queue = <<>>
    /\ tracked = 0 /\ pending = 0 /\ emptyCond = FALSE
    /\ cpc = "start" /\ cjob = None /\ completed = FALSE /\ devStopping = FALSE
    /\ pc = [t \in Threads |-> "top"] /\ job = [t \in Threads |-> None]
    /\ dead = {}
    /\ rpc = "none" /\ stopping = FALSE

-----------------------------------------------------------------------------
(* The kernel (external).                                                  *)

\* A new command is put on the ring and the uio fd becomes readable.  LIO
\* sends none to a device that is blocked or being removed.
KernelQueue(c) ==
    /\ rpc = "none" /\ st[c] = "free"
    /\ st' = [st EXCEPT ![c] = "ring"]
    /\ ring' = Append(ring, c)
    /\ uioEvent' = TRUE
    /\ UNCHANGED <<expired, queue, aioVars, procVars, thrVars, rmVars>>

\* cmd_time_out fires: LIO fails the command, whose entry stays on the ring.
KernelExpire(c) ==
    /\ "expire" \in Faults
    /\ st[c] # "free" /\ c \notin expired
    /\ expired' = expired \cup {c}
    /\ UNCHANGED <<st, ring, uioEvent, queue, aioVars, procVars, thrVars, rmVars>>

\* The write to the uio fd (tcmulib_processing_complete): the kernel reads
\* every response on the ring; what it is not told of stays unread.
ProcessingComplete ==
    /\ st' = [c \in Cmds |-> IF st[c] = "rsp" THEN "free" ELSE st[c]]
    /\ expired' = {c \in expired : st[c] # "rsp"}

-----------------------------------------------------------------------------
(* Tracking of outstanding operations.                                     *)

\* Mutant: the waiter for the empty queue is not signalled.
TrackFinishNoSignal == tracked' = tracked - 1 /\ UNCHANGED <<emptyCond, rmVars>>

\* The part of track_aio_request_finish every caller runs: one operation
\* less, and the waiter, if there is one, is signalled when none is left.
TrackFinish ==
    /\ tracked' = tracked - 1
    /\ IF tracked' = 0 /\ emptyCond
       THEN emptyCond' = FALSE /\ rpc' = "woken"
       ELSE UNCHANGED <<emptyCond, rpc>>
    /\ UNCHANGED stopping

-----------------------------------------------------------------------------
(* The command processor.                                                  *)

\* tcmulib_processing_start: read() clears the event.
CpStart ==
    /\ cpc = "start"
    /\ uioEvent' = FALSE /\ completed' = FALSE /\ cpc' = "fetch"
    /\ UNCHANGED <<cmdVars, queue, aioVars, cjob, devStopping, thrVars, rmVars>>

CpFetch ==
    /\ cpc = "fetch" /\ ~devStopping /\ ring # <<>>
    /\ cjob' = Head(ring) /\ ring' = Tail(ring)
    /\ st' = [st EXCEPT ![Head(ring)] = "cmdproc"]
    /\ cpc' = "handle"
    /\ UNCHANGED <<expired, uioEvent, queue, aioVars, completed, devStopping,
                   thrVars, rmVars>>

\* Mutant: the batch ends after one answer, whatever is left on the ring.
CpFetchNoneEarly ==
    /\ cpc = "fetch" /\ (devStopping \/ ring = <<>> \/ completed)
    /\ cpc' = IF completed THEN "kick" ELSE "poll"
    /\ UNCHANGED <<cmdVars, uioEvent, queue, aioVars, cjob, completed,
                   devStopping, thrVars, rmVars>>

\* Mutant: the batch of the command processor ends without the uio write.
CpFetchNoneNoKick ==
    /\ cpc = "fetch" /\ (devStopping \/ ring = <<>>)
    /\ cpc' = "poll"
    /\ UNCHANGED <<cmdVars, uioEvent, queue, aioVars, cjob, completed,
                   devStopping, thrVars, rmVars>>

\* The inner loop ends: nothing to fetch, the device is stopping, or the
\* allocation in tcmulib_get_next_command failed and returned NULL.
CpFetchNone ==
    /\ cpc = "fetch"
    /\ devStopping \/ ring = <<>> \/ "nomem" \in Faults
    /\ cpc' = IF completed THEN "kick" ELSE "poll"
    /\ UNCHANGED <<cmdVars, uioEvent, queue, aioVars, cjob, completed,
                   devStopping, thrVars, rmVars>>

\* A command answered without tracking: unit attention, format in progress,
\* or one of handle_sync_cmd.
CpHandleSync ==
    /\ cpc = "handle" /\ cpc' = "complete"
    /\ UNCHANGED <<cmdVars, uioEvent, queue, aioVars, cjob, completed,
                   devStopping, thrVars, rmVars>>

\* track_aio_request_start.
CpTrackStart ==
    /\ cpc = "handle"
    /\ tracked' = tracked + 1
    /\ st' = [st EXCEPT ![cjob] = "tracked"]
    /\ cpc' = "tracked"
    /\ UNCHANGED <<ring, expired, uioEvent, queue, pending, emptyCond, cjob,
                   completed, devStopping, thrVars, rmVars>>

\* Mutant: the error path forgets track_aio_request_finish.
CpRefuseKeepsTrack ==
    /\ cpc = "tracked" /\ cpc' = "complete"
    /\ UNCHANGED <<cmdVars, uioEvent, queue, aioVars, cjob, completed,
                   devStopping, thrVars, rmVars>>

\* In recovery, refused by ALUA, a bad LBA, no memory for the work item, or
\* an error from the handler called in this thread: the status is returned.
CpRefuse ==
    /\ cpc = "tracked" /\ cpc' = "untrack"
    /\ UNCHANGED <<cmdVars, uioEvent, queue, aioVars, cjob, completed,
                   devStopping, thrVars, rmVars>>

\* Mutant: the processor's command is forgotten before it is appended.
CpScheduleForgets ==
    /\ cpc = "tracked" /\ Workers # {}
    /\ queue' = Append(queue, None)
    /\ st' = [st EXCEPT ![cjob] = "queued"]
    /\ cpc' = "fetch" /\ cjob' = None
    /\ UNCHANGED <<ring, expired, uioEvent, aioVars, completed, devStopping,
                   thrVars, rmVars>>

\* Mutant: aio_schedule without the signal.
CpScheduleNoSignal ==
    /\ cpc = "tracked" /\ Workers # {}
    /\ queue' = Append(queue, cjob)
    /\ st' = [st EXCEPT ![cjob] = "queued"]
    /\ cpc' = "fetch" /\ cjob' = None
    /\ UNCHANGED <<ring, expired, uioEvent, aioVars, completed, devStopping,
                   thrVars, rmVars>>

\* aio_schedule: append the work item and wake one idle worker.
CpSchedule ==
    /\ cpc = "tracked" /\ Workers # {}
    /\ queue' = Append(queue, cjob)
    /\ st' = [st EXCEPT ![cjob] = "queued"]
    /\ LET sleeping == {w \in Workers \ dead : pc[w] = "wait"}
       IN  IF sleeping = {} THEN pc' = pc
           ELSE \E w \in sleeping : pc' = [pc EXCEPT ![w] = "top"]
    /\ cpc' = "fetch" /\ cjob' = None
    /\ UNCHANGED <<ring, expired, uioEvent, aioVars, completed, devStopping,
                   job, dead, rmVars>>

\* async_handle_cmd with nr_threads = 0: the handler starts the operation.
CpSubmit ==
    /\ cpc = "tracked" /\ Workers = {} /\ Callbacks # {}
    /\ st' = [st EXCEPT ![cjob] = "inflight"]
    /\ cpc' = "fetch" /\ cjob' = None
    /\ UNCHANGED <<ring, expired, uioEvent, queue, aioVars, completed,
                   devStopping, thrVars, rmVars>>

\* track_aio_request_finish(rdev, NULL).
CpUntrack ==
    /\ cpc = "untrack"
    /\ TrackFinish
    /\ st' = [st EXCEPT ![cjob] = "cmdproc"]
    /\ cpc' = "complete"
    /\ UNCHANGED <<ring, expired, uioEvent, queue, pending, cjob, completed,
                   devStopping, thrVars>>

\* tcmur_command_complete of a status that is not TCMU_STS_ASYNC_HANDLED.
CpComplete ==
    /\ cpc = "complete"
    /\ st' = [st EXCEPT ![cjob] = "rsp"]
    /\ completed' = TRUE
    /\ cpc' = "fetch" /\ cjob' = None
    /\ UNCHANGED <<ring, expired, uioEvent, queue, aioVars, devStopping,
                   thrVars, rmVars>>

CpKick ==
    /\ cpc = "kick"
    /\ ProcessingComplete
    /\ cpc' = "poll"
    /\ UNCHANGED <<ring, uioEvent, queue, aioVars, cjob, completed,
                   devStopping, thrVars, rmVars>>

\* ppoll() returns POLLIN; then STOPPING is read under the state lock.
CpPoll ==
    /\ cpc = "poll" /\ uioEvent
    /\ devStopping' = (devStopping \/ stopping)
    /\ cpc' = "start"
    /\ UNCHANGED <<cmdVars, uioEvent, queue, aioVars, cjob, completed,
                   thrVars, rmVars>>

\* ppoll() fails or reports another event: the loop is left for good.
CpPollError ==
    /\ "pollerror" \in Faults
    /\ cpc = "poll" /\ cpc' = "exited"
    /\ UNCHANGED <<cmdVars, uioEvent, queue, aioVars, cjob, completed,
                   devStopping, thrVars, rmVars>>

CmdprocStep ==
    \/ CpStart \/ CpFetch \/ CpFetchNone \/ CpHandleSync \/ CpTrackStart
    \/ CpRefuse \/ CpSchedule \/ CpSubmit \/ CpUntrack \/ CpComplete
    \/ CpKick \/ CpPoll

-----------------------------------------------------------------------------
(* The io work queue threads.                                              *)

\* The head of io_work_queue's loop, under io_lock.
WorkerTake(t) ==
    /\ t \in Workers \ dead /\ pc[t] = "top" /\ queue # <<>>
    /\ job' = [job EXCEPT ![t] = Head(queue)] /\ queue' = Tail(queue)
    /\ st' = [st EXCEPT ![Head(queue)] = "work"]
    /\ pc' = [pc EXCEPT ![t] = "work"]
    /\ UNCHANGED <<ring, expired, uioEvent, aioVars, procVars, dead, rmVars>>

WorkerWait(t) ==
    /\ t \in Workers \ dead /\ pc[t] = "top" /\ queue = <<>>
    /\ pc' = [pc EXCEPT ![t] = "wait"]
    /\ UNCHANGED <<cmdVars, uioEvent, queue, aioVars, procVars, job, dead, rmVars>>

\* pthread_cond_wait may return although nobody signalled; the worker's loop
\* tests the queue again.
WorkerSpurious(t) ==
    /\ t \in Workers \ dead /\ pc[t] = "wait"
    /\ pc' = [pc EXCEPT ![t] = "top"]
    /\ UNCHANGED <<cmdVars, uioEvent, queue, aioVars, procVars, job, dead, rmVars>>

\* work->fn: a synchronous handler has called cmd->done itself, or the
\* callout returned an error and io_work_queue calls it.
WorkerDone(t) ==
    /\ t \in Workers \ dead /\ pc[t] = "work"
    /\ st' = [st EXCEPT ![job[t]] = "done"]
    /\ pc' = [pc EXCEPT ![t] = "complete"]
    /\ UNCHANGED <<ring, expired, uioEvent, queue, aioVars, procVars, job,
                   dead, rmVars>>

\* work->fn of an asynchronous handler returned TCMU_STS_OK: queued.
WorkerSubmit(t) ==
    /\ t \in Workers \ dead /\ pc[t] = "work" /\ Callbacks # {}
    /\ st' = [st EXCEPT ![job[t]] = "inflight"]
    /\ pc' = [pc EXCEPT ![t] = "top"] /\ job' = [job EXCEPT ![t] = None]
    /\ UNCHANGED <<ring, expired, uioEvent, queue, aioVars, procVars, dead, rmVars>>

\* A library thread reports the end of an operation through cmd->done.
CallbackDone(t, c) ==
    /\ t \in Callbacks /\ pc[t] = "top" /\ st[c] = "inflight"
    /\ st' = [st EXCEPT ![c] = "done"]
    /\ job' = [job EXCEPT ![t] = c] /\ pc' = [pc EXCEPT ![t] = "complete"]
    /\ UNCHANGED <<ring, expired, uioEvent, queue, aioVars, procVars, dead, rmVars>>

-----------------------------------------------------------------------------
(* aio_command_finish, run by workers and by library threads.              *)

FinishComplete(t) ==
    /\ t \notin dead /\ pc[t] = "complete"
    /\ st' = [st EXCEPT ![job[t]] = "rsp"]
    /\ pc' = [pc EXCEPT ![t] = "finish"] /\ job' = [job EXCEPT ![t] = None]
    /\ UNCHANGED <<ring, expired, uioEvent, queue, aioVars, procVars, dead, rmVars>>

\* track_aio_request_finish(rdev, &wake_up): only the first one wakes.
FinishTrack(t) ==
    /\ t \notin dead /\ pc[t] = "finish"
    /\ pending < MaxPending \/ stopping      \* the bound; no new commands once stopping
    /\ TrackFinish
    /\ pending' = pending + 1
    /\ pc' = [pc EXCEPT ![t] = IF pending' = 1 THEN "kick" ELSE "top"]
    /\ UNCHANGED <<cmdVars, uioEvent, queue, procVars, job, dead>>

FinishKick(t) ==
    /\ t \notin dead /\ pc[t] = "kick"
    /\ ProcessingComplete
    /\ pc' = [pc EXCEPT ![t] = "wakefin"]
    /\ UNCHANGED <<ring, uioEvent, queue, aioVars, procVars, job, dead, rmVars>>

\* Mutant: completions that came during the uio write are forgotten.
FinishWakeupNoRecheck(t) ==
    /\ t \notin dead /\ pc[t] = "wakefin"
    /\ pending' = 0
    /\ pc' = [pc EXCEPT ![t] = "top"]
    /\ UNCHANGED <<cmdVars, uioEvent, queue, tracked, emptyCond, procVars,
                   job, dead, rmVars>>

\* track_aio_wakeup_finish: once more for those who came meanwhile.
FinishWakeup(t) ==
    /\ t \notin dead /\ pc[t] = "wakefin"
    /\ pending' = IF pending > 1 THEN 1 ELSE 0
    /\ pc' = [pc EXCEPT ![t] = IF pending > 1 THEN "kick" ELSE "top"]
    /\ UNCHANGED <<cmdVars, uioEvent, queue, tracked, emptyCond, procVars,
                   job, dead, rmVars>>

FinishStep(t) ==
    \/ FinishComplete(t) \/ FinishTrack(t) \/ FinishKick(t) \/ FinishWakeup(t)

WorkerStep(t) ==
    \/ WorkerTake(t) \/ WorkerWait(t) \/ WorkerDone(t) \/ WorkerSubmit(t)

-----------------------------------------------------------------------------
(* Removal of the device.                                                  *)

\* The netlink event: LIO has waited for the commands it did not give up on.
RemoveByNetlink ==
    /\ "netlink" \in Removals /\ rpc = "none"
    /\ \A c \in Cmds : st[c] = "free" \/ c \in expired
    /\ rpc' = "cancel" /\ stopping' = TRUE
    /\ UNCHANGED <<cmdVars, uioEvent, queue, aioVars, procVars, thrVars>>

\* close_devices: the device is blocked (tcmu_block_device) ...
RemoveByShutdown ==
    /\ "shutdown" \in Removals /\ rpc = "none"
    /\ rpc' = "flush"
    /\ UNCHANGED <<cmdVars, uioEvent, queue, aioVars, procVars, thrVars, stopping>>

\* ... and the ring must have cleared: cmd_head = cmd_tail.
RmFlush ==
    /\ rpc = "flush" /\ \A c \in Cmds : st[c] \in {"free", "rsp"}
    /\ rpc' = "cancel" /\ stopping' = TRUE
    /\ UNCHANGED <<cmdVars, uioEvent, queue, aioVars, procVars, thrVars>>

\* tcmu_cancel_thread of one worker: the join ends when the worker reaches a
\* cancellation point, which are the wait, the handler's callout and write().
RmCancelWorker(t) ==
    /\ rpc = "cancel" /\ t \in Workers \ dead
    /\ pc[t] \in {"wait", "work", "kick"}
    /\ dead' = dead \cup {t}
    /\ UNCHANGED <<cmdVars, uioEvent, queue, aioVars, procVars, pc, job, rmVars>>

RmWorkersGone ==
    /\ rpc = "cancel" /\ Workers \subseteq dead
    /\ rpc' = "empty"
    /\ UNCHANGED <<cmdVars, uioEvent, queue, aioVars, procVars, thrVars, stopping>>

\* Mutant: the removal does not wait.
RmWaitEmptyNot ==
    /\ rpc = "empty" /\ rpc' = "cmdproc"
    /\ UNCHANGED <<cmdVars, uioEvent, queue, aioVars, procVars, thrVars, stopping>>

\* aio_wait_for_empty_queue: one test, no loop around the wait.
RmWaitEmpty ==
    /\ rpc = "empty"
    /\ IF tracked = 0
       THEN rpc' = "cmdproc" /\ UNCHANGED emptyCond
       ELSE rpc' = "wait" /\ emptyCond' = TRUE
    /\ UNCHANGED <<cmdVars, uioEvent, queue, tracked, pending, procVars,
                   thrVars, stopping>>

RmSpurious ==
    /\ "spurious" \in Faults
    /\ rpc = "wait" /\ rpc' = "woken"
    /\ UNCHANGED <<cmdVars, uioEvent, queue, aioVars, procVars, thrVars, stopping>>

RmWoken ==
    /\ rpc = "woken" /\ rpc' = "cmdproc" /\ emptyCond' = FALSE
    /\ UNCHANGED <<cmdVars, uioEvent, queue, tracked, pending, procVars,
                   thrVars, stopping>>

\* tcmu_cancel_thread of the command processor, at read, write, ppoll or in
\* the file accesses of a synchronous command.
RmCancelCmdproc ==
    /\ rpc = "cmdproc" /\ cpc \in {"start", "handle", "kick", "poll", "exited"}
    /\ cpc' = "exited" /\ rpc' = "stopdev"
    /\ UNCHANGED <<cmdVars, uioEvent, queue, aioVars, cjob, completed,
                   devStopping, thrVars, stopping>>

\* tcmur_stop_device closes the handler's device; cleanup_io_work_queue,
\* cleanup_aio_tracking and free(rdev) follow.
RmStopDevice ==
    /\ rpc = "stopdev" /\ rpc' = "cleanup"
    /\ UNCHANGED <<cmdVars, uioEvent, queue, aioVars, procVars, thrVars, stopping>>

RmCleanup ==
    /\ rpc = "cleanup" /\ rpc' = "done"
    /\ UNCHANGED <<cmdVars, uioEvent, queue, aioVars, procVars, thrVars, stopping>>

RemoverStep ==
    \/ RmFlush \/ RmWorkersGone \/ RmWaitEmpty \/ RmWoken
    \/ RmCancelCmdproc \/ RmStopDevice \/ RmCleanup
    \/ \E t \in Workers : RmCancelWorker(t)

Terminated == rpc = "done" /\ UNCHANGED vars

Next ==
    \/ \E c \in Cmds : KernelQueue(c) \/ KernelExpire(c)
    \/ CmdprocStep \/ CpPollError
    \/ \E t \in Workers : WorkerStep(t) \/ WorkerSpurious(t)
    \/ \E t \in Callbacks, c \in Cmds : CallbackDone(t, c)
    \/ \E t \in Threads : FinishStep(t)
    \/ RemoveByNetlink \/ RemoveByShutdown \/ RemoverStep \/ RmSpurious
    \/ Terminated

Spec == Init /\ [][Next]_vars

-----------------------------------------------------------------------------
(* The scheduler runs every thread; a handler ends every operation; and a  *)
(* cancelled worker ends at its next cancellation point, however often its *)
(* wait returns early.                                                     *)
Fairness ==
    /\ WF_vars(CmdprocStep) /\ WF_vars(RemoverStep)
    /\ SF_vars(\E t \in Workers : RmCancelWorker(t))
    /\ \A t \in Workers : WF_vars(WorkerStep(t))
    /\ \A t \in Threads : WF_vars(FinishStep(t))
    /\ \A c \in Cmds : SF_vars(\E t \in Callbacks : CallbackDone(t, c))

FairSpec == Spec /\ Fairness

-----------------------------------------------------------------------------
(* Properties.                                                             *)

TypeOK ==
    /\ st \in [Cmds -> CmdStates]
    /\ ring \in Seq(Cmds) /\ queue \in Seq(Cmds) /\ expired \subseteq Cmds
    /\ uioEvent \in BOOLEAN /\ emptyCond \in BOOLEAN
    /\ tracked \in Int /\ pending \in Nat
    /\ cpc \in CmdprocPCs /\ cjob \in Cmds \cup {None}
    /\ completed \in BOOLEAN /\ devStopping \in BOOLEAN
    /\ pc \in [Threads -> ThreadPCs] /\ job \in [Threads -> Cmds \cup {None}]
    /\ dead \subseteq Workers
    /\ rpc \in RemoverPCs /\ stopping \in BOOLEAN

\* Somebody is bound to write to the uio fd: the command processor at the end
\* of its batch, a thread that has not passed its wakeup yet, or the waker
\* that will find pending_wakeups above one.
CmdprocWillKick == completed /\ cpc \notin {"start", "poll", "exited"}
Waker(t) == pc[t] \in {"kick", "wakefin"}
SomeoneWillKick ==
    \/ CmdprocWillKick
    \/ \E t \in Threads \ dead : pc[t] \in {"finish", "kick"}
    \/ pending > 1 /\ \E t \in Threads \ dead : pc[t] = "wakefin"

\* The wakeup coalescing of aio_command_finish loses no completion: while the
\* device is not being torn down, a response the kernel has not read has a
\* thread that will still write to the uio fd.
NoLostCompletion == (\E c \in Cmds : st[c] = "rsp") /\ ~stopping => SomeoneWillKick

\* pending_wakeups elects exactly one waker: it is positive just when a thread
\* is in the wakeup loop (so the assertion in track_aio_wakeup_finish holds),
\* and two threads are never in the loop together.
OneWaker ==
    /\ pending > 0 <=> \E t \in Threads : Waker(t)
    /\ \A t, u \in Threads : Waker(t) /\ Waker(u) => t = u

\* The wakeup coalescing of aio_command_finish, as a whole: one thread at a time
\* is elected to tell the kernel, and no completion is forgotten by it.
WakeupsExact == NoLostCompletion /\ OneWaker

\* tracked_aio_ops counts the commands that were started and whose finish has
\* not run, so the assertion of track_aio_request_finish holds and a waiter
\* for the empty queue is signalled when the last one finishes.
TrackedExact ==
    tracked = Cardinality({c \in Cmds : st[c] \in
                             {"tracked", "queued", "work", "inflight", "done"}})
              + Cardinality({t \in Threads : pc[t] = "finish"})

\* A command is in the hands of one party: on the ring once, on the io queue
\* once, or with one thread, whatever the interleaving.
OneOwner ==
    \A c \in Cmds :
      /\ Cardinality({i \in DOMAIN ring : ring[i] = c})
           = IF st[c] = "ring" THEN 1 ELSE 0
      /\ Cardinality({i \in DOMAIN queue : queue[i] = c})
           = IF st[c] = "queued" THEN 1 ELSE 0
      /\ Cardinality({t \in Threads : job[t] = c})
           = IF st[c] \in {"work", "done"} THEN 1 ELSE 0
      /\ cjob = c <=> st[c] \in {"cmdproc", "tracked"}

\* A command is with one party from the ring to its answer, and tracked for
\* exactly as long as that party may call into the handler, on every path that
\* refuses, queues, executes or finishes it.
TrackedOnceOwned == TrackedExact /\ OneOwner

\* The signal of aio_schedule is not lost: work on the io queue always has a
\* worker that is awake, one that will come back to the head of its loop.
QueueNotStranded ==
    queue # <<>> /\ Workers # {} /\ ~stopping
      => \E w \in Workers \ dead : pc[w] # "wait"

\* The command processor never goes to sleep on unfetched commands: clearing
\* the event before looking at the ring leaves no window for a lost event.
EventNotLost ==
    ring # <<>> /\ cpc \in {"kick", "poll"} /\ ~devStopping => uioEvent

\* cleanup_io_work_queue_threads joins the workers before the handler is
\* closed: none of them is then inside a callout or the completion path.
WorkersStopped ==
    rpc \in {"stopdev", "cleanup", "done"} =>
      \A t \in Workers \ dead : pc[t] \notin {"work", "complete", "finish", "kick", "wakefin"}

\* "Running IO must be stopped before calling this" (tcmur_stop_device): once
\* the handler is closed and rdev freed, no thread is still inside the
\* completion path, which uses both.
RunningIoStopped ==
    rpc \in {"stopdev", "cleanup", "done"} =>
      \A t \in Threads \ dead : pc[t] \notin {"work", "complete", "finish", "kick", "wakefin"}

\* The assertion of cleanup_aio_tracking: no operation is tracked any more.
TrackingEmptyAtCleanup == rpc \in {"cleanup", "done"} => tracked = 0

\* dev_removed stops everything in the right order: workers joined and
\* operations drained before the handler is closed and the tracking destroyed.
RemovalOrderly == WorkersStopped /\ TrackingEmptyAtCleanup

\* Every command the kernel sends is answered, and the kernel is told so.
CommandAnswered == \A c \in Cmds : (st[c] = "ring") ~> (st[c] = "free")

\* A removal that has begun ends: dev_removed returns and the device is freed.
RemovalTerminates == (rpc # "none") ~> (rpc = "done")

=============================================================================
