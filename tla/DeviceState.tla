----------------------------- MODULE DeviceState ----------------------------
(***************************************************************************)
(* The life of one device with a handler that can lose its connection and  *)
(* its lock (implicit ALUA failover): the flags and the lock state under   *)
(* rdev->state_lock, and the threads that act on them.                     *)
(*                                                                         *)
(*   "lock"  the detached thread of alua_implicit_transition, which runs   *)
(*           tcmu_acquire_dev_lock and may reopen the device itself;       *)
(*   "rec"   the recovery thread of a target port group,                   *)
(*           tgt_port_grp_recovery_thread_fn, which reopens the device;    *)
(*   "rm"    the thread that removes the device, dev_removed and           *)
(*           tcmur_stop_device.                                            *)
(*                                                                         *)
(* The command processor takes commands through tcmur_cmd_handler; the     *)
(* handler completes them from its own threads.  Every action is a region  *)
(* under one lock or one call into the handler or the kernel.              *)
(***************************************************************************)
EXTENDS Naturals, FiniteSets

CONSTANTS
    Cmds,       \* commands the kernel may have outstanding
    Environments, \* the environments to look at: sets of what may happen
    MaxUnblock  \* bound on lock threads that are past their last lock

AllEvents ==
    {"locklost", "connlost",            \* the handler loses its lock, its connection
     "fenced", "timeout",               \* what rhandler->lock returns
     "openfail",                        \* rhandler->open fails
     "disablefail", "enablefail",       \* a configfs write to the group fails
     "noport",                          \* no recovery can be started
     "nothread",                        \* pthread_create fails
     "spurious",                        \* a condition wait returns unsignalled
     "remove"}                          \* the device is removed

ASSUME DeviceAssumption ==
    Environments \subseteq SUBSET AllEvents /\ MaxUnblock \in Nat \ {0}

\* The command ring has a fixed size.
ASSUME CmdsAssumption == IsFiniteSet(Cmds)

Threads == {"lock", "rec", "rm"}
NoOne == "no one"

VARIABLES
    events,     \* what may happen in this behaviour; never changes
    st,         \* each command's way through tcmur_cmd_handler
    inRecovery, isOpen, stopping,       \* TCMUR_DEV_FLAG_*
    lockState,  \* rdev->lock_state
    emptyCond,  \* whose condition variable is_empty_cond points to
    hOpen,      \* the handler's device is open
    held,       \* the handler got its lock since it was last opened, and has not lost it
    tpgEnabled, \* the target port group accepts commands
    reenable,   \* enable_tpg of the recovery thread
    blocked,    \* block_dev of the kernel device
    pc,         \* program counters of the threads
    retried,    \* retries of tcmu_acquire_dev_lock
    lockRes,    \* the lock state it is about to store
    unblocking  \* lock threads that still have to call tcmu_unblock_device

vars == <<events, st, inRecovery, isOpen, stopping, lockState, emptyCond, hOpen, held, tpgEnabled,
          reenable, blocked, pc, retried, lockRes, unblocking>>
flagVars == <<inRecovery, isOpen, stopping>>
handVars == <<hOpen, held>>
lockVars == <<retried, lockRes, unblocking>>
kernVars == <<tpgEnabled, reenable, blocked>>

\* The states of __tcmu_reopen_dev, for the thread that runs it.
ReopenPCs == {"rw", "rwWaiting", "rwWoken", "rcheck", "rcancel", "rcwait",
              "runlock", "rclose", "rtest", "ropen"}
PCs == ReopenPCs \cup
       {"idle",
        "block", "aw", "awWaiting", "awWoken", "flush", "call", "lost", "set",
        "disable", "drain", "rafter",
        "mw", "mwWaiting", "mwWoken", "lcancel", "lcwait",
        "recwait", "close", "free", "done"}
CmdStates == {"none", "queued", "check", "alua", "refuse", "running", "responded"}

Init ==
    /\ events \in Environments
    /\ st = [c \in Cmds |-> "none"]
    /\ inRecovery = FALSE /\ isOpen = TRUE /\ stopping = FALSE
    /\ lockState = "UNLOCKED" /\ emptyCond = NoOne
    /\ hOpen = TRUE /\ held = FALSE /\ tpgEnabled = TRUE /\ reenable = FALSE /\ blocked = FALSE
    /\ pc = [p \in Threads |-> "idle"]
    /\ retried = FALSE /\ lockRes = "UNLOCKED" /\ unblocking = 0

Goto(p, label) == pc' = [pc EXCEPT ![p] = label]

-----------------------------------------------------------------------------
(* Tracking: track_aio_request_finish and aio_wait_for_empty_queue.        *)

TrackedOps == Cardinality({c \in Cmds : st[c] \notin {"none", "queued"}})

\* The kernel has every response: nothing is left of the target's commands.
AllAnswered == \A c \in Cmds : st[c] \in {"none", "responded"}

\* Mutant: the waiter is signalled one command early.
TrackFinishEarly(c) ==
    /\ st' = [st EXCEPT ![c] = "none"]
    /\ IF TrackedOps \in {1, 2} /\ emptyCond # NoOne
       THEN /\ pc' = [pc EXCEPT ![emptyCond] =
                        CASE @ = "awWaiting" -> "awWoken"
                          [] @ = "rwWaiting" -> "rwWoken"
                          [] @ = "mwWaiting" -> "mwWoken"
                          [] OTHER -> @]
            /\ emptyCond' = NoOne
       ELSE UNCHANGED <<pc, emptyCond>>

\* Mutant: nobody signals the waiter.
TrackFinishSilent(c) ==
    st' = [st EXCEPT ![c] = "none"] /\ UNCHANGED <<pc, emptyCond>>

\* The last finish signals the condition variable is_empty_cond points to.
TrackFinish(c) ==
    /\ st' = [st EXCEPT ![c] = "none"]
    /\ IF TrackedOps = 1 /\ emptyCond # NoOne
       THEN /\ pc' = [pc EXCEPT ![emptyCond] =
                        CASE @ = "awWaiting" -> "awWoken"
                          [] @ = "rwWaiting" -> "rwWoken"
                          [] @ = "mwWaiting" -> "mwWoken"
                          [] OTHER -> @]
            /\ emptyCond' = NoOne
       ELSE UNCHANGED <<pc, emptyCond>>

\* One test, then one wait: is_empty_cond is overwritten, not queued on.
WaitEmpty(p, here, waiting, next) ==
    /\ pc[p] = here
    /\ IF TrackedOps = 0
       THEN Goto(p, next) /\ UNCHANGED emptyCond
       ELSE Goto(p, waiting) /\ emptyCond' = p
    /\ UNCHANGED <<events, st, flagVars, lockState, handVars, kernVars, lockVars>>

\* After the wait is_empty_cond is cleared, whoever it belongs to by now.
WokenEmpty(p, woken, next) ==
    /\ pc[p] = woken /\ Goto(p, next) /\ emptyCond' = NoOne
    /\ UNCHANGED <<events, st, flagVars, lockState, handVars, kernVars, lockVars>>

\* pthread_cond_wait may return although nobody signalled.
Spurious(p) ==
    /\ "spurious" \in events
    /\ \/ pc[p] = "awWaiting" /\ Goto(p, "awWoken")
       \/ pc[p] = "rwWaiting" /\ Goto(p, "rwWoken")
       \/ pc[p] = "mwWaiting" /\ Goto(p, "mwWoken")
       \/ pc[p] = "rcwait" /\ Goto(p, "runlock")
       \/ pc[p] = "lcwait" /\ Goto(p, "recwait")
    /\ UNCHANGED <<events, st, flagVars, lockState, emptyCond, handVars, kernVars, lockVars>>

-----------------------------------------------------------------------------
(* Commands.                                                               *)

\* The kernel puts a command on the ring, unless the device is blocked, its
\* group disabled, or the device being removed.
KernelQueue(c) ==
    /\ tpgEnabled /\ ~blocked /\ pc["rm"] = "idle" /\ st[c] = "none"
    /\ st' = [st EXCEPT ![c] = "queued"]
    /\ UNCHANGED <<events, flagVars, lockState, emptyCond, handVars, kernVars, pc, lockVars>>

\* The command processor, which has one command in hand, takes it and tracks it.
CmdStart(c) ==
    /\ st[c] = "queued" /\ \A d \in Cmds : st[d] \notin {"check", "alua", "refuse"}
    /\ st' = [st EXCEPT ![c] = "check"]
    /\ UNCHANGED <<events, flagVars, lockState, emptyCond, handVars, kernVars, pc, lockVars>>

\* tcmu_dev_in_recovery: the command is bounced with BUSY.
CmdCheckRecovery(c) ==
    /\ st[c] = "check"
    /\ st' = [st EXCEPT ![c] = IF inRecovery THEN "refuse" ELSE "alua"]
    /\ UNCHANGED <<events, flagVars, lockState, emptyCond, handVars, kernVars, pc, lockVars>>

\* alua_implicit_transition with the lock held: the handler gets the command.
CmdRun(c) ==
    /\ st[c] = "alua" /\ lockState = "LOCKED"
    /\ st' = [st EXCEPT ![c] = "running"]
    /\ UNCHANGED <<events, flagVars, lockState, emptyCond, handVars, kernVars, pc, lockVars>>

CmdTransition(c) ==
    /\ st[c] = "alua" /\ lockState = "LOCKING"
    /\ st' = [st EXCEPT ![c] = "refuse"]
    /\ UNCHANGED <<events, flagVars, lockState, emptyCond, handVars, kernVars, pc, lockVars>>

\* Without the lock a detached lock thread is started, if it can be.
CmdStartLocking(c) ==
    /\ st[c] = "alua" /\ lockState = "UNLOCKED" /\ pc["lock"] = "idle"
    /\ st' = [st EXCEPT ![c] = "refuse"]
    /\ \/ lockState' = "LOCKING" /\ Goto("lock", "block") /\ retried' = FALSE
       \/ "nothread" \in events /\ UNCHANGED <<lockState, pc, retried>>
    /\ UNCHANGED <<events, flagVars, emptyCond, handVars, kernVars, lockRes, unblocking>>

\* The untrack label of tcmur_cmd_handler.
CmdRefused(c) ==
    /\ st[c] = "refuse" /\ TrackFinish(c)
    /\ UNCHANGED <<events, flagVars, lockState, handVars, kernVars, lockVars>>

\* aio_command_finish, in a thread of the handler: the response first, the
\* tracking after it.
IoComplete(c) ==
    /\ st[c] = "running"
    /\ st' = [st EXCEPT ![c] = "responded"]
    /\ UNCHANGED <<events, flagVars, lockState, emptyCond, handVars, kernVars, pc, lockVars>>

IoFinish(c) ==
    /\ st[c] = "responded" /\ TrackFinish(c)
    /\ UNCHANGED <<events, flagVars, lockState, handVars, kernVars, lockVars>>

-----------------------------------------------------------------------------
(* Notifications of the handler.                                           *)

\* tcmu_notify_lock_lost, called before the failed command completes.
NotifyLockLost ==
    /\ "locklost" \in events /\ \E c \in Cmds : st[c] = "running"
    /\ lockState' = IF lockState = "LOCKING" THEN lockState ELSE "UNLOCKED"
    /\ held' = FALSE
    /\ UNCHANGED <<events, st, flagVars, emptyCond, hOpen, kernVars, pc, lockVars>>

\* tcmu_notify_conn_lost: nothing while stopping or in recovery, nor when no
\* enabled port is found; otherwise the recovery thread is started.  (Bound: one
\* recovery thread at a time; with the group enabled a second one could start
\* while the first, done with the device, is about to end.)
ConnLost(newpc) ==
    /\ tpgEnabled => pc["rec"] # "rafter"
    /\ IF stopping \/ inRecovery \/ ~tpgEnabled
       THEN pc' = newpc /\ UNCHANGED inRecovery
       ELSE \/ pc' = [newpc EXCEPT !["rec"] = "disable"] /\ inRecovery' = TRUE
            \/ "noport" \in events /\ pc' = newpc /\ UNCHANGED inRecovery

NotifyConnLost ==
    /\ "connlost" \in events /\ \E c \in Cmds : st[c] = "running"
    /\ ConnLost(pc)
    /\ UNCHANGED <<events, st, isOpen, stopping, lockState, emptyCond, handVars, kernVars, lockVars>>

-----------------------------------------------------------------------------
(* __tcmu_reopen_dev, run by p = "lock" or p = "rec".                      *)

\* What follows the call in tcmu_acquire_dev_lock and in the recovery thread.
AfterReopen(p, ok) ==
    IF p = "rec" THEN "rafter" ELSE IF ok THEN "call" ELSE "lost"

ReopenWait(p) ==
    \/ WaitEmpty(p, "rw", "rwWaiting", "rcheck") \/ WokenEmpty(p, "rwWoken", "rcheck")

\* STOPPING is tested first; the recovery thread then waits for the lock
\* thread (tcmu_cancel_lock_thread), the lock thread does not.
ReopenCheck(p) ==
    /\ pc[p] = "rcheck"
    /\ IF stopping
       THEN inRecovery' = FALSE /\ Goto(p, AfterReopen(p, TRUE))
       ELSE UNCHANGED inRecovery /\ Goto(p, IF p = "rec" THEN "rcancel" ELSE "runlock")
    /\ UNCHANGED <<events, st, isOpen, stopping, lockState, emptyCond, handVars, kernVars, lockVars>>

ReopenCancelLock(p) ==
    /\ pc[p] = "rcancel"
    /\ Goto(p, IF lockState = "LOCKING" THEN "rcwait" ELSE "runlock")
    /\ UNCHANGED <<events, st, flagVars, lockState, emptyCond, handVars, kernVars, lockVars>>

\* Mutant: the lock state survives the reopen.
ReopenUnlockNot(p) ==
    /\ pc[p] = "runlock" /\ Goto(p, "rclose")
    /\ UNCHANGED <<events, st, flagVars, lockState, emptyCond, handVars, kernVars, lockVars>>

ReopenUnlock(p) ==
    /\ pc[p] = "runlock" /\ Goto(p, "rclose")
    /\ lockState' = IF lockState = "LOCKING" THEN lockState ELSE "UNLOCKED"
    /\ UNCHANGED <<events, st, flagVars, emptyCond, handVars, kernVars, lockVars>>

ReopenClose(p) ==
    /\ pc[p] = "rclose" /\ Goto(p, "rtest") /\ hOpen' = FALSE /\ held' = FALSE
    /\ UNCHANGED <<events, st, flagVars, lockState, emptyCond, kernVars, lockVars>>

\* IS_OPEN is cleared; the loop is not entered when STOPPING is set by now.
ReopenTest(p) ==
    /\ pc[p] = "rtest" /\ isOpen' = FALSE
    /\ IF stopping
       THEN inRecovery' = FALSE /\ Goto(p, AfterReopen(p, FALSE))
       ELSE UNCHANGED inRecovery /\ Goto(p, "ropen")
    /\ UNCHANGED <<events, st, stopping, lockState, emptyCond, handVars, kernVars, lockVars>>

\* rhandler->open: the recovery thread tries until it succeeds or STOPPING is
\* set, the lock thread once.
ReopenOpen(p) ==
    /\ pc[p] = "ropen" /\ hOpen' = TRUE /\ isOpen' = TRUE
    /\ inRecovery' = FALSE /\ Goto(p, AfterReopen(p, TRUE))
    /\ UNCHANGED <<events, st, stopping, lockState, emptyCond, held, kernVars, lockVars>>

ReopenOpenFails(p) ==
    /\ "openfail" \in events /\ pc[p] = "ropen"
    /\ IF p = "rec" /\ ~stopping THEN UNCHANGED <<pc, inRecovery>>
       ELSE inRecovery' = FALSE /\ Goto(p, AfterReopen(p, FALSE))
    /\ UNCHANGED <<events, st, isOpen, stopping, lockState, emptyCond, handVars, kernVars, lockVars>>

ReopenStep(p) ==
    \/ ReopenWait(p) \/ ReopenCheck(p) \/ ReopenCancelLock(p) \/ ReopenUnlock(p)
    \/ ReopenClose(p) \/ ReopenTest(p) \/ ReopenOpen(p) \/ ReopenOpenFails(p)

-----------------------------------------------------------------------------
(* The recovery thread of the port group.                                  *)

\* The group is disabled and takes no new command, unless the write fails.
RecDisable ==
    /\ pc["rec"] = "disable"
    /\ \/ tpgEnabled' = FALSE /\ reenable' = TRUE /\ Goto("rec", "drain")
       \/ /\ "disablefail" \in events /\ UNCHANGED tpgEnabled /\ reenable' = FALSE
          /\ Goto("rec", "rw")
    /\ UNCHANGED <<events, st, flagVars, lockState, emptyCond, handVars, blocked, lockVars>>

\* The write returns when the target layer has no command left.
RecDrained ==
    /\ pc["rec"] = "drain" /\ AllAnswered /\ Goto("rec", "rw")
    /\ UNCHANGED <<events, st, flagVars, lockState, emptyCond, handVars, kernVars, lockVars>>

\* The result of the reopen, an error only when STOPPING is set, is looked at,
\* a disabled group enabled again, and the thread ends.
RecEnable ==
    /\ pc["rec"] = "rafter" /\ Goto("rec", "idle")
    /\ \/ tpgEnabled' = (tpgEnabled \/ reenable)
       \/ "enablefail" \in events /\ reenable /\ UNCHANGED tpgEnabled
    /\ UNCHANGED <<events, st, flagVars, lockState, emptyCond, handVars, reenable, blocked, lockVars>>

-----------------------------------------------------------------------------
(* The lock thread: tcmu_acquire_dev_lock(dev, false, -1).                 *)

LockBlock ==
    /\ pc["lock"] = "block" /\ Goto("lock", "aw") /\ blocked' = TRUE
    /\ UNCHANGED <<events, st, flagVars, lockState, emptyCond, handVars, tpgEnabled, reenable, lockVars>>

LockWait ==
    \/ WaitEmpty("lock", "aw", "awWaiting", "flush")
    \/ WokenEmpty("lock", "awWoken", "flush")

\* tcmu_flush_device: every command has its response on the ring.
LockFlush ==
    /\ pc["lock"] = "flush" /\ AllAnswered /\ Goto("lock", "call")
    /\ UNCHANGED <<events, st, flagVars, lockState, emptyCond, handVars, kernVars, lockVars>>

\* rhandler->lock succeeds or fails for good.
LockCall ==
    /\ pc["lock"] = "call" /\ Goto("lock", "set")
    /\ lockRes' \in {"LOCKED", "UNLOCKED"} /\ held' = (lockRes' = "LOCKED")
    /\ UNCHANGED <<events, st, flagVars, lockState, emptyCond, hOpen, kernVars, retried, unblocking>>

\* Mutant: the device is reopened although it is in recovery.
LockFencedAnyway ==
    /\ "fenced" \in events /\ pc["lock"] = "call"
    /\ lockRes' = "UNLOCKED"
    /\ IF retried
       THEN Goto("lock", "lost") /\ UNCHANGED <<inRecovery, retried>>
       ELSE Goto("lock", "rw") /\ inRecovery' = TRUE /\ retried' = TRUE
    /\ UNCHANGED <<events, st, isOpen, stopping, lockState, emptyCond, handVars, kernVars, unblocking>>

\* It is fenced: one reopen, unless the device is in recovery already.
LockFenced ==
    /\ "fenced" \in events /\ pc["lock"] = "call"
    /\ lockRes' = "UNLOCKED"
    /\ IF retried \/ inRecovery
       THEN Goto("lock", "lost") /\ UNCHANGED <<inRecovery, retried>>
       ELSE Goto("lock", "rw") /\ inRecovery' = TRUE /\ retried' = TRUE
    /\ UNCHANGED <<events, st, isOpen, stopping, lockState, emptyCond, handVars, kernVars, unblocking>>

LockTimeout ==
    /\ "timeout" \in events /\ pc["lock"] = "call" /\ Goto("lock", "lost")
    /\ UNCHANGED <<events, st, flagVars, lockState, emptyCond, handVars, kernVars, lockVars>>

\* It timed out, or the reopen failed: tcmu_notify_conn_lost.
LockLost ==
    /\ pc["lock"] = "lost" /\ lockRes' = "UNLOCKED"
    /\ ConnLost([pc EXCEPT !["lock"] = "set"])
    /\ UNCHANGED <<events, st, isOpen, stopping, lockState, emptyCond, handVars, kernVars,
                   retried, unblocking>>

\* Mutant: the waiters for the lock thread are not signalled.
LockSetSilent ==
    /\ pc["lock"] = "set" /\ unblocking < MaxUnblock
    /\ lockState' = lockRes /\ unblocking' = unblocking + 1 /\ Goto("lock", "idle")
    /\ UNCHANGED <<events, st, flagVars, emptyCond, handVars, kernVars, retried, lockRes>>

\* The lock state is stored and pthread_cond_signal wakes one waiter.
LockSet ==
    /\ pc["lock"] = "set" /\ unblocking < MaxUnblock
    /\ lockState' = lockRes
    /\ unblocking' = unblocking + 1
    /\ LET waiting == {p \in {"rec", "rm"} : pc[p] \in {"rcwait", "lcwait"}}
           awake   == [rec |-> "runlock", rm |-> "recwait"]
       IN  IF waiting = {} THEN Goto("lock", "idle")
           ELSE \E p \in waiting : pc' = [pc EXCEPT !["lock"] = "idle", ![p] = awake[p]]
    /\ UNCHANGED <<events, st, flagVars, emptyCond, handVars, kernVars, retried, lockRes>>

\* The last call of the thread, after it has let go of the state lock.
LockUnblock ==
    /\ unblocking > 0 /\ unblocking' = unblocking - 1 /\ blocked' = FALSE
    /\ UNCHANGED <<events, st, flagVars, lockState, emptyCond, handVars, tpgEnabled, reenable, pc,
                   retried, lockRes>>

-----------------------------------------------------------------------------
(* Removal.                                                                *)

\* dev_removed: LIO has no command open; STOPPING is set.
RmStart ==
    /\ "remove" \in events /\ pc["rm"] = "idle"
    /\ AllAnswered /\ stopping' = TRUE /\ Goto("rm", "mw")
    /\ UNCHANGED <<events, st, inRecovery, isOpen, lockState, emptyCond, handVars, kernVars, lockVars>>

RmWait ==
    \/ WaitEmpty("rm", "mw", "mwWaiting", "lcancel") \/ WokenEmpty("rm", "mwWoken", "lcancel")

\* tcmur_stop_device: tcmu_cancel_lock_thread, then tcmu_cancel_recovery.
RmCancelLock ==
    /\ pc["rm"] = "lcancel"
    /\ Goto("rm", IF lockState = "LOCKING" THEN "lcwait" ELSE "recwait")
    /\ UNCHANGED <<events, st, flagVars, lockState, emptyCond, handVars, kernVars, lockVars>>

RmCancelRecovery ==
    /\ pc["rm"] = "recwait" /\ ~inRecovery /\ Goto("rm", "close")
    /\ UNCHANGED <<events, st, flagVars, lockState, emptyCond, handVars, kernVars, lockVars>>

\* tcmu_release_dev_lock and rhandler->close, if the device is open.
RmClose ==
    /\ pc["rm"] = "close" /\ Goto("rm", "free")
    /\ IF isOpen
       THEN /\ isOpen' = FALSE /\ hOpen' = FALSE /\ held' = FALSE
            /\ lockState' = IF lockState = "LOCKED" THEN "UNLOCKED" ELSE lockState
       ELSE UNCHANGED <<isOpen, handVars, lockState>>
    /\ UNCHANGED <<events, st, inRecovery, stopping, emptyCond, kernVars, lockVars>>

\* The locks are destroyed, rdev is freed and the kernel forgets the device.
RmFree ==
    /\ pc["rm"] = "free" /\ Goto("rm", "done")
    /\ UNCHANGED <<events, st, flagVars, lockState, emptyCond, handVars, kernVars, lockVars>>

Terminated == pc["rm"] = "done" /\ UNCHANGED vars

-----------------------------------------------------------------------------
CmdStep(c) ==
    \/ CmdStart(c) \/ CmdCheckRecovery(c) \/ CmdRun(c) \/ CmdTransition(c) \/ CmdStartLocking(c)
    \/ CmdRefused(c) \/ IoComplete(c) \/ IoFinish(c)
LockStep ==
    \/ LockBlock \/ LockWait \/ LockFlush \/ LockCall \/ LockFenced \/ LockTimeout \/ LockLost
    \/ LockSet \/ ReopenStep("lock")
RecStep == RecDisable \/ RecDrained \/ RecEnable \/ ReopenStep("rec")
RmStep == RmWait \/ RmCancelLock \/ RmCancelRecovery \/ RmClose \/ RmFree

Next ==
    \/ \E c \in Cmds : KernelQueue(c) \/ CmdStep(c)
    \/ NotifyLockLost \/ NotifyConnLost
    \/ LockStep \/ LockUnblock \/ RecStep \/ RmStart \/ RmStep
    \/ \E p \in Threads : Spurious(p)
    \/ Terminated

Spec == Init /\ [][Next]_vars

\* Every thread runs, handlers complete their commands, and a handler whose
\* open is tried for ever opens in the end.
Fairness ==
    /\ \A c \in Cmds : WF_vars(CmdStep(c))
    /\ WF_vars(LockStep) /\ WF_vars(LockUnblock) /\ WF_vars(RecStep) /\ WF_vars(RmStep)
    /\ SF_vars(ReopenOpen("rec"))

FairSpec == Spec /\ Fairness

-----------------------------------------------------------------------------
(* Properties.                                                             *)

TypeOK ==
    /\ events \subseteq AllEvents
    /\ st \in [Cmds -> CmdStates]
    /\ inRecovery \in BOOLEAN /\ isOpen \in BOOLEAN /\ stopping \in BOOLEAN
    /\ hOpen \in BOOLEAN /\ held \in BOOLEAN
    /\ tpgEnabled \in BOOLEAN /\ reenable \in BOOLEAN /\ blocked \in BOOLEAN
    /\ retried \in BOOLEAN
    /\ lockState \in {"UNLOCKED", "LOCKING", "LOCKED"}
    /\ lockRes \in {"UNLOCKED", "LOCKED"}
    /\ emptyCond \in Threads \cup {NoOne}
    /\ pc \in [Threads -> PCs]
    /\ unblocking \in 0 .. MaxUnblock

\* No condition wait returns unsignalled (the code waits without a loop).
Signalled == "spurious" \notin events

\* The lock thread's one reopen, after it was fenced, may fail: the device is
\* then left closed, and IN_RECOVERY clear, with nothing to keep it from use.
ReopenMayFail == {"fenced", "openfail"} \subseteq events

\* Tracking a command before looking at IN_RECOVERY, and setting IN_RECOVERY
\* before waiting for the tracked commands, keep them apart: the handler is
\* never closed with a command or a lock call inside it, and no recovery lets
\* them in before it has opened the device again.
HandlerNotClosedInUse ==
    Signalled /\ ~ReopenMayFail /\ ~hOpen =>
        pc["lock"] # "call" /\ \A c \in Cmds : st[c] # "running"

\* IN_RECOVERY excludes a second reopen, and is set exactly while one thread
\* is reopening or about to.
OneReopener ==
    LET reopening(p) == pc[p] \in ReopenPCs \cup {"disable", "drain"}
    IN  /\ ~(reopening("lock") /\ reopening("rec"))
        /\ inRecovery <=> reopening("lock") \/ reopening("rec")

\* LOCKING is exactly the time the lock thread has work to do on the device:
\* whoever finds another state may close the device.
LockingMeansLockThread == lockState = "LOCKING" <=> pc["lock"] # "idle"

\* "Force a reacquisition of the lock when we have reopend the device"
\* (__tcmu_reopen_dev): LOCKED is never left over from before a reopen, or from
\* before the handler reported its lock lost.
LockedMeansHeld == Signalled /\ lockState = "LOCKED" => held

\* rhandler->close is called on an open device only, which is what
\* tcmur_stop_device looks at IS_OPEN for.
ClosesOnlyOpen ==
    /\ \A p \in {"lock", "rec"} : pc[p] = "rclose" => hOpen
    /\ pc["rm"] = "close" /\ isOpen => hOpen

\* As long as the lock thread's own reopen, after it was fenced, does not fail,
\* no close meets a closed device: __tcmu_reopen_dev and tcmur_stop_device
\* agree on who closes, in every order of recovery, fencing and removal.
CloseOnlyOpen == ReopenMayFail \/ ClosesOnlyOpen

\* The handler is closed only while it is open and nobody is inside it, in every
\* order of recovery, fencing, failing opens and removal.
HandlerClosedSafely == HandlerNotClosedInUse /\ CloseOnlyOpen

\* Who may touch the device: one thread reopens it, LOCKING stands for a lock
\* thread at work, and every flag and program counter is what it can be.
ThreadsExclusive == TypeOK /\ OneReopener /\ LockingMeansLockThread

\* "new commands will not be queued until the device has been reopened"
\* (tcmu_notify_conn_lost): a recovery comes to an end.
RecoveryAlwaysEnds == inRecovery ~> ~inRecovery

\* Nobody but the lock and the recovery thread waits for the queue to empty,
\* and the handler reports either its lock or its connection lost, not both:
\* is_empty_cond has one waiter at a time.
OneWaiter == Signalled /\ "remove" \notin events /\ ~({"connlost", "locklost"} \subseteq events)

\* With one waiter at a time a recovery ends, however often the open fails.
RecoveryEnds == (OneWaiter /\ inRecovery) ~> ~inRecovery

\* With one waiter at a time tcmu_acquire_dev_lock ends, fenced and reopened
\* or not, so that commands are not refused with transition for ever.
LockingEnds == (OneWaiter /\ lockState = "LOCKING") ~> (lockState # "LOCKING")

\* With one waiter at a time, neither recoveries nor lock acquisitions hang on
\* each other or on the commands they wait for.
WaitsEnd == RecoveryEnds /\ LockingEnds

\* A removal that overlaps a lock acquisition, and nothing else, ends: the
\* signal on lock_cond reaches tcmu_cancel_lock_thread.
RemovalEnds ==
    (pc["rm"] # "idle" /\ events \cap {"locklost", "connlost", "fenced", "timeout", "spurious"} = {})
      ~> (pc["rm"] = "done")

=============================================================================
