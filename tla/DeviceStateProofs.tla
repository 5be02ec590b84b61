------------------------- MODULE DeviceStateProofs --------------------------
(***************************************************************************)
(* Invariance proofs for DeviceState, for every finite set of commands and *)
(* every environment: who may touch the device, when the handler may be    *)
(* closed, and what LOCKED stands for.                                     *)
(***************************************************************************)
EXTENDS DeviceState, FiniteSetTheorems, TLAPS

-----------------------------------------------------------------------------
(* The inductive invariants.                                               *)

LockPCs == (ReopenPCs \ {"rcancel", "rcwait"}) \cup
           {"idle", "block", "aw", "awWaiting", "awWoken", "flush", "call", "lost", "set"}
RecPCs == ReopenPCs \cup {"idle", "disable", "drain", "rafter"}
RmPCs == {"idle", "mw", "mwWaiting", "mwWoken", "lcancel", "lcwait", "recwait", "close", "free", "done"}

\* Each thread runs its own code, and the lock thread reopens after it was
\* fenced only.
OwnCode ==
    /\ pc["lock"] \in LockPCs /\ pc["rec"] \in RecPCs /\ pc["rm"] \in RmPCs
    /\ pc["lock"] \in ReopenPCs => "fenced" \in events

ExclusiveInv == ThreadsExclusive /\ OwnCode

\* STOPPING is set once LIO has no command left, and none comes after it.
StoppingInv ==
    /\ stopping <=> pc["rm"] # "idle"
    /\ stopping => AllAnswered

\* A thread past its wait for the empty queue finds no command that could be
\* inside the handler or start a lock thread.
Harmless == \A c \in Cmds : st[c] \in {"none", "queued", "check", "refuse"}
DrainedInv ==
    Signalled => \A p \in {"lock", "rec"} : pc[p] \in ReopenPCs \ {"rw", "rwWaiting"} => Harmless

\* After tcmu_flush_device the lock thread has the handler to itself.
FlushedInv ==
    pc["lock"] \in {"call", "lost", "set"} \cup ReopenPCs => \A c \in Cmds : st[c] # "running"

\* tcmu_cancel_lock_thread works: there is no lock thread after it.
CancelledInv ==
    Signalled /\ (\/ pc["rec"] \in {"runlock", "rclose", "rtest", "ropen"}
                  \/ pc["rm"] \in {"recwait", "close", "free", "done"})
      => pc["lock"] = "idle"

\* A lock about to be stored, and a lock stored, are held.
HeldInv ==
    /\ Signalled /\ pc["lock"] = "set" /\ lockRes = "LOCKED" => held
    /\ Signalled /\ pc["rec"] = "rclose" => lockState # "LOCKED"
    /\ LockedMeansHeld

\* Who closed the handler, and who will open it again.
OpenInv ==
    /\ pc["rm"] \in {"close", "free", "done"} =>
         \A p \in {"lock", "rec"} :
            pc[p] \notin {"rcancel", "rcwait", "runlock", "rclose", "rtest", "ropen"}
    /\ \A p \in {"lock", "rec"} : pc[p] \in {"rtest", "ropen"} => ~hOpen
    /\ isOpen /\ ~hOpen => \E p \in {"lock", "rec"} : pc[p] = "rtest"
    /\ ~ReopenMayFail /\ ~hOpen =>
         /\ stopping \/ \E p \in {"lock", "rec"} : pc[p] \in {"rtest", "ropen"}
         /\ \A p \in {"lock", "rec"} : pc[p] \notin {"rcancel", "rcwait", "runlock", "rclose"}
         /\ Signalled => pc["lock"] \in {"rtest", "ropen", "lost", "set", "idle"}

GuardInv == StoppingInv /\ DrainedInv /\ FlushedInv /\ CancelledInv /\ HeldInv /\ OpenInv

-----------------------------------------------------------------------------
(* Tracking.                                                               *)

\* With nothing tracked no command is past its start in tcmur_cmd_handler.
LEMMA NothingTracked ==
    ASSUME TrackedOps = 0
    PROVE  \A c \in Cmds : st[c] \in {"none", "queued"}
<1> DEFINE S == {c \in Cmds : st[c] \notin {"none", "queued"}}
<1>1. IsFiniteSet(S)
  BY CmdsAssumption, FS_Subset
<1>2. S = {}
  BY <1>1, FS_EmptySet DEF TrackedOps
<1>3. QED
  BY <1>2

\* The last finish leaves nothing tracked.
LEMMA LastFinish ==
    ASSUME NEW c \in Cmds, TrackedOps = 1, st[c] \notin {"none", "queued"},
           st \in [Cmds -> CmdStates], st' = [st EXCEPT ![c] = "none"]
    PROVE  \A d \in Cmds : st'[d] \in {"none", "queued"}
<1> DEFINE S == {d \in Cmds : st[d] \notin {"none", "queued"}}
<1>1. IsFiniteSet(S)
  BY CmdsAssumption, FS_Subset
<1>2. PICK x : S = {x}
  BY <1>1, FS_Singleton DEF TrackedOps
<1>3. c \in S
  OBVIOUS
<1>4. x = c
  BY <1>2, <1>3
<1>5. \A d \in Cmds : d # c => d \notin S
  BY <1>2, <1>4
<1>6. QED
  BY <1>5

\* What track_aio_request_finish does to the waiters: it wakes nobody but a
\* thread at a wait for the empty queue, and that when nothing is tracked.
LEMMA TrackFinishEffect ==
    ASSUME TypeOK, NEW c \in Cmds, st[c] \notin {"none", "queued"}, TrackFinish(c)
    PROVE  /\ st' = [st EXCEPT ![c] = "none"] /\ st' \in [Cmds -> CmdStates]
           /\ pc' \in [Threads -> PCs] /\ emptyCond' \in Threads \cup {NoOne}
           /\ \A p \in Threads :
                 \/ pc'[p] = pc[p]
                 \/ /\ \/ pc[p] = "awWaiting" /\ pc'[p] = "awWoken"
                       \/ pc[p] = "rwWaiting" /\ pc'[p] = "rwWoken"
                       \/ pc[p] = "mwWaiting" /\ pc'[p] = "mwWoken"
                    /\ \A d \in Cmds : st'[d] \in {"none", "queued"}
<1>1. st' = [st EXCEPT ![c] = "none"] /\ st' \in [Cmds -> CmdStates]
  BY DEF TrackFinish, TypeOK, CmdStates
<1>2. CASE TrackedOps = 1 /\ emptyCond # NoOne
  <2>1. \A d \in Cmds : st'[d] \in {"none", "queued"}
    BY <1>1, <1>2, LastFinish DEF TypeOK
  <2>2. emptyCond \in Threads /\ emptyCond' = NoOne
    BY <1>2 DEF TrackFinish, TypeOK
  <2> DEFINE new == CASE pc[emptyCond] = "awWaiting" -> "awWoken"
                      [] pc[emptyCond] = "rwWaiting" -> "rwWoken"
                      [] pc[emptyCond] = "mwWaiting" -> "mwWoken"
                      [] OTHER -> pc[emptyCond]
  <2>3. pc' = [pc EXCEPT ![emptyCond] = new]
    BY <1>2 DEF TrackFinish
  <2>4. \/ new = pc[emptyCond]
        \/ pc[emptyCond] = "awWaiting" /\ new = "awWoken"
        \/ pc[emptyCond] = "rwWaiting" /\ new = "rwWoken"
        \/ pc[emptyCond] = "mwWaiting" /\ new = "mwWoken"
    OBVIOUS
  <2> HIDE DEF new
  <2>5. new \in PCs
    BY <2>2, <2>4 DEF TypeOK, PCs, ReopenPCs
  <2>6. QED
    BY <1>1, <2>1, <2>2, <2>3, <2>4, <2>5 DEF TypeOK
<1>3. CASE ~(TrackedOps = 1 /\ emptyCond # NoOne)
  BY <1>1, <1>3 DEF TrackFinish, TypeOK
<1>4. QED
  BY <1>2, <1>3

-----------------------------------------------------------------------------
(* Who may touch the device.                                               *)

\* Every step keeps the threads apart.
LEMMA ExclusiveStep == ExclusiveInv /\ [Next]_vars => ExclusiveInv'
<1> SUFFICES ASSUME ExclusiveInv, [Next]_vars PROVE ExclusiveInv'
  OBVIOUS
<1> USE DEF flagVars, handVars, lockVars, kernVars,
      ExclusiveInv, ThreadsExclusive, TypeOK, OneReopener, LockingMeansLockThread, OwnCode
<1>0. TypeOK
  OBVIOUS
<1>1. ASSUME NEW c \in Cmds, KernelQueue(c) PROVE ExclusiveInv'
  <2>1. st' \in [Cmds -> CmdStates]
    BY <1>1 DEF KernelQueue, CmdStates
  <2>2. QED
    BY <1>1, <2>1 DEF KernelQueue
<1>2. ASSUME NEW c \in Cmds, CmdStart(c) PROVE ExclusiveInv'
  <2>1. st' \in [Cmds -> CmdStates]
    BY <1>2 DEF CmdStart, CmdStates
  <2>2. QED
    BY <1>2, <2>1 DEF CmdStart
<1>3. ASSUME NEW c \in Cmds, CmdCheckRecovery(c) PROVE ExclusiveInv'
  <2>1. st' \in [Cmds -> CmdStates]
    BY <1>3 DEF CmdCheckRecovery, CmdStates
  <2>2. QED
    BY <1>3, <2>1 DEF CmdCheckRecovery
<1>4. ASSUME NEW c \in Cmds, CmdRun(c) PROVE ExclusiveInv'
  <2>1. st' \in [Cmds -> CmdStates]
    BY <1>4 DEF CmdRun, CmdStates
  <2>2. QED
    BY <1>4, <2>1 DEF CmdRun
<1>5. ASSUME NEW c \in Cmds, CmdTransition(c) PROVE ExclusiveInv'
  <2>1. st' \in [Cmds -> CmdStates]
    BY <1>5 DEF CmdTransition, CmdStates
  <2>2. QED
    BY <1>5, <2>1 DEF CmdTransition
<1>6. ASSUME NEW c \in Cmds, CmdStartLocking(c) PROVE ExclusiveInv'
  <2>1. pc' \in [Threads -> PCs]
    BY <1>6 DEF CmdStartLocking, Goto, PCs, ReopenPCs, Threads
  <2>2. st' \in [Cmds -> CmdStates]
    BY <1>6 DEF CmdStartLocking, Goto, CmdStates
  <2>3. TypeOK'
    <3>1. lockState' \in {"UNLOCKED", "LOCKING", "LOCKED"} /\ retried' \in BOOLEAN
      BY <1>6 DEF CmdStartLocking, Goto, Threads
    <3>2. QED
      BY <1>6, <2>1, <2>2, DeviceAssumption, <3>1 DEF CmdStartLocking, Goto, Threads
  <2>4. OneReopener' /\ LockingMeansLockThread'
    BY <1>6 DEF CmdStartLocking, Goto, Threads, ReopenPCs, PCs, OwnCode, LockPCs, RecPCs, RmPCs
  <2>5. OwnCode'
    BY <1>6 DEF CmdStartLocking, Goto, Threads, ReopenPCs, LockPCs, RecPCs, RmPCs
  <2>6. QED
    BY <2>3, <2>4, <2>5
<1>7. ASSUME NEW c \in Cmds, CmdRefused(c) PROVE ExclusiveInv'
  <2>1. st[c] \notin {"none", "queued"} /\ TrackFinish(c) /\ TypeOK
    BY <1>7 DEF CmdRefused, ExclusiveInv, ThreadsExclusive
  <2>2. TypeOK'
    BY <1>7, <2>1, TrackFinishEffect DEF CmdRefused, TypeOK, flagVars, handVars, lockVars, kernVars
  <2>3. OneReopener' /\ LockingMeansLockThread' /\ OwnCode'
    BY <1>7, <2>1, TrackFinishEffect DEF CmdRefused, flagVars, ExclusiveInv, ThreadsExclusive,
       OneReopener,
       LockingMeansLockThread, OwnCode, Threads, ReopenPCs, LockPCs, RecPCs, RmPCs
  <2>4. QED
    BY <2>2, <2>3 DEF ExclusiveInv, ThreadsExclusive
<1>8. ASSUME NEW c \in Cmds, IoComplete(c) PROVE ExclusiveInv'
  <2>1. st' \in [Cmds -> CmdStates]
    BY <1>8 DEF IoComplete, CmdStates
  <2>2. QED
    BY <1>8, <2>1 DEF IoComplete
<1>9. ASSUME NEW c \in Cmds, IoFinish(c) PROVE ExclusiveInv'
  <2>1. st[c] \notin {"none", "queued"} /\ TrackFinish(c) /\ TypeOK
    BY <1>9 DEF IoFinish, ExclusiveInv, ThreadsExclusive
  <2>2. TypeOK'
    BY <1>9, <2>1, TrackFinishEffect DEF IoFinish, TypeOK, flagVars, handVars, lockVars, kernVars
  <2>3. OneReopener' /\ LockingMeansLockThread' /\ OwnCode'
    BY <1>9, <2>1, TrackFinishEffect DEF IoFinish, flagVars, ExclusiveInv, ThreadsExclusive,
       OneReopener,
       LockingMeansLockThread, OwnCode, Threads, ReopenPCs, LockPCs, RecPCs, RmPCs
  <2>4. QED
    BY <2>2, <2>3 DEF ExclusiveInv, ThreadsExclusive
<1>10. CASE NotifyLockLost
  <2>1. TypeOK'
    <3>1. lockState' \in {"UNLOCKED", "LOCKING", "LOCKED"} /\ held' \in BOOLEAN
      BY <1>10 DEF NotifyLockLost
    <3>2. UNCHANGED <<events, st, inRecovery, isOpen, stopping, emptyCond, hOpen,
                        tpgEnabled, reenable, blocked, retried, lockRes,
                        unblocking, pc>>
      BY <1>10 DEF NotifyLockLost
    <3> HIDE DEF ExclusiveInv, NotifyLockLost
    <3>3. QED
      BY <1>0, <3>1, <3>2
  <2>2. QED
    BY <1>10, <2>1 DEF NotifyLockLost
<1>11. CASE NotifyConnLost
  <2>1. pc' \in [Threads -> PCs]
    BY <1>11 DEF NotifyConnLost, ConnLost, PCs, ReopenPCs, Threads
  <2>2. TypeOK'
    <3>1. inRecovery' \in BOOLEAN
      BY <1>11 DEF NotifyConnLost, ConnLost, Threads
    <3>2. QED
      BY <1>11, <2>1, DeviceAssumption, <3>1 DEF NotifyConnLost, ConnLost, Threads
  <2>3. OneReopener' /\ LockingMeansLockThread'
    BY <1>11 DEF NotifyConnLost, ConnLost, Threads, ReopenPCs, PCs, OwnCode, LockPCs, RecPCs, RmPCs
  <2>4. OwnCode'
    BY <1>11 DEF NotifyConnLost, ConnLost, Threads, ReopenPCs, LockPCs, RecPCs, RmPCs
  <2>5. QED
    BY <2>2, <2>3, <2>4
<1>12. CASE LockBlock
  <2>1. pc' \in [Threads -> PCs]
    BY <1>12 DEF LockBlock, Goto, PCs, ReopenPCs, Threads
  <2>2. TypeOK'
    BY <1>12, <2>1, DeviceAssumption DEF LockBlock, Goto, Threads
  <2>3. OneReopener' /\ LockingMeansLockThread'
    BY <1>12 DEF LockBlock, Goto, Threads, ReopenPCs, PCs, OwnCode, LockPCs, RecPCs, RmPCs
  <2>4. OwnCode'
    BY <1>12 DEF LockBlock, Goto, Threads, ReopenPCs, LockPCs, RecPCs, RmPCs
  <2>5. QED
    BY <2>2, <2>3, <2>4
<1>13. CASE LockWait
  <2>1. pc' \in [Threads -> PCs]
    BY <1>13 DEF LockWait, WaitEmpty, WokenEmpty, Goto, PCs, ReopenPCs, Threads
  <2>2. TypeOK'
    BY <1>13, <2>1, DeviceAssumption DEF LockWait, WaitEmpty, WokenEmpty, Goto, Threads
  <2>3. OneReopener' /\ LockingMeansLockThread'
    BY <1>13 DEF LockWait, WaitEmpty, WokenEmpty, Goto, Threads, ReopenPCs, PCs, OwnCode, LockPCs,
       RecPCs, RmPCs
  <2>4. OwnCode'
    BY <1>13 DEF LockWait, WaitEmpty, WokenEmpty, Goto, Threads, ReopenPCs, LockPCs, RecPCs, RmPCs
  <2>5. QED
    BY <2>2, <2>3, <2>4
<1>14. CASE LockFlush
  <2>1. pc' \in [Threads -> PCs]
    BY <1>14 DEF LockFlush, Goto, PCs, ReopenPCs, Threads
  <2>2. TypeOK'
    BY <1>14, <2>1, DeviceAssumption DEF LockFlush, Goto, Threads
  <2>3. OneReopener' /\ LockingMeansLockThread'
    BY <1>14 DEF LockFlush, Goto, Threads, ReopenPCs, PCs, OwnCode, LockPCs, RecPCs, RmPCs
  <2>4. OwnCode'
    BY <1>14 DEF LockFlush, Goto, Threads, ReopenPCs, LockPCs, RecPCs, RmPCs
  <2>5. QED
    BY <2>2, <2>3, <2>4
<1>15. CASE LockCall
  <2>1. pc' \in [Threads -> PCs]
    BY <1>15 DEF LockCall, Goto, PCs, ReopenPCs, Threads
  <2>2. TypeOK'
    BY <1>15, <2>1, DeviceAssumption DEF LockCall, Goto, Threads
  <2>3. OneReopener' /\ LockingMeansLockThread'
    BY <1>15 DEF LockCall, Goto, Threads, ReopenPCs, PCs, OwnCode, LockPCs, RecPCs, RmPCs
  <2>4. OwnCode'
    BY <1>15 DEF LockCall, Goto, Threads, ReopenPCs, LockPCs, RecPCs, RmPCs
  <2>5. QED
    BY <2>2, <2>3, <2>4
<1>16. CASE LockFenced
  <2>1. pc' \in [Threads -> PCs]
    BY <1>16 DEF LockFenced, Goto, PCs, ReopenPCs, Threads
  <2>2. TypeOK'
    <3>1. inRecovery' \in BOOLEAN /\ retried' \in BOOLEAN /\ lockRes' \in {"UNLOCKED", "LOCKED"}
      BY <1>16 DEF LockFenced, Goto
    <3>2. UNCHANGED <<events, st, isOpen, stopping, lockState, emptyCond, hOpen, held,
                        tpgEnabled, reenable, blocked, unblocking>>
      BY <1>16 DEF LockFenced, Goto
    <3> HIDE DEF ExclusiveInv, LockFenced, Goto
    <3>3. QED
      BY <1>0, <2>1, <3>1, <3>2
  <2>3. OneReopener' /\ LockingMeansLockThread'
    BY <1>16 DEF LockFenced, Goto, Threads, ReopenPCs, PCs, OwnCode, LockPCs, RecPCs, RmPCs
  <2>4. OwnCode'
    BY <1>16 DEF LockFenced, Goto, Threads, ReopenPCs, LockPCs, RecPCs, RmPCs
  <2>5. QED
    BY <2>2, <2>3, <2>4
<1>17. CASE LockTimeout
  <2>1. pc' \in [Threads -> PCs]
    BY <1>17 DEF LockTimeout, Goto, PCs, ReopenPCs, Threads
  <2>2. TypeOK'
    BY <1>17, <2>1, DeviceAssumption DEF LockTimeout, Goto, Threads
  <2>3. OneReopener' /\ LockingMeansLockThread'
    BY <1>17 DEF LockTimeout, Goto, Threads, ReopenPCs, PCs, OwnCode, LockPCs, RecPCs, RmPCs
  <2>4. OwnCode'
    BY <1>17 DEF LockTimeout, Goto, Threads, ReopenPCs, LockPCs, RecPCs, RmPCs
  <2>5. QED
    BY <2>2, <2>3, <2>4
<1>18. CASE LockLost
  <2>1. pc' \in [Threads -> PCs]
    BY <1>18 DEF LockLost, ConnLost, PCs, ReopenPCs, Threads
  <2>2. TypeOK'
    <3>1. inRecovery' \in BOOLEAN /\ lockRes' \in {"UNLOCKED", "LOCKED"}
      BY <1>18 DEF LockLost, ConnLost
    <3>2. UNCHANGED <<events, st, isOpen, stopping, lockState, emptyCond, hOpen, held,
                        tpgEnabled, reenable, blocked, retried, unblocking>>
      BY <1>18 DEF LockLost, ConnLost
    <3> HIDE DEF ExclusiveInv, LockLost, ConnLost
    <3>3. QED
      BY <1>0, <2>1, <3>1, <3>2
  <2>3. OneReopener' /\ LockingMeansLockThread'
    BY <1>18 DEF LockLost, ConnLost, Threads, ReopenPCs, PCs, OwnCode, LockPCs, RecPCs, RmPCs
  <2>4. OwnCode'
    BY <1>18 DEF LockLost, ConnLost, Threads, ReopenPCs, LockPCs, RecPCs, RmPCs
  <2>5. QED
    BY <2>2, <2>3, <2>4
<1>19. CASE LockSet
  <2>1. pc' \in [Threads -> PCs]
    BY <1>19 DEF LockSet, Goto, PCs, ReopenPCs, Threads
  <2>2. TypeOK'
    BY <1>19, <2>1, DeviceAssumption DEF LockSet, Goto, Threads
  <2>3. OneReopener' /\ LockingMeansLockThread'
    BY <1>19 DEF LockSet, Goto, Threads, ReopenPCs, PCs, OwnCode, LockPCs, RecPCs, RmPCs
  <2>4. OwnCode'
    BY <1>19 DEF LockSet, Goto, Threads, ReopenPCs, LockPCs, RecPCs, RmPCs
  <2>5. QED
    BY <2>2, <2>3, <2>4
<1>20. CASE LockUnblock
  <2>1. TypeOK'
    <3>1. unblocking' \in 0 .. MaxUnblock
      BY <1>20, DeviceAssumption DEF LockUnblock
    <3>2. blocked' \in BOOLEAN
      BY <1>20 DEF LockUnblock
    <3>3. UNCHANGED <<events, st, inRecovery, isOpen, stopping, lockState, emptyCond, hOpen, held,
                      tpgEnabled, reenable, retried, lockRes, pc>>
      BY <1>20 DEF LockUnblock
    <3> HIDE DEF ExclusiveInv, LockUnblock
    <3>4. QED
      BY <1>0, <3>1, <3>2, <3>3
  <2>2. QED
    BY <1>20, <2>1 DEF LockUnblock
<1>21. ASSUME NEW p \in {"lock", "rec"}, ReopenWait(p) PROVE ExclusiveInv'
  <2>1. pc' \in [Threads -> PCs]
    BY <1>21 DEF ReopenWait, WaitEmpty, WokenEmpty, Goto, PCs, ReopenPCs, Threads
  <2>2. TypeOK'
    BY <1>21, <2>1, DeviceAssumption DEF ReopenWait, WaitEmpty, WokenEmpty, Goto, Threads
  <2>3. OneReopener' /\ LockingMeansLockThread'
    BY <1>21 DEF ReopenWait, WaitEmpty, WokenEmpty, Goto, Threads, ReopenPCs, PCs, OwnCode, LockPCs,
       RecPCs, RmPCs
  <2>4. OwnCode'
    BY <1>21 DEF ReopenWait, WaitEmpty, WokenEmpty, Goto, Threads, ReopenPCs, LockPCs, RecPCs, RmPCs
  <2>5. QED
    BY <2>2, <2>3, <2>4
<1>22. ASSUME NEW p \in {"lock", "rec"}, ReopenCheck(p) PROVE ExclusiveInv'
  <2>1. pc' \in [Threads -> PCs]
    BY <1>22 DEF ReopenCheck, AfterReopen, Goto, PCs, ReopenPCs, Threads
  <2>2. TypeOK'
    <3>1. inRecovery' \in BOOLEAN
      BY <1>22 DEF ReopenCheck, AfterReopen, Goto, Threads
    <3>2. QED
      BY <1>22, <2>1, DeviceAssumption, <3>1 DEF ReopenCheck, AfterReopen, Goto, Threads
  <2>3. OneReopener' /\ LockingMeansLockThread'
    BY <1>22 DEF ReopenCheck, AfterReopen, Goto, Threads, ReopenPCs, PCs, OwnCode, LockPCs, RecPCs,
       RmPCs
  <2>4. OwnCode'
    BY <1>22 DEF ReopenCheck, AfterReopen, Goto, Threads, ReopenPCs, LockPCs, RecPCs, RmPCs
  <2>5. QED
    BY <2>2, <2>3, <2>4
<1>23. ASSUME NEW p \in {"lock", "rec"}, ReopenCancelLock(p) PROVE ExclusiveInv'
  <2>1. pc' \in [Threads -> PCs]
    BY <1>23 DEF ReopenCancelLock, Goto, PCs, ReopenPCs, Threads
  <2>2. TypeOK'
    BY <1>23, <2>1, DeviceAssumption DEF ReopenCancelLock, Goto, Threads
  <2>3. OneReopener' /\ LockingMeansLockThread'
    BY <1>23 DEF ReopenCancelLock, Goto, Threads, ReopenPCs, PCs, OwnCode, LockPCs, RecPCs, RmPCs
  <2>4. OwnCode'
    BY <1>23 DEF ReopenCancelLock, Goto, Threads, ReopenPCs, LockPCs, RecPCs, RmPCs
  <2>5. QED
    BY <2>2, <2>3, <2>4
<1>24. ASSUME NEW p \in {"lock", "rec"}, ReopenUnlock(p) PROVE ExclusiveInv'
  <2>1. pc' \in [Threads -> PCs]
    BY <1>24 DEF ReopenUnlock, Goto, PCs, ReopenPCs, Threads
  <2>2. TypeOK'
    BY <1>24, <2>1, DeviceAssumption DEF ReopenUnlock, Goto, Threads
  <2>3. OneReopener' /\ LockingMeansLockThread'
    BY <1>24 DEF ReopenUnlock, Goto, Threads, ReopenPCs, PCs, OwnCode, LockPCs, RecPCs, RmPCs
  <2>4. OwnCode'
    BY <1>24 DEF ReopenUnlock, Goto, Threads, ReopenPCs, LockPCs, RecPCs, RmPCs
  <2>5. QED
    BY <2>2, <2>3, <2>4
<1>25. ASSUME NEW p \in {"lock", "rec"}, ReopenClose(p) PROVE ExclusiveInv'
  <2>1. pc' \in [Threads -> PCs]
    BY <1>25 DEF ReopenClose, Goto, PCs, ReopenPCs, Threads
  <2>2. TypeOK'
    <3>1. hOpen' \in BOOLEAN /\ held' \in BOOLEAN
      BY <1>25 DEF ReopenClose, Goto
    <3>2. UNCHANGED <<events, st, inRecovery, isOpen, stopping, lockState, emptyCond,
                        tpgEnabled, reenable, blocked, retried, lockRes,
                        unblocking>>
      BY <1>25 DEF ReopenClose, Goto
    <3> HIDE DEF ExclusiveInv, ReopenClose, Goto
    <3>3. QED
      BY <1>0, <2>1, <3>1, <3>2
  <2>3. OneReopener' /\ LockingMeansLockThread'
    BY <1>25 DEF ReopenClose, Goto, Threads, ReopenPCs, PCs, OwnCode, LockPCs, RecPCs, RmPCs
  <2>4. OwnCode'
    BY <1>25 DEF ReopenClose, Goto, Threads, ReopenPCs, LockPCs, RecPCs, RmPCs
  <2>5. QED
    BY <2>2, <2>3, <2>4
<1>26. ASSUME NEW p \in {"lock", "rec"}, ReopenTest(p) PROVE ExclusiveInv'
  <2>1. pc' \in [Threads -> PCs]
    BY <1>26 DEF ReopenTest, AfterReopen, Goto, PCs, ReopenPCs, Threads
  <2>2. TypeOK'
    <3>1. inRecovery' \in BOOLEAN /\ isOpen' \in BOOLEAN
      BY <1>26 DEF ReopenTest, Goto
    <3>2. UNCHANGED <<events, st, stopping, lockState, emptyCond, hOpen, held, tpgEnabled,
                        reenable, blocked, retried, lockRes, unblocking>>
      BY <1>26 DEF ReopenTest, Goto
    <3> HIDE DEF ExclusiveInv, ReopenTest, Goto
    <3>3. QED
      BY <1>0, <2>1, <3>1, <3>2
  <2>3. OneReopener' /\ LockingMeansLockThread'
    BY <1>26 DEF ReopenTest, AfterReopen, Goto, Threads, ReopenPCs, PCs, OwnCode, LockPCs, RecPCs,
       RmPCs
  <2>4. OwnCode'
    BY <1>26 DEF ReopenTest, AfterReopen, Goto, Threads, ReopenPCs, LockPCs, RecPCs, RmPCs
  <2>5. QED
    BY <2>2, <2>3, <2>4
<1>27. ASSUME NEW p \in {"lock", "rec"}, ReopenOpen(p) PROVE ExclusiveInv'
  <2>1. pc' \in [Threads -> PCs]
    BY <1>27 DEF ReopenOpen, AfterReopen, Goto, PCs, ReopenPCs, Threads
  <2>2. TypeOK'
    <3>1. hOpen' \in BOOLEAN /\ isOpen' \in BOOLEAN /\ inRecovery' \in BOOLEAN
      BY <1>27 DEF ReopenOpen, Goto
    <3>2. UNCHANGED <<events, st, stopping, lockState, emptyCond, held, tpgEnabled,
                        reenable, blocked, retried, lockRes, unblocking>>
      BY <1>27 DEF ReopenOpen, Goto
    <3> HIDE DEF ExclusiveInv, ReopenOpen, Goto
    <3>3. QED
      BY <1>0, <2>1, <3>1, <3>2
  <2>3. OneReopener' /\ LockingMeansLockThread'
    BY <1>27 DEF ReopenOpen, AfterReopen, Goto, Threads, ReopenPCs, PCs, OwnCode, LockPCs, RecPCs,
       RmPCs
  <2>4. OwnCode'
    BY <1>27 DEF ReopenOpen, AfterReopen, Goto, Threads, ReopenPCs, LockPCs, RecPCs, RmPCs
  <2>5. QED
    BY <2>2, <2>3, <2>4
<1>28. ASSUME NEW p \in {"lock", "rec"}, ReopenOpenFails(p) PROVE ExclusiveInv'
  <2>1. pc' \in [Threads -> PCs]
    BY <1>28 DEF ReopenOpenFails, AfterReopen, Goto, PCs, ReopenPCs, Threads
  <2>2. TypeOK'
    <3>1. inRecovery' \in BOOLEAN
      BY <1>28 DEF ReopenOpenFails, AfterReopen, Goto, Threads
    <3>2. QED
      BY <1>28, <2>1, DeviceAssumption, <3>1 DEF ReopenOpenFails, AfterReopen, Goto, Threads
  <2>3. OneReopener' /\ LockingMeansLockThread'
    BY <1>28 DEF ReopenOpenFails, AfterReopen, Goto, Threads, ReopenPCs, PCs, OwnCode, LockPCs,
       RecPCs, RmPCs
  <2>4. OwnCode'
    BY <1>28 DEF ReopenOpenFails, AfterReopen, Goto, Threads, ReopenPCs, LockPCs, RecPCs, RmPCs
  <2>5. QED
    BY <2>2, <2>3, <2>4
<1>29. CASE RecDisable
  <2>1. pc' \in [Threads -> PCs]
    BY <1>29 DEF RecDisable, Goto, PCs, ReopenPCs, Threads
  <2>2. TypeOK'
    <3>1. tpgEnabled' \in BOOLEAN /\ reenable' \in BOOLEAN
      BY <1>29 DEF RecDisable, Goto, Threads
    <3>2. QED
      BY <1>29, <2>1, DeviceAssumption, <3>1 DEF RecDisable, Goto, Threads
  <2>3. OneReopener' /\ LockingMeansLockThread'
    BY <1>29 DEF RecDisable, Goto, Threads, ReopenPCs, PCs, OwnCode, LockPCs, RecPCs, RmPCs
  <2>4. OwnCode'
    BY <1>29 DEF RecDisable, Goto, Threads, ReopenPCs, LockPCs, RecPCs, RmPCs
  <2>5. QED
    BY <2>2, <2>3, <2>4
<1>30. CASE RecDrained
  <2>1. pc' \in [Threads -> PCs]
    BY <1>30 DEF RecDrained, Goto, PCs, ReopenPCs, Threads
  <2>2. TypeOK'
    BY <1>30, <2>1, DeviceAssumption DEF RecDrained, Goto, Threads
  <2>3. OneReopener' /\ LockingMeansLockThread'
    BY <1>30 DEF RecDrained, Goto, Threads, ReopenPCs, PCs, OwnCode, LockPCs, RecPCs, RmPCs
  <2>4. OwnCode'
    BY <1>30 DEF RecDrained, Goto, Threads, ReopenPCs, LockPCs, RecPCs, RmPCs
  <2>5. QED
    BY <2>2, <2>3, <2>4
<1>31. CASE RecEnable
  <2>1. pc' \in [Threads -> PCs]
    BY <1>31 DEF RecEnable, Goto, PCs, ReopenPCs, Threads
  <2>2. TypeOK'
    BY <1>31, <2>1, DeviceAssumption DEF RecEnable, Goto, Threads
  <2>3. OneReopener' /\ LockingMeansLockThread'
    BY <1>31 DEF RecEnable, Goto, Threads, ReopenPCs, PCs, OwnCode, LockPCs, RecPCs, RmPCs
  <2>4. OwnCode'
    BY <1>31 DEF RecEnable, Goto, Threads, ReopenPCs, LockPCs, RecPCs, RmPCs
  <2>5. QED
    BY <2>2, <2>3, <2>4
<1>32. CASE RmStart
  <2>1. pc' \in [Threads -> PCs]
    BY <1>32 DEF RmStart, Goto, PCs, ReopenPCs, Threads
  <2>2. TypeOK'
    BY <1>32, <2>1, DeviceAssumption DEF RmStart, Goto, Threads
  <2>3. OneReopener' /\ LockingMeansLockThread'
    BY <1>32 DEF RmStart, Goto, Threads, ReopenPCs, PCs, OwnCode, LockPCs, RecPCs, RmPCs
  <2>4. OwnCode'
    BY <1>32 DEF RmStart, Goto, Threads, ReopenPCs, LockPCs, RecPCs, RmPCs
  <2>5. QED
    BY <2>2, <2>3, <2>4
<1>33. CASE RmWait
  <2>1. pc' \in [Threads -> PCs]
    BY <1>33 DEF RmWait, WaitEmpty, WokenEmpty, Goto, PCs, ReopenPCs, Threads
  <2>2. TypeOK'
    BY <1>33, <2>1, DeviceAssumption DEF RmWait, WaitEmpty, WokenEmpty, Goto, Threads
  <2>3. OneReopener' /\ LockingMeansLockThread'
    BY <1>33 DEF RmWait, WaitEmpty, WokenEmpty, Goto, Threads, ReopenPCs, PCs, OwnCode, LockPCs,
       RecPCs, RmPCs
  <2>4. OwnCode'
    BY <1>33 DEF RmWait, WaitEmpty, WokenEmpty, Goto, Threads, ReopenPCs, LockPCs, RecPCs, RmPCs
  <2>5. QED
    BY <2>2, <2>3, <2>4
<1>34. CASE RmCancelLock
  <2>1. pc' \in [Threads -> PCs]
    BY <1>34 DEF RmCancelLock, Goto, PCs, ReopenPCs, Threads
  <2>2. TypeOK'
    BY <1>34, <2>1, DeviceAssumption DEF RmCancelLock, Goto, Threads
  <2>3. OneReopener' /\ LockingMeansLockThread'
    BY <1>34 DEF RmCancelLock, Goto, Threads, ReopenPCs, PCs, OwnCode, LockPCs, RecPCs, RmPCs
  <2>4. OwnCode'
    BY <1>34 DEF RmCancelLock, Goto, Threads, ReopenPCs, LockPCs, RecPCs, RmPCs
  <2>5. QED
    BY <2>2, <2>3, <2>4
<1>35. CASE RmCancelRecovery
  <2>1. pc' \in [Threads -> PCs]
    BY <1>35 DEF RmCancelRecovery, Goto, PCs, ReopenPCs, Threads
  <2>2. TypeOK'
    BY <1>35, <2>1, DeviceAssumption DEF RmCancelRecovery, Goto, Threads
  <2>3. OneReopener' /\ LockingMeansLockThread'
    BY <1>35 DEF RmCancelRecovery, Goto, Threads, ReopenPCs, PCs, OwnCode, LockPCs, RecPCs, RmPCs
  <2>4. OwnCode'
    BY <1>35 DEF RmCancelRecovery, Goto, Threads, ReopenPCs, LockPCs, RecPCs, RmPCs
  <2>5. QED
    BY <2>2, <2>3, <2>4
<1>36. CASE RmClose
  <2>1. pc' \in [Threads -> PCs]
    BY <1>36 DEF RmClose, Goto, PCs, ReopenPCs, Threads
  <2>2. TypeOK'
    <3>1. isOpen' \in BOOLEAN /\ hOpen' \in BOOLEAN /\ held' \in BOOLEAN /\ lockState' \in {"UNLOCKED", "LOCKING", "LOCKED"}
      BY <1>36 DEF RmClose, Goto, Threads
    <3>2. QED
      BY <1>36, <2>1, DeviceAssumption, <3>1 DEF RmClose, Goto, Threads
  <2>3. OneReopener' /\ LockingMeansLockThread'
    BY <1>36 DEF RmClose, Goto, Threads, ReopenPCs, PCs, OwnCode, LockPCs, RecPCs, RmPCs
  <2>4. OwnCode'
    BY <1>36 DEF RmClose, Goto, Threads, ReopenPCs, LockPCs, RecPCs, RmPCs
  <2>5. QED
    BY <2>2, <2>3, <2>4
<1>37. CASE RmFree
  <2>1. pc' \in [Threads -> PCs]
    BY <1>37 DEF RmFree, Goto, PCs, ReopenPCs, Threads
  <2>2. TypeOK'
    BY <1>37, <2>1, DeviceAssumption DEF RmFree, Goto, Threads
  <2>3. OneReopener' /\ LockingMeansLockThread'
    BY <1>37 DEF RmFree, Goto, Threads, ReopenPCs, PCs, OwnCode, LockPCs, RecPCs, RmPCs
  <2>4. OwnCode'
    BY <1>37 DEF RmFree, Goto, Threads, ReopenPCs, LockPCs, RecPCs, RmPCs
  <2>5. QED
    BY <2>2, <2>3, <2>4
<1>38. ASSUME NEW p \in Threads, Spurious(p) PROVE ExclusiveInv'
  <2>1. pc' \in [Threads -> PCs]
    BY <1>38 DEF Spurious, Goto, PCs, ReopenPCs, Threads
  <2>2. TypeOK'
    BY <1>38, <2>1, DeviceAssumption DEF Spurious, Goto, Threads
  <2>3. OneReopener' /\ LockingMeansLockThread'
    BY <1>38 DEF Spurious, Goto, Threads, ReopenPCs, PCs, OwnCode, LockPCs, RecPCs, RmPCs
  <2>4. OwnCode'
    BY <1>38 DEF Spurious, Goto, Threads, ReopenPCs, LockPCs, RecPCs, RmPCs
  <2>5. QED
    BY <2>2, <2>3, <2>4
<1>39. CASE Terminated
  BY <1>39 DEF Terminated, vars
<1>40. CASE UNCHANGED vars
  BY <1>40 DEF vars
<1>41. QED
  <2>1. ASSUME NEW c \in Cmds, CmdStep(c) PROVE ExclusiveInv'
    BY <2>1, <1>2, <1>3, <1>4, <1>5, <1>6, <1>7, <1>8, <1>9 DEF CmdStep
  <2>2. ASSUME NEW p \in {"lock", "rec"}, ReopenStep(p) PROVE ExclusiveInv'
    BY <2>2, <1>21, <1>22, <1>23, <1>24, <1>25, <1>26, <1>27, <1>28 DEF ReopenStep
  <2>3. CASE LockStep
    BY <2>2, <2>3, <1>12, <1>13, <1>14, <1>15, <1>16, <1>17, <1>18, <1>19 DEF LockStep
  <2>4. CASE RecStep
    BY <2>2, <2>4, <1>29, <1>30, <1>31 DEF RecStep
  <2>5. CASE RmStep
    BY <2>5, <1>33, <1>34, <1>35, <1>36, <1>37 DEF RmStep
  <2>6. QED
    BY <2>1, <2>3, <2>4, <2>5, <1>1, <1>10, <1>11, <1>20, <1>32, <1>38, <1>39, <1>40 DEF Next

\* The specification keeps the threads apart; stated apart for the proofs below.
LEMMA Exclusive == Spec => []ExclusiveInv
<1>1. ASSUME Init PROVE ExclusiveInv
  <2>1. TypeOK
    <3>1. events \subseteq AllEvents
      BY <1>1, DeviceAssumption DEF Init
    <3>2. st \in [Cmds -> CmdStates] /\ pc \in [Threads -> PCs]
      BY <1>1 DEF Init, CmdStates, PCs
    <3>3. unblocking \in 0 .. MaxUnblock
      BY <1>1, DeviceAssumption DEF Init
    <3>4. QED
      BY <1>1, <3>1, <3>2, <3>3 DEF Init, TypeOK
  <2>2. QED
    BY <1>1, <2>1 DEF Init, ExclusiveInv, ThreadsExclusive, OneReopener, LockingMeansLockThread,
       OwnCode, Threads, ReopenPCs, LockPCs, RecPCs, RmPCs
<1>2. QED
  BY <1>1, ExclusiveStep, PTL DEF Spec

\* IN_RECOVERY admits one reopener at a time and is set exactly while there is
\* one, and LOCKING stands exactly for a lock thread at work, in every order of
\* lock acquisition, recovery, removal and early returns of condition waits.
THEOREM OneThreadPerDevice == Spec => []ThreadsExclusive
<1>1. ExclusiveInv => ThreadsExclusive
  BY DEF ExclusiveInv
<1>2. QED
  BY <1>1, Exclusive, PTL

-----------------------------------------------------------------------------
(* When the handler may be closed, and what LOCKED stands for.             *)

\* Every step of the threads keeps the handler's guards.
LEMMA GuardStep == ExclusiveInv /\ GuardInv /\ [Next]_vars => GuardInv'
<1> SUFFICES ASSUME TypeOK, OneReopener, LockingMeansLockThread, OwnCode,
                   StoppingInv, DrainedInv, FlushedInv, CancelledInv, HeldInv, OpenInv, [Next]_vars
            PROVE  GuardInv'
  BY DEF ExclusiveInv, ThreadsExclusive, GuardInv
<1> USE DEF flagVars, handVars, lockVars, kernVars
<1>1. ASSUME NEW c \in Cmds, KernelQueue(c) PROVE GuardInv'
  <2>1. CancelledInv' /\ HeldInv' /\ OpenInv'
    BY <1>1 DEF KernelQueue, CancelledInv, HeldInv, OpenInv, Signalled, LockedMeansHeld,
       ReopenMayFail
  <2>2. StoppingInv'
    BY <1>1 DEF KernelQueue, TypeOK, Threads, StoppingInv, AllAnswered
  <2>3. DrainedInv'
    BY <1>1 DEF KernelQueue, TypeOK, Threads, OneReopener, ReopenPCs, DrainedInv, Harmless,
       Signalled
  <2>4. FlushedInv'
    BY <1>1 DEF KernelQueue, TypeOK, Threads, LockingMeansLockThread, ReopenPCs, FlushedInv,
       AllAnswered
  <2>5. QED
    BY <2>1, <2>2, <2>3, <2>4 DEF GuardInv
<1>2. ASSUME NEW c \in Cmds, CmdStart(c) PROVE GuardInv'
  <2>1. CancelledInv' /\ HeldInv' /\ OpenInv'
    BY <1>2 DEF CmdStart, CancelledInv, HeldInv, OpenInv, Signalled, LockedMeansHeld, ReopenMayFail
  <2>2. StoppingInv'
    BY <1>2 DEF CmdStart, TypeOK, Threads, StoppingInv, AllAnswered
  <2>3. DrainedInv'
    BY <1>2 DEF CmdStart, TypeOK, Threads, OneReopener, ReopenPCs, DrainedInv, Harmless, Signalled
  <2>4. FlushedInv'
    BY <1>2 DEF CmdStart, TypeOK, Threads, LockingMeansLockThread, ReopenPCs, FlushedInv,
       AllAnswered
  <2>5. QED
    BY <2>1, <2>2, <2>3, <2>4 DEF GuardInv
<1>3. ASSUME NEW c \in Cmds, CmdCheckRecovery(c) PROVE GuardInv'
  <2>1. CancelledInv' /\ HeldInv' /\ OpenInv'
    BY <1>3 DEF CmdCheckRecovery, CancelledInv, HeldInv, OpenInv, Signalled, LockedMeansHeld,
       ReopenMayFail
  <2>2. StoppingInv'
    BY <1>3 DEF CmdCheckRecovery, TypeOK, Threads, StoppingInv, AllAnswered
  <2>3. DrainedInv'
    BY <1>3 DEF CmdCheckRecovery, TypeOK, Threads, OneReopener, ReopenPCs, DrainedInv, Harmless,
       Signalled
  <2>4. FlushedInv'
    BY <1>3 DEF CmdCheckRecovery, TypeOK, Threads, LockingMeansLockThread, ReopenPCs, FlushedInv,
       AllAnswered
  <2>5. QED
    BY <2>1, <2>2, <2>3, <2>4 DEF GuardInv
<1>4. ASSUME NEW c \in Cmds, CmdRun(c) PROVE GuardInv'
  <2>1. CancelledInv' /\ HeldInv' /\ OpenInv'
    BY <1>4 DEF CmdRun, CancelledInv, HeldInv, OpenInv, Signalled, LockedMeansHeld, ReopenMayFail
  <2>2. StoppingInv'
    BY <1>4 DEF CmdRun, TypeOK, Threads, StoppingInv, AllAnswered
  <2>3. DrainedInv'
    BY <1>4 DEF CmdRun, TypeOK, Threads, OneReopener, ReopenPCs, DrainedInv, Harmless, Signalled
  <2>4. FlushedInv'
    BY <1>4 DEF CmdRun, TypeOK, Threads, LockingMeansLockThread, ReopenPCs, FlushedInv, AllAnswered
  <2>5. QED
    BY <2>1, <2>2, <2>3, <2>4 DEF GuardInv
<1>5. ASSUME NEW c \in Cmds, CmdTransition(c) PROVE GuardInv'
  <2>1. CancelledInv' /\ HeldInv' /\ OpenInv'
    BY <1>5 DEF CmdTransition, CancelledInv, HeldInv, OpenInv, Signalled, LockedMeansHeld,
       ReopenMayFail
  <2>2. StoppingInv'
    BY <1>5 DEF CmdTransition, TypeOK, Threads, StoppingInv, AllAnswered
  <2>3. DrainedInv'
    BY <1>5 DEF CmdTransition, TypeOK, Threads, OneReopener, ReopenPCs, DrainedInv, Harmless,
       Signalled
  <2>4. FlushedInv'
    BY <1>5 DEF CmdTransition, TypeOK, Threads, LockingMeansLockThread, ReopenPCs, FlushedInv,
       AllAnswered
  <2>5. QED
    BY <2>1, <2>2, <2>3, <2>4 DEF GuardInv
<1>6. ASSUME NEW c \in Cmds, CmdStartLocking(c) PROVE GuardInv'
  <2>1. StoppingInv'
    BY <1>6 DEF CmdStartLocking, Goto, TypeOK, Threads, StoppingInv, AllAnswered
  <2>2. DrainedInv'
    BY <1>6 DEF CmdStartLocking, Goto, TypeOK, Threads, OneReopener, ReopenPCs, DrainedInv,
       Harmless, Signalled
  <2>3. FlushedInv'
    BY <1>6 DEF CmdStartLocking, Goto, TypeOK, Threads, LockingMeansLockThread, ReopenPCs,
       FlushedInv, AllAnswered
  <2>4. CancelledInv'
    BY <1>6 DEF CmdStartLocking, Goto, TypeOK, Threads, LockingMeansLockThread, OwnCode, RecPCs,
       RmPCs, ReopenPCs, StoppingInv, AllAnswered, DrainedInv, Harmless, CancelledInv, Signalled
  <2>5. HeldInv'
    BY <1>6 DEF CmdStartLocking, Goto, TypeOK, Threads, LockingMeansLockThread, OwnCode, RecPCs,
       LockPCs, ReopenPCs, FlushedInv, CancelledInv, HeldInv, LockedMeansHeld, Signalled
  <2>6. OpenInv'
    BY <1>6 DEF CmdStartLocking, Goto, TypeOK, Threads, OneReopener, OwnCode, LockPCs, RecPCs,
       RmPCs, ReopenPCs, StoppingInv, AllAnswered, DrainedInv, Harmless, CancelledInv, OpenInv,
       ReopenMayFail, Signalled
  <2>7. QED
    BY <2>1, <2>2, <2>3, <2>4, <2>5, <2>6 DEF GuardInv
<1>7. ASSUME NEW c \in Cmds, CmdRefused(c) PROVE GuardInv'
  <2>1. st[c] \notin {"none", "queued"} /\ TrackFinish(c)
    BY <1>7 DEF CmdRefused
  <2>2. /\ events' = events /\ stopping' = stopping /\ isOpen' = isOpen /\ hOpen' = hOpen
        /\ lockState' = lockState /\ held' = held /\ lockRes' = lockRes
    BY <1>7 DEF CmdRefused
  <2>3. StoppingInv'
    BY <2>1, <2>2, TrackFinishEffect DEF TypeOK, Threads, StoppingInv, AllAnswered
  <2>4. DrainedInv'
    BY <2>1, <2>2, TrackFinishEffect DEF TypeOK, Threads, OneReopener, ReopenPCs, DrainedInv,
       Harmless, Signalled
  <2>5. FlushedInv'
    BY <2>1, <2>2, TrackFinishEffect DEF TypeOK, Threads, LockingMeansLockThread, ReopenPCs,
       FlushedInv, AllAnswered
  <2>6. CancelledInv'
    BY <2>1, <2>2, TrackFinishEffect DEF TypeOK, Threads, LockingMeansLockThread, OwnCode, RecPCs,
       RmPCs, ReopenPCs, StoppingInv, AllAnswered, DrainedInv, Harmless, CancelledInv, Signalled
  <2>7. HeldInv'
    BY <2>1, <2>2, TrackFinishEffect DEF TypeOK, Threads, LockingMeansLockThread, OwnCode, RecPCs,
       LockPCs, ReopenPCs, FlushedInv, CancelledInv, HeldInv, LockedMeansHeld, Signalled
  <2>8. OpenInv'
    BY <2>1, <2>2, TrackFinishEffect DEF TypeOK, Threads, OneReopener, OwnCode, LockPCs, RecPCs,
       RmPCs, ReopenPCs, StoppingInv, AllAnswered, DrainedInv, Harmless, CancelledInv, OpenInv,
       ReopenMayFail, Signalled
  <2>9. QED
    BY <2>3, <2>4, <2>5, <2>6, <2>7, <2>8 DEF GuardInv
<1>8. ASSUME NEW c \in Cmds, IoComplete(c) PROVE GuardInv'
  <2>1. CancelledInv' /\ HeldInv' /\ OpenInv'
    BY <1>8 DEF IoComplete, CancelledInv, HeldInv, OpenInv, Signalled, LockedMeansHeld,
       ReopenMayFail
  <2>2. StoppingInv'
    BY <1>8 DEF IoComplete, TypeOK, Threads, StoppingInv, AllAnswered
  <2>3. DrainedInv'
    BY <1>8 DEF IoComplete, TypeOK, Threads, OneReopener, ReopenPCs, DrainedInv, Harmless, Signalled
  <2>4. FlushedInv'
    BY <1>8 DEF IoComplete, TypeOK, Threads, LockingMeansLockThread, ReopenPCs, FlushedInv,
       AllAnswered
  <2>5. QED
    BY <2>1, <2>2, <2>3, <2>4 DEF GuardInv
<1>9. ASSUME NEW c \in Cmds, IoFinish(c) PROVE GuardInv'
  <2>1. st[c] \notin {"none", "queued"} /\ TrackFinish(c)
    BY <1>9 DEF IoFinish
  <2>2. /\ events' = events /\ stopping' = stopping /\ isOpen' = isOpen /\ hOpen' = hOpen
        /\ lockState' = lockState /\ held' = held /\ lockRes' = lockRes
    BY <1>9 DEF IoFinish
  <2>3. StoppingInv'
    BY <2>1, <2>2, TrackFinishEffect DEF TypeOK, Threads, StoppingInv, AllAnswered
  <2>4. DrainedInv'
    BY <2>1, <2>2, TrackFinishEffect DEF TypeOK, Threads, OneReopener, ReopenPCs, DrainedInv,
       Harmless, Signalled
  <2>5. FlushedInv'
    BY <2>1, <2>2, TrackFinishEffect DEF TypeOK, Threads, LockingMeansLockThread, ReopenPCs,
       FlushedInv, AllAnswered
  <2>6. CancelledInv'
    BY <2>1, <2>2, TrackFinishEffect DEF TypeOK, Threads, LockingMeansLockThread, OwnCode, RecPCs,
       RmPCs, ReopenPCs, StoppingInv, AllAnswered, DrainedInv, Harmless, CancelledInv, Signalled
  <2>7. HeldInv'
    BY <2>1, <2>2, TrackFinishEffect DEF TypeOK, Threads, LockingMeansLockThread, OwnCode, RecPCs,
       LockPCs, ReopenPCs, FlushedInv, CancelledInv, HeldInv, LockedMeansHeld, Signalled
  <2>8. OpenInv'
    BY <2>1, <2>2, TrackFinishEffect DEF TypeOK, Threads, OneReopener, OwnCode, LockPCs, RecPCs,
       RmPCs, ReopenPCs, StoppingInv, AllAnswered, DrainedInv, Harmless, CancelledInv, OpenInv,
       ReopenMayFail, Signalled
  <2>9. QED
    BY <2>3, <2>4, <2>5, <2>6, <2>7, <2>8 DEF GuardInv
<1>10. CASE NotifyLockLost
  <2>1. StoppingInv' /\ DrainedInv' /\ FlushedInv' /\ CancelledInv' /\ OpenInv'
    BY <1>10 DEF NotifyLockLost, StoppingInv, DrainedInv, FlushedInv, CancelledInv, OpenInv,
       AllAnswered, Harmless, Signalled, ReopenMayFail
  <2>2. HeldInv'
    BY <1>10 DEF NotifyLockLost, TypeOK, Threads, LockingMeansLockThread, OwnCode, RecPCs, LockPCs,
       ReopenPCs, FlushedInv, CancelledInv, HeldInv, LockedMeansHeld, Signalled
  <2>3. QED
    BY <2>1, <2>2 DEF GuardInv
<1>11. CASE NotifyConnLost
  <2>1. /\ st' = st /\ events' = events /\ stopping' = stopping /\ isOpen' = isOpen /\ hOpen' = hOpen
        /\ pc'["lock"] = pc["lock"] /\ pc'["rm"] = pc["rm"]
        /\ \/ pc'["rec"] = pc["rec"]
           \/ pc'["rec"] = "disable" /\ pc["rec"] \notin ReopenPCs
        /\ lockState' = lockState /\ held' = held /\ lockRes' = lockRes
    BY <1>11 DEF NotifyConnLost, ConnLost, TypeOK, Threads, OneReopener, ReopenPCs, OwnCode, RecPCs
  <2>2. StoppingInv' /\ FlushedInv'
    BY <2>1 DEF TypeOK, Threads, ReopenPCs, StoppingInv, FlushedInv, AllAnswered
  <2>3. DrainedInv'
    BY <2>1 DEF TypeOK, Threads, OneReopener, ReopenPCs, DrainedInv, Harmless, Signalled
  <2>4. CancelledInv'
    BY <2>1 DEF TypeOK, Threads, LockingMeansLockThread, OwnCode, RecPCs, RmPCs, ReopenPCs,
       StoppingInv, AllAnswered, DrainedInv, Harmless, CancelledInv, Signalled
  <2>5. HeldInv'
    BY <2>1 DEF TypeOK, Threads, LockingMeansLockThread, OwnCode, RecPCs, LockPCs, ReopenPCs,
       FlushedInv, CancelledInv, HeldInv, LockedMeansHeld, Signalled
  <2>6. OpenInv'
    BY <2>1 DEF TypeOK, Threads, OneReopener, OwnCode, LockPCs, RecPCs, RmPCs, ReopenPCs,
       StoppingInv, AllAnswered, DrainedInv, Harmless, CancelledInv, OpenInv, ReopenMayFail,
       Signalled
  <2>7. QED
    BY <2>2, <2>3, <2>4, <2>5, <2>6 DEF GuardInv
<1>12. CASE LockBlock
  <2>1. StoppingInv'
    BY <1>12 DEF LockBlock, Goto, TypeOK, Threads, StoppingInv, AllAnswered
  <2>2. DrainedInv'
    BY <1>12 DEF LockBlock, Goto, TypeOK, Threads, OneReopener, ReopenPCs, DrainedInv, Harmless,
       Signalled
  <2>3. FlushedInv'
    BY <1>12 DEF LockBlock, Goto, TypeOK, Threads, LockingMeansLockThread, ReopenPCs, FlushedInv,
       AllAnswered
  <2>4. CancelledInv'
    BY <1>12 DEF LockBlock, Goto, TypeOK, Threads, LockingMeansLockThread, OwnCode, RecPCs, RmPCs,
       ReopenPCs, StoppingInv, AllAnswered, DrainedInv, Harmless, CancelledInv, Signalled
  <2>5. HeldInv'
    BY <1>12 DEF LockBlock, Goto, TypeOK, Threads, LockingMeansLockThread, OwnCode, RecPCs, LockPCs,
       ReopenPCs, FlushedInv, CancelledInv, HeldInv, LockedMeansHeld, Signalled
  <2>6. OpenInv'
    BY <1>12 DEF LockBlock, Goto, TypeOK, Threads, OneReopener, OwnCode, LockPCs, RecPCs, RmPCs,
       ReopenPCs, StoppingInv, AllAnswered, DrainedInv, Harmless, CancelledInv, OpenInv,
       ReopenMayFail, Signalled
  <2>7. QED
    BY <2>1, <2>2, <2>3, <2>4, <2>5, <2>6 DEF GuardInv
<1>13. CASE LockWait
  <2>1. /\ st' = st /\ events' = events /\ stopping' = stopping /\ isOpen' = isOpen /\ hOpen' = hOpen
        /\ pc["lock"] \in {"aw", "awWoken"} /\ pc'["lock"] \in {"awWaiting", "flush"}
        /\ pc'["rec"] = pc["rec"] /\ pc'["rm"] = pc["rm"]
        /\ lockState' = lockState /\ held' = held
    BY <1>13 DEF LockWait, WaitEmpty, WokenEmpty, Goto, TypeOK, Threads
  <2>2. StoppingInv'
    BY <2>1 DEF TypeOK, Threads, StoppingInv, AllAnswered
  <2>3. DrainedInv'
    BY <2>1 DEF TypeOK, Threads, OneReopener, ReopenPCs, DrainedInv, Harmless, Signalled
  <2>4. FlushedInv'
    BY <2>1 DEF TypeOK, Threads, LockingMeansLockThread, ReopenPCs, FlushedInv, AllAnswered
  <2>5. CancelledInv'
    BY <2>1 DEF TypeOK, Threads, LockingMeansLockThread, OwnCode, RecPCs, RmPCs, ReopenPCs,
       StoppingInv, AllAnswered, DrainedInv, Harmless, CancelledInv, Signalled
  <2>6. HeldInv'
    BY <2>1 DEF TypeOK, Threads, LockingMeansLockThread, OwnCode, RecPCs, LockPCs, ReopenPCs,
       FlushedInv, CancelledInv, HeldInv, LockedMeansHeld, Signalled
  <2>7. OpenInv'
    BY <2>1 DEF TypeOK, Threads, OneReopener, OwnCode, LockPCs, RecPCs, RmPCs, ReopenPCs,
       StoppingInv, AllAnswered, DrainedInv, Harmless, CancelledInv, OpenInv, ReopenMayFail,
       Signalled
  <2>8. QED
    BY <2>2, <2>3, <2>4, <2>5, <2>6, <2>7 DEF GuardInv
<1>14. CASE LockFlush
  <2>1. StoppingInv'
    BY <1>14 DEF LockFlush, Goto, TypeOK, Threads, StoppingInv, AllAnswered
  <2>2. DrainedInv'
    BY <1>14 DEF LockFlush, Goto, TypeOK, Threads, OneReopener, ReopenPCs, DrainedInv, Harmless,
       Signalled
  <2>3. FlushedInv'
    BY <1>14 DEF LockFlush, Goto, TypeOK, Threads, LockingMeansLockThread, ReopenPCs, FlushedInv,
       AllAnswered
  <2>4. CancelledInv'
    BY <1>14 DEF LockFlush, Goto, TypeOK, Threads, LockingMeansLockThread, OwnCode, RecPCs, RmPCs,
       ReopenPCs, StoppingInv, AllAnswered, DrainedInv, Harmless, CancelledInv, Signalled
  <2>5. HeldInv'
    BY <1>14 DEF LockFlush, Goto, TypeOK, Threads, LockingMeansLockThread, OwnCode, RecPCs, LockPCs,
       ReopenPCs, FlushedInv, CancelledInv, HeldInv, LockedMeansHeld, Signalled
  <2>6. OpenInv'
    BY <1>14 DEF LockFlush, Goto, TypeOK, Threads, OneReopener, OwnCode, LockPCs, RecPCs, RmPCs,
       ReopenPCs, StoppingInv, AllAnswered, DrainedInv, Harmless, CancelledInv, OpenInv,
       ReopenMayFail, Signalled
  <2>7. QED
    BY <2>1, <2>2, <2>3, <2>4, <2>5, <2>6 DEF GuardInv
<1>15. CASE LockCall
  <2>1. StoppingInv'
    BY <1>15 DEF LockCall, Goto, TypeOK, Threads, StoppingInv, AllAnswered
  <2>2. DrainedInv'
    BY <1>15 DEF LockCall, Goto, TypeOK, Threads, OneReopener, ReopenPCs, DrainedInv, Harmless,
       Signalled
  <2>3. FlushedInv'
    BY <1>15 DEF LockCall, Goto, TypeOK, Threads, LockingMeansLockThread, ReopenPCs, FlushedInv,
       AllAnswered
  <2>4. CancelledInv'
    BY <1>15 DEF LockCall, Goto, TypeOK, Threads, LockingMeansLockThread, OwnCode, RecPCs, RmPCs,
       ReopenPCs, StoppingInv, AllAnswered, DrainedInv, Harmless, CancelledInv, Signalled
  <2>5. HeldInv'
    BY <1>15 DEF LockCall, Goto, TypeOK, Threads, LockingMeansLockThread, OwnCode, RecPCs, LockPCs,
       ReopenPCs, FlushedInv, CancelledInv, HeldInv, LockedMeansHeld, Signalled
  <2>6. OpenInv'
    BY <1>15 DEF LockCall, Goto, TypeOK, Threads, OneReopener, OwnCode, LockPCs, RecPCs, RmPCs,
       ReopenPCs, StoppingInv, AllAnswered, DrainedInv, Harmless, CancelledInv, OpenInv,
       ReopenMayFail, Signalled
  <2>7. QED
    BY <2>1, <2>2, <2>3, <2>4, <2>5, <2>6 DEF GuardInv
<1>16. CASE LockFenced
  <2>1. /\ st' = st /\ events' = events /\ stopping' = stopping /\ isOpen' = isOpen /\ hOpen' = hOpen
        /\ pc["lock"] = "call" /\ pc'["lock"] \in {"lost", "rw"}
        /\ pc'["rec"] = pc["rec"] /\ pc'["rm"] = pc["rm"]
        /\ lockState' = lockState /\ held' = held
    BY <1>16 DEF LockFenced, Goto, TypeOK, Threads
  <2>2. StoppingInv'
    BY <2>1 DEF TypeOK, Threads, StoppingInv, AllAnswered
  <2>3. DrainedInv'
    BY <2>1 DEF TypeOK, Threads, OneReopener, ReopenPCs, DrainedInv, Harmless, Signalled
  <2>4. FlushedInv'
    BY <2>1 DEF TypeOK, Threads, LockingMeansLockThread, ReopenPCs, FlushedInv, AllAnswered
  <2>5. CancelledInv'
    BY <2>1 DEF TypeOK, Threads, LockingMeansLockThread, OwnCode, RecPCs, RmPCs, ReopenPCs,
       StoppingInv, AllAnswered, DrainedInv, Harmless, CancelledInv, Signalled
  <2>6. HeldInv'
    BY <2>1 DEF TypeOK, Threads, LockingMeansLockThread, OwnCode, RecPCs, LockPCs, ReopenPCs,
       FlushedInv, CancelledInv, HeldInv, LockedMeansHeld, Signalled
  <2>7. OpenInv'
    BY <2>1 DEF TypeOK, Threads, OneReopener, OwnCode, LockPCs, RecPCs, RmPCs, ReopenPCs,
       StoppingInv, AllAnswered, DrainedInv, Harmless, CancelledInv, OpenInv, ReopenMayFail,
       Signalled
  <2>8. QED
    BY <2>2, <2>3, <2>4, <2>5, <2>6, <2>7 DEF GuardInv
<1>17. CASE LockTimeout
  <2>1. StoppingInv'
    BY <1>17 DEF LockTimeout, Goto, TypeOK, Threads, StoppingInv, AllAnswered
  <2>2. DrainedInv'
    BY <1>17 DEF LockTimeout, Goto, TypeOK, Threads, OneReopener, ReopenPCs, DrainedInv, Harmless,
       Signalled
  <2>3. FlushedInv'
    BY <1>17 DEF LockTimeout, Goto, TypeOK, Threads, LockingMeansLockThread, ReopenPCs, FlushedInv,
       AllAnswered
  <2>4. CancelledInv'
    BY <1>17 DEF LockTimeout, Goto, TypeOK, Threads, LockingMeansLockThread, OwnCode, RecPCs, RmPCs,
       ReopenPCs, StoppingInv, AllAnswered, DrainedInv, Harmless, CancelledInv, Signalled
  <2>5. HeldInv'
    BY <1>17 DEF LockTimeout, Goto, TypeOK, Threads, LockingMeansLockThread, OwnCode, RecPCs,
       LockPCs, ReopenPCs, FlushedInv, CancelledInv, HeldInv, LockedMeansHeld, Signalled
  <2>6. OpenInv'
    BY <1>17 DEF LockTimeout, Goto, TypeOK, Threads, OneReopener, OwnCode, LockPCs, RecPCs, RmPCs,
       ReopenPCs, StoppingInv, AllAnswered, DrainedInv, Harmless, CancelledInv, OpenInv,
       ReopenMayFail, Signalled
  <2>7. QED
    BY <2>1, <2>2, <2>3, <2>4, <2>5, <2>6 DEF GuardInv
<1>18. CASE LockLost
  <2>1. /\ st' = st /\ events' = events /\ stopping' = stopping /\ isOpen' = isOpen /\ hOpen' = hOpen
        /\ pc["lock"] = "lost" /\ pc'["lock"] = "set" /\ pc'["rm"] = pc["rm"]
        /\ \/ pc'["rec"] = pc["rec"]
           \/ pc'["rec"] = "disable" /\ pc["rec"] \notin ReopenPCs
        /\ lockState' = lockState /\ held' = held /\ lockRes' = "UNLOCKED"
    BY <1>18 DEF LockLost, ConnLost, TypeOK, Threads, OneReopener, ReopenPCs, OwnCode, RecPCs
  <2>2. StoppingInv'
    BY <2>1 DEF TypeOK, Threads, StoppingInv, AllAnswered
  <2>3. DrainedInv'
    BY <2>1 DEF TypeOK, Threads, OneReopener, ReopenPCs, DrainedInv, Harmless, Signalled
  <2>4. FlushedInv'
    BY <2>1 DEF TypeOK, Threads, LockingMeansLockThread, ReopenPCs, FlushedInv, AllAnswered
  <2>5. CancelledInv'
    BY <2>1 DEF TypeOK, Threads, LockingMeansLockThread, OwnCode, RecPCs, RmPCs, ReopenPCs,
       StoppingInv, AllAnswered, DrainedInv, Harmless, CancelledInv, Signalled
  <2>6. HeldInv'
    BY <2>1 DEF TypeOK, Threads, LockingMeansLockThread, OwnCode, RecPCs, LockPCs, ReopenPCs,
       FlushedInv, CancelledInv, HeldInv, LockedMeansHeld, Signalled
  <2>7. OpenInv'
    BY <2>1 DEF TypeOK, Threads, OneReopener, OwnCode, LockPCs, RecPCs, RmPCs, ReopenPCs,
       StoppingInv, AllAnswered, DrainedInv, Harmless, CancelledInv, OpenInv, ReopenMayFail,
       Signalled
  <2>8. QED
    BY <2>2, <2>3, <2>4, <2>5, <2>6, <2>7 DEF GuardInv
<1>19. CASE LockSet
  <2>1. /\ st' = st /\ events' = events /\ stopping' = stopping /\ isOpen' = isOpen /\ hOpen' = hOpen
        /\ lockState' = lockRes /\ held' = held /\ pc["lock"] = "set"
    BY <1>19 DEF LockSet
  <2>2. /\ pc'["lock"] = "idle"
        /\ pc'["rec"] = pc["rec"] \/ (pc["rec"] = "rcwait" /\ pc'["rec"] = "runlock")
        /\ pc'["rm"] = pc["rm"] \/ (pc["rm"] = "lcwait" /\ pc'["rm"] = "recwait")
    <3> DEFINE waiting == {p \in {"rec", "rm"} : pc[p] \in {"rcwait", "lcwait"}}
    <3>1. CASE waiting = {}
      <4>1. pc' = [pc EXCEPT !["lock"] = "idle"]
        BY <1>19, <3>1 DEF LockSet, Goto
      <4>2. QED
        BY <4>1 DEF TypeOK, Threads
    <3>2. CASE waiting # {}
      <4>1. PICK p \in waiting : pc' = [pc EXCEPT !["lock"] = "idle",
                                          ![p] = [rec |-> "runlock", rm |-> "recwait"][p]]
        BY <1>19, <3>2 DEF LockSet
      <4>2. CASE p = "rec"
        BY <4>1, <4>2 DEF TypeOK, Threads, OwnCode, RecPCs, ReopenPCs
      <4>3. CASE p = "rm"
        BY <4>1, <4>3 DEF TypeOK, Threads, OwnCode, RmPCs
      <4>4. QED
        BY <4>1, <4>2, <4>3
    <3>3. QED
      BY <3>1, <3>2
  <2>3. StoppingInv'
    BY <2>1, <2>2 DEF TypeOK, Threads, StoppingInv, AllAnswered
  <2>4. DrainedInv'
    BY <2>1, <2>2 DEF TypeOK, Threads, OneReopener, ReopenPCs, DrainedInv, Harmless, Signalled
  <2>5. FlushedInv'
    BY <2>1, <2>2 DEF TypeOK, Threads, LockingMeansLockThread, ReopenPCs, FlushedInv, AllAnswered
  <2>6. CancelledInv'
    BY <2>1, <2>2 DEF TypeOK, Threads, LockingMeansLockThread, OwnCode, RecPCs, RmPCs, ReopenPCs,
       StoppingInv, AllAnswered, DrainedInv, Harmless, CancelledInv, Signalled
  <2>7. HeldInv'
    BY <2>1, <2>2 DEF TypeOK, Threads, LockingMeansLockThread, OwnCode, RecPCs, LockPCs, ReopenPCs,
       FlushedInv, CancelledInv, HeldInv, LockedMeansHeld, Signalled
  <2>8. OpenInv'
    BY <2>1, <2>2 DEF TypeOK, Threads, OneReopener, OwnCode, LockPCs, RecPCs, RmPCs, ReopenPCs,
       StoppingInv, AllAnswered, DrainedInv, Harmless, CancelledInv, OpenInv, ReopenMayFail,
       Signalled
  <2>9. QED
    BY <2>3, <2>4, <2>5, <2>6, <2>7, <2>8 DEF GuardInv
<1>20. CASE LockUnblock
  BY <1>20 DEF LockUnblock, GuardInv, StoppingInv, DrainedInv, FlushedInv, CancelledInv, HeldInv,
     OpenInv,
     Signalled, ReopenMayFail, AllAnswered, Harmless, LockedMeansHeld
<1>21. ASSUME NEW p \in {"lock", "rec"}, ReopenWait(p) PROVE GuardInv'
  <2>1. /\ st' = st /\ events' = events /\ stopping' = stopping /\ isOpen' = isOpen /\ hOpen' = hOpen
        /\ pc[p] \in {"rw", "rwWoken"} /\ \A q \in Threads \ {p} : pc'[q] = pc[q]
        /\ \/ pc'[p] = "rwWaiting"
           \/ pc'[p] = "rcheck" /\ (pc[p] = "rwWoken" \/ Harmless)
        /\ lockState' = lockState /\ held' = held /\ lockRes' = lockRes
    BY <1>21, NothingTracked DEF ReopenWait, WaitEmpty, WokenEmpty, Goto, TypeOK, Threads, Harmless
  <2>2. StoppingInv'
    BY <2>1 DEF TypeOK, Threads, StoppingInv, AllAnswered
  <2>3. DrainedInv'
    BY <2>1 DEF TypeOK, Threads, OneReopener, ReopenPCs, DrainedInv, Harmless, Signalled
  <2>4. FlushedInv'
    BY <2>1 DEF TypeOK, Threads, LockingMeansLockThread, ReopenPCs, FlushedInv, AllAnswered
  <2>5. CancelledInv'
    BY <2>1 DEF TypeOK, Threads, LockingMeansLockThread, OwnCode, RecPCs, RmPCs, ReopenPCs,
       StoppingInv, AllAnswered, DrainedInv, Harmless, CancelledInv, Signalled
  <2>6. HeldInv'
    BY <2>1 DEF TypeOK, Threads, LockingMeansLockThread, OwnCode, RecPCs, LockPCs, ReopenPCs,
       FlushedInv, CancelledInv, HeldInv, LockedMeansHeld, Signalled
  <2>7. OpenInv'
    BY <2>1 DEF TypeOK, Threads, OneReopener, OwnCode, LockPCs, RecPCs, RmPCs, ReopenPCs,
       StoppingInv, AllAnswered, DrainedInv, Harmless, CancelledInv, OpenInv, ReopenMayFail,
       Signalled
  <2>8. QED
    BY <2>2, <2>3, <2>4, <2>5, <2>6, <2>7 DEF GuardInv
<1>22. ASSUME NEW p \in {"lock", "rec"}, ReopenCheck(p) PROVE GuardInv'
  <2>1. StoppingInv'
    BY <1>22 DEF ReopenCheck, AfterReopen, Goto, TypeOK, Threads, StoppingInv, AllAnswered
  <2>2. DrainedInv'
    BY <1>22 DEF ReopenCheck, AfterReopen, Goto, TypeOK, Threads, OneReopener, ReopenPCs,
       DrainedInv, Harmless, Signalled
  <2>3. FlushedInv'
    BY <1>22 DEF ReopenCheck, AfterReopen, Goto, TypeOK, Threads, LockingMeansLockThread, ReopenPCs,
       FlushedInv, AllAnswered
  <2>4. CancelledInv'
    BY <1>22 DEF ReopenCheck, AfterReopen, Goto, TypeOK, Threads, LockingMeansLockThread, OwnCode,
       RecPCs, RmPCs, ReopenPCs, StoppingInv, AllAnswered, DrainedInv, Harmless, CancelledInv,
       Signalled
  <2>5. HeldInv'
    BY <1>22 DEF ReopenCheck, AfterReopen, Goto, TypeOK, Threads, LockingMeansLockThread, OwnCode,
       RecPCs, LockPCs, ReopenPCs, FlushedInv, CancelledInv, HeldInv, LockedMeansHeld, Signalled
  <2>6. OpenInv'
    BY <1>22 DEF ReopenCheck, AfterReopen, Goto, TypeOK, Threads, OneReopener, OwnCode, LockPCs,
       RecPCs, RmPCs, ReopenPCs, StoppingInv, AllAnswered, DrainedInv, Harmless, CancelledInv,
       OpenInv, ReopenMayFail, Signalled
  <2>7. QED
    BY <2>1, <2>2, <2>3, <2>4, <2>5, <2>6 DEF GuardInv
<1>23. ASSUME NEW p \in {"lock", "rec"}, ReopenCancelLock(p) PROVE GuardInv'
  <2>1. StoppingInv'
    BY <1>23 DEF ReopenCancelLock, Goto, TypeOK, Threads, StoppingInv, AllAnswered
  <2>2. DrainedInv'
    BY <1>23 DEF ReopenCancelLock, Goto, TypeOK, Threads, OneReopener, ReopenPCs, DrainedInv,
       Harmless, Signalled
  <2>3. FlushedInv'
    BY <1>23 DEF ReopenCancelLock, Goto, TypeOK, Threads, LockingMeansLockThread, ReopenPCs,
       FlushedInv, AllAnswered
  <2>4. CancelledInv'
    BY <1>23 DEF ReopenCancelLock, Goto, TypeOK, Threads, LockingMeansLockThread, OwnCode, RecPCs,
       RmPCs, ReopenPCs, StoppingInv, AllAnswered, DrainedInv, Harmless, CancelledInv, Signalled
  <2>5. HeldInv'
    BY <1>23 DEF ReopenCancelLock, Goto, TypeOK, Threads, LockingMeansLockThread, OwnCode, RecPCs,
       LockPCs, ReopenPCs, FlushedInv, CancelledInv, HeldInv, LockedMeansHeld, Signalled
  <2>6. OpenInv'
    BY <1>23 DEF ReopenCancelLock, Goto, TypeOK, Threads, OneReopener, OwnCode, LockPCs, RecPCs,
       RmPCs, ReopenPCs, StoppingInv, AllAnswered, DrainedInv, Harmless, CancelledInv, OpenInv,
       ReopenMayFail, Signalled
  <2>7. QED
    BY <2>1, <2>2, <2>3, <2>4, <2>5, <2>6 DEF GuardInv
<1>24. ASSUME NEW p \in {"lock", "rec"}, ReopenUnlock(p) PROVE GuardInv'
  <2>1. StoppingInv'
    BY <1>24 DEF ReopenUnlock, Goto, TypeOK, Threads, StoppingInv, AllAnswered
  <2>2. DrainedInv'
    BY <1>24 DEF ReopenUnlock, Goto, TypeOK, Threads, OneReopener, ReopenPCs, DrainedInv, Harmless,
       Signalled
  <2>3. FlushedInv'
    BY <1>24 DEF ReopenUnlock, Goto, TypeOK, Threads, LockingMeansLockThread, ReopenPCs, FlushedInv,
       AllAnswered
  <2>4. CancelledInv'
    BY <1>24 DEF ReopenUnlock, Goto, TypeOK, Threads, LockingMeansLockThread, OwnCode, RecPCs,
       RmPCs, ReopenPCs, StoppingInv, AllAnswered, DrainedInv, Harmless, CancelledInv, Signalled
  <2>5. HeldInv'
    BY <1>24 DEF ReopenUnlock, Goto, TypeOK, Threads, LockingMeansLockThread, OwnCode, RecPCs,
       LockPCs, ReopenPCs, FlushedInv, CancelledInv, HeldInv, LockedMeansHeld, Signalled
  <2>6. OpenInv'
    BY <1>24 DEF ReopenUnlock, Goto, TypeOK, Threads, OneReopener, OwnCode, LockPCs, RecPCs, RmPCs,
       ReopenPCs, StoppingInv, AllAnswered, DrainedInv, Harmless, CancelledInv, OpenInv,
       ReopenMayFail, Signalled
  <2>7. QED
    BY <2>1, <2>2, <2>3, <2>4, <2>5, <2>6 DEF GuardInv
<1>25. ASSUME NEW p \in {"lock", "rec"}, ReopenClose(p) PROVE GuardInv'
  <2>1. StoppingInv'
    BY <1>25 DEF ReopenClose, Goto, TypeOK, Threads, StoppingInv, AllAnswered
  <2>2. DrainedInv'
    BY <1>25 DEF ReopenClose, Goto, TypeOK, Threads, OneReopener, ReopenPCs, DrainedInv, Harmless,
       Signalled
  <2>3. FlushedInv'
    BY <1>25 DEF ReopenClose, Goto, TypeOK, Threads, LockingMeansLockThread, ReopenPCs, FlushedInv,
       AllAnswered
  <2>4. CancelledInv'
    BY <1>25 DEF ReopenClose, Goto, TypeOK, Threads, LockingMeansLockThread, OwnCode, RecPCs, RmPCs,
       ReopenPCs, StoppingInv, AllAnswered, DrainedInv, Harmless, CancelledInv, Signalled
  <2>5. HeldInv'
    BY <1>25 DEF ReopenClose, Goto, TypeOK, Threads, LockingMeansLockThread, OwnCode, RecPCs,
       LockPCs, ReopenPCs, FlushedInv, CancelledInv, HeldInv, LockedMeansHeld, Signalled
  <2>6. OpenInv'
    BY <1>25 DEF ReopenClose, Goto, TypeOK, Threads, OneReopener, OwnCode, LockPCs, RecPCs, RmPCs,
       ReopenPCs, StoppingInv, AllAnswered, DrainedInv, Harmless, CancelledInv, OpenInv,
       ReopenMayFail, Signalled
  <2>7. QED
    BY <2>1, <2>2, <2>3, <2>4, <2>5, <2>6 DEF GuardInv
<1>26. ASSUME NEW p \in {"lock", "rec"}, ReopenTest(p) PROVE GuardInv'
  <2>1. StoppingInv'
    BY <1>26 DEF ReopenTest, AfterReopen, Goto, TypeOK, Threads, StoppingInv, AllAnswered
  <2>2. DrainedInv'
    BY <1>26 DEF ReopenTest, AfterReopen, Goto, TypeOK, Threads, OneReopener, ReopenPCs, DrainedInv,
       Harmless, Signalled
  <2>3. FlushedInv'
    BY <1>26 DEF ReopenTest, AfterReopen, Goto, TypeOK, Threads, LockingMeansLockThread, ReopenPCs,
       FlushedInv, AllAnswered
  <2>4. CancelledInv'
    BY <1>26 DEF ReopenTest, AfterReopen, Goto, TypeOK, Threads, LockingMeansLockThread, OwnCode,
       RecPCs, RmPCs, ReopenPCs, StoppingInv, AllAnswered, DrainedInv, Harmless, CancelledInv,
       Signalled
  <2>5. HeldInv'
    BY <1>26 DEF ReopenTest, AfterReopen, Goto, TypeOK, Threads, LockingMeansLockThread, OwnCode,
       RecPCs, LockPCs, ReopenPCs, FlushedInv, CancelledInv, HeldInv, LockedMeansHeld, Signalled
  <2>6. OpenInv'
    BY <1>26 DEF ReopenTest, AfterReopen, Goto, TypeOK, Threads, OneReopener, OwnCode, LockPCs,
       RecPCs, RmPCs, ReopenPCs, StoppingInv, AllAnswered, DrainedInv, Harmless, CancelledInv,
       OpenInv, ReopenMayFail, Signalled
  <2>7. QED
    BY <2>1, <2>2, <2>3, <2>4, <2>5, <2>6 DEF GuardInv
<1>27. ASSUME NEW p \in {"lock", "rec"}, ReopenOpen(p) PROVE GuardInv'
  <2>1. StoppingInv'
    BY <1>27 DEF ReopenOpen, AfterReopen, Goto, TypeOK, Threads, StoppingInv, AllAnswered
  <2>2. DrainedInv'
    BY <1>27 DEF ReopenOpen, AfterReopen, Goto, TypeOK, Threads, OneReopener, ReopenPCs, DrainedInv,
       Harmless, Signalled
  <2>3. FlushedInv'
    BY <1>27 DEF ReopenOpen, AfterReopen, Goto, TypeOK, Threads, LockingMeansLockThread, ReopenPCs,
       FlushedInv, AllAnswered
  <2>4. CancelledInv'
    BY <1>27 DEF ReopenOpen, AfterReopen, Goto, TypeOK, Threads, LockingMeansLockThread, OwnCode,
       RecPCs, RmPCs, ReopenPCs, StoppingInv, AllAnswered, DrainedInv, Harmless, CancelledInv,
       Signalled
  <2>5. HeldInv'
    BY <1>27 DEF ReopenOpen, AfterReopen, Goto, TypeOK, Threads, LockingMeansLockThread, OwnCode,
       RecPCs, LockPCs, ReopenPCs, FlushedInv, CancelledInv, HeldInv, LockedMeansHeld, Signalled
  <2>6. OpenInv'
    BY <1>27 DEF ReopenOpen, AfterReopen, Goto, TypeOK, Threads, OneReopener, OwnCode, LockPCs,
       RecPCs, RmPCs, ReopenPCs, StoppingInv, AllAnswered, DrainedInv, Harmless, CancelledInv,
       OpenInv, ReopenMayFail, Signalled
  <2>7. QED
    BY <2>1, <2>2, <2>3, <2>4, <2>5, <2>6 DEF GuardInv
<1>28. ASSUME NEW p \in {"lock", "rec"}, ReopenOpenFails(p) PROVE GuardInv'
  <2>1. StoppingInv'
    BY <1>28 DEF ReopenOpenFails, AfterReopen, Goto, TypeOK, Threads, StoppingInv, AllAnswered
  <2>2. DrainedInv'
    BY <1>28 DEF ReopenOpenFails, AfterReopen, Goto, TypeOK, Threads, OneReopener, ReopenPCs,
       DrainedInv, Harmless, Signalled
  <2>3. FlushedInv'
    BY <1>28 DEF ReopenOpenFails, AfterReopen, Goto, TypeOK, Threads, LockingMeansLockThread,
       ReopenPCs, FlushedInv, AllAnswered
  <2>4. CancelledInv'
    BY <1>28 DEF ReopenOpenFails, AfterReopen, Goto, TypeOK, Threads, LockingMeansLockThread,
       OwnCode, RecPCs, RmPCs, ReopenPCs, StoppingInv, AllAnswered, DrainedInv, Harmless,
       CancelledInv, Signalled
  <2>5. HeldInv'
    BY <1>28 DEF ReopenOpenFails, AfterReopen, Goto, TypeOK, Threads, LockingMeansLockThread,
       OwnCode, RecPCs, LockPCs, ReopenPCs, FlushedInv, CancelledInv, HeldInv, LockedMeansHeld,
       Signalled
  <2>6. OpenInv'
    BY <1>28 DEF ReopenOpenFails, AfterReopen, Goto, TypeOK, Threads, OneReopener, OwnCode, LockPCs,
       RecPCs, RmPCs, ReopenPCs, StoppingInv, AllAnswered, DrainedInv, Harmless, CancelledInv,
       OpenInv, ReopenMayFail, Signalled
  <2>7. QED
    BY <2>1, <2>2, <2>3, <2>4, <2>5, <2>6 DEF GuardInv
<1>29. CASE RecDisable
  <2>1. StoppingInv' /\ FlushedInv'
    BY <1>29 DEF RecDisable, Goto, TypeOK, Threads, ReopenPCs, StoppingInv, FlushedInv, AllAnswered
  <2>2. DrainedInv'
    BY <1>29 DEF RecDisable, Goto, TypeOK, Threads, OneReopener, ReopenPCs, DrainedInv, Harmless,
       Signalled
  <2>3. CancelledInv'
    BY <1>29 DEF RecDisable, Goto, TypeOK, Threads, LockingMeansLockThread, OwnCode, RecPCs, RmPCs,
       ReopenPCs, StoppingInv, AllAnswered, DrainedInv, Harmless, CancelledInv, Signalled
  <2>4. HeldInv'
    BY <1>29 DEF RecDisable, Goto, TypeOK, Threads, LockingMeansLockThread, OwnCode, RecPCs,
       LockPCs, ReopenPCs, FlushedInv, CancelledInv, HeldInv, LockedMeansHeld, Signalled
  <2>5. OpenInv'
    BY <1>29 DEF RecDisable, Goto, TypeOK, Threads, OneReopener, OwnCode, LockPCs, RecPCs, RmPCs,
       ReopenPCs, StoppingInv, AllAnswered, DrainedInv, Harmless, CancelledInv, OpenInv,
       ReopenMayFail, Signalled
  <2>6. QED
    BY <2>1, <2>2, <2>3, <2>4, <2>5 DEF GuardInv
<1>30. CASE RecDrained
  <2>1. StoppingInv' /\ FlushedInv'
    BY <1>30 DEF RecDrained, Goto, TypeOK, Threads, ReopenPCs, StoppingInv, FlushedInv, AllAnswered
  <2>2. DrainedInv'
    BY <1>30 DEF RecDrained, Goto, TypeOK, Threads, OneReopener, ReopenPCs, DrainedInv, Harmless,
       Signalled
  <2>3. CancelledInv'
    BY <1>30 DEF RecDrained, Goto, TypeOK, Threads, LockingMeansLockThread, OwnCode, RecPCs, RmPCs,
       ReopenPCs, StoppingInv, AllAnswered, DrainedInv, Harmless, CancelledInv, Signalled
  <2>4. HeldInv'
    BY <1>30 DEF RecDrained, Goto, TypeOK, Threads, LockingMeansLockThread, OwnCode, RecPCs,
       LockPCs, ReopenPCs, FlushedInv, CancelledInv, HeldInv, LockedMeansHeld, Signalled
  <2>5. OpenInv'
    BY <1>30 DEF RecDrained, Goto, TypeOK, Threads, OneReopener, OwnCode, LockPCs, RecPCs, RmPCs,
       ReopenPCs, StoppingInv, AllAnswered, DrainedInv, Harmless, CancelledInv, OpenInv,
       ReopenMayFail, Signalled
  <2>6. QED
    BY <2>1, <2>2, <2>3, <2>4, <2>5 DEF GuardInv
<1>31. CASE RecEnable
  <2>1. StoppingInv' /\ FlushedInv'
    BY <1>31 DEF RecEnable, Goto, TypeOK, Threads, ReopenPCs, StoppingInv, FlushedInv, AllAnswered
  <2>2. DrainedInv'
    BY <1>31 DEF RecEnable, Goto, TypeOK, Threads, OneReopener, ReopenPCs, DrainedInv, Harmless,
       Signalled
  <2>3. CancelledInv'
    BY <1>31 DEF RecEnable, Goto, TypeOK, Threads, LockingMeansLockThread, OwnCode, RecPCs, RmPCs,
       ReopenPCs, StoppingInv, AllAnswered, DrainedInv, Harmless, CancelledInv, Signalled
  <2>4. HeldInv'
    BY <1>31 DEF RecEnable, Goto, TypeOK, Threads, LockingMeansLockThread, OwnCode, RecPCs, LockPCs,
       ReopenPCs, FlushedInv, CancelledInv, HeldInv, LockedMeansHeld, Signalled
  <2>5. OpenInv'
    BY <1>31 DEF RecEnable, Goto, TypeOK, Threads, OneReopener, OwnCode, LockPCs, RecPCs, RmPCs,
       ReopenPCs, StoppingInv, AllAnswered, DrainedInv, Harmless, CancelledInv, OpenInv,
       ReopenMayFail, Signalled
  <2>6. QED
    BY <2>1, <2>2, <2>3, <2>4, <2>5 DEF GuardInv
<1>32. CASE RmStart
  <2>1. DrainedInv' /\ FlushedInv' /\ HeldInv'
    BY <1>32 DEF RmStart, Goto, TypeOK, Threads, ReopenPCs, DrainedInv, FlushedInv, HeldInv,
       Harmless, Signalled, LockedMeansHeld
  <2>2. StoppingInv'
    BY <1>32 DEF RmStart, Goto, TypeOK, Threads, StoppingInv, AllAnswered
  <2>3. CancelledInv'
    BY <1>32 DEF RmStart, Goto, TypeOK, Threads, LockingMeansLockThread, OwnCode, RecPCs, RmPCs,
       ReopenPCs, StoppingInv, AllAnswered, DrainedInv, Harmless, CancelledInv, Signalled
  <2>4. OpenInv'
    BY <1>32 DEF RmStart, Goto, TypeOK, Threads, OneReopener, OwnCode, LockPCs, RecPCs, RmPCs,
       ReopenPCs, StoppingInv, AllAnswered, DrainedInv, Harmless, CancelledInv, OpenInv,
       ReopenMayFail, Signalled
  <2>5. QED
    BY <2>1, <2>2, <2>3, <2>4 DEF GuardInv
<1>33. CASE RmWait
  <2>1. /\ st' = st /\ events' = events /\ stopping' = stopping /\ isOpen' = isOpen /\ hOpen' = hOpen
        /\ pc["rm"] \in {"mw", "mwWoken"} /\ pc'["rm"] \in {"mwWaiting", "lcancel"}
        /\ pc'["lock"] = pc["lock"] /\ pc'["rec"] = pc["rec"]
        /\ lockState' = lockState /\ held' = held /\ lockRes' = lockRes
    BY <1>33 DEF RmWait, WaitEmpty, WokenEmpty, Goto, TypeOK, Threads
  <2>2. DrainedInv' /\ FlushedInv' /\ HeldInv'
    BY <2>1 DEF TypeOK, Threads, ReopenPCs, DrainedInv, FlushedInv, HeldInv, Harmless, Signalled,
       LockedMeansHeld
  <2>3. StoppingInv'
    BY <2>1 DEF TypeOK, Threads, StoppingInv, AllAnswered
  <2>4. CancelledInv'
    BY <2>1 DEF TypeOK, Threads, LockingMeansLockThread, OwnCode, RecPCs, RmPCs, ReopenPCs,
       StoppingInv, AllAnswered, DrainedInv, Harmless, CancelledInv, Signalled
  <2>5. OpenInv'
    BY <2>1 DEF TypeOK, Threads, OneReopener, OwnCode, LockPCs, RecPCs, RmPCs, ReopenPCs,
       StoppingInv, AllAnswered, DrainedInv, Harmless, CancelledInv, OpenInv, ReopenMayFail,
       Signalled
  <2>6. QED
    BY <2>2, <2>3, <2>4, <2>5 DEF GuardInv
<1>34. CASE RmCancelLock
  <2>1. DrainedInv' /\ FlushedInv' /\ HeldInv'
    BY <1>34 DEF RmCancelLock, Goto, TypeOK, Threads, ReopenPCs, DrainedInv, FlushedInv, HeldInv,
       Harmless, Signalled, LockedMeansHeld
  <2>2. StoppingInv'
    BY <1>34 DEF RmCancelLock, Goto, TypeOK, Threads, StoppingInv, AllAnswered
  <2>3. CancelledInv'
    BY <1>34 DEF RmCancelLock, Goto, TypeOK, Threads, LockingMeansLockThread, OwnCode, RecPCs,
       RmPCs, ReopenPCs, StoppingInv, AllAnswered, DrainedInv, Harmless, CancelledInv, Signalled
  <2>4. OpenInv'
    BY <1>34 DEF RmCancelLock, Goto, TypeOK, Threads, OneReopener, OwnCode, LockPCs, RecPCs, RmPCs,
       ReopenPCs, StoppingInv, AllAnswered, DrainedInv, Harmless, CancelledInv, OpenInv,
       ReopenMayFail, Signalled
  <2>5. QED
    BY <2>1, <2>2, <2>3, <2>4 DEF GuardInv
<1>35. CASE RmCancelRecovery
  <2>1. DrainedInv' /\ FlushedInv' /\ HeldInv'
    BY <1>35 DEF RmCancelRecovery, Goto, TypeOK, Threads, ReopenPCs, DrainedInv, FlushedInv,
       HeldInv, Harmless, Signalled, LockedMeansHeld
  <2>2. StoppingInv'
    BY <1>35 DEF RmCancelRecovery, Goto, TypeOK, Threads, StoppingInv, AllAnswered
  <2>3. CancelledInv'
    BY <1>35 DEF RmCancelRecovery, Goto, TypeOK, Threads, LockingMeansLockThread, OwnCode, RecPCs,
       RmPCs, ReopenPCs, StoppingInv, AllAnswered, DrainedInv, Harmless, CancelledInv, Signalled
  <2>4. OpenInv'
    BY <1>35 DEF RmCancelRecovery, Goto, TypeOK, Threads, OneReopener, OwnCode, LockPCs, RecPCs,
       RmPCs, ReopenPCs, StoppingInv, AllAnswered, DrainedInv, Harmless, CancelledInv, OpenInv,
       ReopenMayFail, Signalled
  <2>5. QED
    BY <2>1, <2>2, <2>3, <2>4 DEF GuardInv
<1>36. CASE RmClose
  <2>1. DrainedInv' /\ FlushedInv'
    BY <1>36 DEF RmClose, Goto, TypeOK, Threads, ReopenPCs, DrainedInv, FlushedInv, Harmless,
       Signalled
  <2>2. StoppingInv'
    BY <1>36 DEF RmClose, Goto, TypeOK, Threads, StoppingInv, AllAnswered
  <2>3. CancelledInv'
    BY <1>36 DEF RmClose, Goto, TypeOK, Threads, LockingMeansLockThread, OwnCode, RecPCs, RmPCs,
       ReopenPCs, StoppingInv, AllAnswered, DrainedInv, Harmless, CancelledInv, Signalled
  <2>4. HeldInv'
    BY <1>36 DEF RmClose, Goto, TypeOK, Threads, LockingMeansLockThread, OwnCode, RecPCs, LockPCs,
       ReopenPCs, FlushedInv, CancelledInv, HeldInv, LockedMeansHeld, Signalled
  <2>5. OpenInv'
    BY <1>36 DEF RmClose, Goto, TypeOK, Threads, OneReopener, OwnCode, LockPCs, RecPCs, RmPCs,
       ReopenPCs, StoppingInv, AllAnswered, DrainedInv, Harmless, CancelledInv, OpenInv,
       ReopenMayFail, Signalled
  <2>6. QED
    BY <2>1, <2>2, <2>3, <2>4, <2>5 DEF GuardInv
<1>37. CASE RmFree
  <2>1. DrainedInv' /\ FlushedInv' /\ HeldInv'
    BY <1>37 DEF RmFree, Goto, TypeOK, Threads, ReopenPCs, DrainedInv, FlushedInv, HeldInv,
       Harmless, Signalled, LockedMeansHeld
  <2>2. StoppingInv'
    BY <1>37 DEF RmFree, Goto, TypeOK, Threads, StoppingInv, AllAnswered
  <2>3. CancelledInv'
    BY <1>37 DEF RmFree, Goto, TypeOK, Threads, LockingMeansLockThread, OwnCode, RecPCs, RmPCs,
       ReopenPCs, StoppingInv, AllAnswered, DrainedInv, Harmless, CancelledInv, Signalled
  <2>4. OpenInv'
    BY <1>37 DEF RmFree, Goto, TypeOK, Threads, OneReopener, OwnCode, LockPCs, RecPCs, RmPCs,
       ReopenPCs, StoppingInv, AllAnswered, DrainedInv, Harmless, CancelledInv, OpenInv,
       ReopenMayFail, Signalled
  <2>5. QED
    BY <2>1, <2>2, <2>3, <2>4 DEF GuardInv
<1>38. ASSUME NEW p \in Threads, Spurious(p) PROVE GuardInv'
  <2>1. StoppingInv'
    BY <1>38 DEF Spurious, Goto, TypeOK, Threads, StoppingInv, AllAnswered
  <2>2. DrainedInv'
    BY <1>38 DEF Spurious, Goto, TypeOK, Threads, OneReopener, ReopenPCs, DrainedInv, Harmless,
       Signalled
  <2>3. FlushedInv'
    BY <1>38 DEF Spurious, Goto, TypeOK, Threads, LockingMeansLockThread, ReopenPCs, FlushedInv,
       AllAnswered
  <2>4. CancelledInv'
    BY <1>38 DEF Spurious, Goto, TypeOK, Threads, LockingMeansLockThread, OwnCode, RecPCs, RmPCs,
       ReopenPCs, StoppingInv, AllAnswered, DrainedInv, Harmless, CancelledInv, Signalled
  <2>5. HeldInv'
    BY <1>38 DEF Spurious, Goto, TypeOK, Threads, LockingMeansLockThread, OwnCode, RecPCs, LockPCs,
       ReopenPCs, FlushedInv, CancelledInv, HeldInv, LockedMeansHeld, Signalled
  <2>6. OpenInv'
    BY <1>38 DEF Spurious, Goto, TypeOK, Threads, OneReopener, OwnCode, LockPCs, RecPCs, RmPCs,
       ReopenPCs, StoppingInv, AllAnswered, DrainedInv, Harmless, CancelledInv, OpenInv,
       ReopenMayFail, Signalled
  <2>7. QED
    BY <2>1, <2>2, <2>3, <2>4, <2>5, <2>6 DEF GuardInv
<1>39. CASE Terminated
  BY <1>39 DEF Terminated, vars, GuardInv, StoppingInv, DrainedInv, FlushedInv, CancelledInv,
     HeldInv, OpenInv,
     Signalled, ReopenMayFail, AllAnswered, Harmless, LockedMeansHeld
<1>40. CASE UNCHANGED vars
  BY <1>40 DEF vars, GuardInv, StoppingInv, DrainedInv, FlushedInv, CancelledInv, HeldInv, OpenInv,
     Signalled, ReopenMayFail, AllAnswered, Harmless, LockedMeansHeld
<1>41. QED
  <2>1. ASSUME NEW c \in Cmds, CmdStep(c) PROVE GuardInv'
    BY <2>1, <1>2, <1>3, <1>4, <1>5, <1>6, <1>7, <1>8, <1>9 DEF CmdStep
  <2>2. ASSUME NEW p \in {"lock", "rec"}, ReopenStep(p) PROVE GuardInv'
    BY <2>2, <1>21, <1>22, <1>23, <1>24, <1>25, <1>26, <1>27, <1>28 DEF ReopenStep
  <2>3. CASE LockStep
    BY <2>2, <2>3, <1>12, <1>13, <1>14, <1>15, <1>16, <1>17, <1>18, <1>19 DEF LockStep
  <2>4. CASE RecStep
    BY <2>2, <2>4, <1>29, <1>30, <1>31 DEF RecStep
  <2>5. CASE RmStep
    BY <2>5, <1>33, <1>34, <1>35, <1>36, <1>37 DEF RmStep
  <2>6. QED
    BY <2>1, <2>3, <2>4, <2>5, <1>1, <1>10, <1>11, <1>20, <1>32, <1>38, <1>39, <1>40 DEF Next

\* The guards hold from the start.
LEMMA Guarded == Spec => []GuardInv
<1>1. Init => GuardInv
  BY DEF Init, GuardInv, StoppingInv, DrainedInv, FlushedInv, CancelledInv, HeldInv, OpenInv,
     Signalled, ReopenMayFail, LockedMeansHeld, Threads, ReopenPCs
<1>2. QED
  BY <1>1, GuardStep, Exclusive, PTL DEF Spec

\* No rhandler->close while a command or a lock call is inside the handler, and
\* none on a closed device: tracking before the IN_RECOVERY test, waiting for
\* the empty queue after setting it, and STOPPING keep close and use apart.
THEOREM HandlerCloseSafe == Spec => []HandlerClosedSafely
<1>1. ExclusiveInv /\ GuardInv => HandlerClosedSafely
  <2> SUFFICES ASSUME ExclusiveInv, GuardInv PROVE HandlerClosedSafely
    OBVIOUS
  <2>1. HandlerNotClosedInUse
    BY DEF HandlerNotClosedInUse, ExclusiveInv, ThreadsExclusive, TypeOK, OneReopener, OwnCode,
       GuardInv, StoppingInv, DrainedInv, OpenInv, AllAnswered, Harmless, ReopenPCs, Signalled
  <2>2. CloseOnlyOpen
    BY DEF CloseOnlyOpen, ClosesOnlyOpen, ExclusiveInv, ThreadsExclusive, TypeOK, GuardInv, OpenInv,
       ReopenPCs
  <2>3. QED
    BY <2>1, <2>2 DEF HandlerClosedSafely
<1>2. QED
  BY <1>1, Exclusive, Guarded, PTL

\* While every condition wait is signalled, LOCKED means that the handler got
\* its lock since it was last opened and has not reported it lost.
THEOREM LockedIsHeld == Spec => []LockedMeansHeld
<1>1. GuardInv => LockedMeansHeld
  BY DEF GuardInv, HeldInv
<1>2. QED
  BY <1>1, Guarded, PTL

=============================================================================
