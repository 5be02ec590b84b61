--------------------------- MODULE AioQueueProofs ---------------------------
(***************************************************************************)
(* Invariance proofs for AioQueue, for every set of commands, workers and  *)
(* library threads, every fault and both ways of removal.                  *)
(***************************************************************************)
EXTENDS AioQueue, FiniteSetTheorems, TLAPS

\* While the command processor serves a command it holds one; TypeOK alone is
\* not inductive, since aio_schedule appends the command in hand.
CmdInHand == cpc \in {"handle", "tracked", "untrack", "complete"} => cjob \in Cmds
TypeInv == TypeOK /\ CmdInHand

\* The type invariant is preserved by every step.
LEMMA TypeStep == TypeInv /\ [Next]_vars => TypeInv'
<1> SUFFICES ASSUME TypeInv, [Next]_vars PROVE TypeInv'
  OBVIOUS
<1> USE DEF Threads, CmdStates, CmdprocPCs, ThreadPCs, RemoverPCs
<1>1. ASSUME NEW c \in Cmds, KernelQueue(c) PROVE TypeInv'
  BY <1>1 DEF KernelQueue, aioVars, procVars, thrVars, rmVars, TypeInv, CmdInHand, TypeOK
<1>2. ASSUME NEW c \in Cmds, KernelExpire(c) PROVE TypeInv'
  BY <1>2 DEF KernelExpire, aioVars, procVars, thrVars, rmVars, TypeInv, CmdInHand, TypeOK
<1>3. CASE CpStart
  BY <1>3 DEF CpStart, cmdVars, aioVars, thrVars, rmVars, TypeInv, CmdInHand, TypeOK
<1>4. CASE CpFetch
  BY <1>4 DEF CpFetch, aioVars, thrVars, rmVars, TypeInv, CmdInHand, TypeOK
<1>5. CASE CpFetchNone
  BY <1>5 DEF CpFetchNone, cmdVars, aioVars, thrVars, rmVars, TypeInv, CmdInHand, TypeOK
<1>6. CASE CpHandleSync
  BY <1>6 DEF CpHandleSync, cmdVars, aioVars, thrVars, rmVars, TypeInv, CmdInHand, TypeOK
<1>7. CASE CpTrackStart
  <2>1. st' \in [Cmds -> CmdStates]
    BY <1>7 DEF CpTrackStart, thrVars, rmVars, TypeInv, CmdInHand, TypeOK
  <2>2. tracked' \in Int
    BY <1>7 DEF CpTrackStart, thrVars, rmVars, TypeInv, CmdInHand, TypeOK
  <2>3. QED
    BY <1>7, <2>1, <2>2 DEF CpTrackStart, thrVars, rmVars, TypeInv, CmdInHand, TypeOK
<1>8. CASE CpRefuse
  BY <1>8 DEF CpRefuse, cmdVars, aioVars, thrVars, rmVars, TypeInv, CmdInHand, TypeOK
<1>9. CASE CpSchedule
  <2>1. st' \in [Cmds -> CmdStates]
    BY <1>9 DEF CpSchedule, aioVars, rmVars, TypeInv, CmdInHand, TypeOK
  <2>2. pc' \in [Threads -> ThreadPCs]
    BY <1>9 DEF CpSchedule, aioVars, rmVars, TypeInv, CmdInHand, TypeOK
  <2>3. queue' \in Seq(Cmds)
    BY <1>9 DEF CpSchedule, aioVars, rmVars, TypeInv, CmdInHand, TypeOK
  <2>4. QED
    BY <1>9, <2>1, <2>2, <2>3 DEF CpSchedule, aioVars, rmVars, TypeInv, CmdInHand, TypeOK
<1>10. CASE CpSubmit
  BY <1>10 DEF CpSubmit, aioVars, thrVars, rmVars, TypeInv, CmdInHand, TypeOK
<1>11. CASE CpUntrack
  <2>1. st' \in [Cmds -> CmdStates]
    BY <1>11 DEF CpUntrack, TrackFinish, thrVars, TypeInv, CmdInHand, TypeOK
  <2>2. tracked' \in Int /\ rpc' \in RemoverPCs
    BY <1>11 DEF CpUntrack, TrackFinish, thrVars, TypeInv, CmdInHand, TypeOK
  <2>3. QED
    BY <1>11, <2>1, <2>2 DEF CpUntrack, TrackFinish, thrVars, TypeInv, CmdInHand, TypeOK
<1>12. CASE CpComplete
  BY <1>12 DEF CpComplete, aioVars, thrVars, rmVars, TypeInv, CmdInHand, TypeOK
<1>13. CASE CpKick
  BY <1>13 DEF CpKick, ProcessingComplete, aioVars, thrVars, rmVars, TypeInv, CmdInHand, TypeOK
<1>14. CASE CpPoll
  BY <1>14 DEF CpPoll, cmdVars, aioVars, thrVars, rmVars, TypeInv, CmdInHand, TypeOK
<1>15. CASE CpPollError
  BY <1>15 DEF CpPollError, cmdVars, aioVars, thrVars, rmVars, TypeInv, CmdInHand, TypeOK
<1>16. ASSUME NEW t \in Workers, WorkerTake(t) PROVE TypeInv'
  BY <1>16 DEF WorkerTake, aioVars, procVars, rmVars, TypeInv, CmdInHand, TypeOK
<1>17. ASSUME NEW t \in Workers, WorkerWait(t) PROVE TypeInv'
  BY <1>17 DEF WorkerWait, cmdVars, aioVars, procVars, rmVars, TypeInv, CmdInHand, TypeOK
<1>18. ASSUME NEW t \in Workers, WorkerSpurious(t) PROVE TypeInv'
  BY <1>18 DEF WorkerSpurious, cmdVars, aioVars, procVars, rmVars, TypeInv, CmdInHand, TypeOK
<1>19. ASSUME NEW t \in Workers, WorkerDone(t) PROVE TypeInv'
  <2>1. st' \in [Cmds -> CmdStates]
    BY <1>19 DEF WorkerDone, aioVars, procVars, rmVars, TypeInv, CmdInHand, TypeOK
  <2>2. pc' \in [Threads -> ThreadPCs]
    BY <1>19 DEF WorkerDone, aioVars, procVars, rmVars, TypeInv, CmdInHand, TypeOK
  <2>3. QED
    BY <1>19, <2>1, <2>2 DEF WorkerDone, aioVars, procVars, rmVars, TypeInv, CmdInHand, TypeOK
<1>20. ASSUME NEW t \in Workers, WorkerSubmit(t) PROVE TypeInv'
  <2>1. st' \in [Cmds -> CmdStates]
    BY <1>20 DEF WorkerSubmit, aioVars, procVars, rmVars, TypeInv, CmdInHand, TypeOK
  <2>2. pc' \in [Threads -> ThreadPCs]
    BY <1>20 DEF WorkerSubmit, aioVars, procVars, rmVars, TypeInv, CmdInHand, TypeOK
  <2>3. job' \in [Threads -> Cmds \cup {None}]
    BY <1>20 DEF WorkerSubmit, aioVars, procVars, rmVars, TypeInv, CmdInHand, TypeOK
  <2>4. QED
    BY <1>20, <2>1, <2>2, <2>3 DEF WorkerSubmit, aioVars, procVars, rmVars, TypeInv, CmdInHand, TypeOK
<1>21. ASSUME NEW t \in Callbacks, NEW c \in Cmds, CallbackDone(t, c) PROVE TypeInv'
  BY <1>21 DEF CallbackDone, aioVars, procVars, rmVars, TypeInv, CmdInHand, TypeOK
<1>22. ASSUME NEW t \in Threads, FinishComplete(t) PROVE TypeInv'
  <2>1. st' \in [Cmds -> CmdStates]
    BY <1>22 DEF FinishComplete, aioVars, procVars, rmVars, TypeInv, CmdInHand, TypeOK
  <2>2. pc' \in [Threads -> ThreadPCs]
    BY <1>22 DEF FinishComplete, aioVars, procVars, rmVars, TypeInv, CmdInHand, TypeOK
  <2>3. job' \in [Threads -> Cmds \cup {None}]
    BY <1>22 DEF FinishComplete, aioVars, procVars, rmVars, TypeInv, CmdInHand, TypeOK
  <2>4. QED
    BY <1>22, <2>1, <2>2, <2>3 DEF FinishComplete, aioVars, procVars, rmVars, TypeInv, CmdInHand, TypeOK
<1>23. ASSUME NEW t \in Threads, FinishTrack(t) PROVE TypeInv'
  <2>1. pc' \in [Threads -> ThreadPCs]
    BY <1>23 DEF FinishTrack, TrackFinish, cmdVars, procVars, TypeInv, CmdInHand, TypeOK
  <2>2. tracked' \in Int /\ pending' \in Nat /\ rpc' \in RemoverPCs
    BY <1>23 DEF FinishTrack, TrackFinish, cmdVars, procVars, TypeInv, CmdInHand, TypeOK
  <2>3. QED
    BY <1>23, <2>1, <2>2 DEF FinishTrack, TrackFinish, cmdVars, procVars, TypeInv, CmdInHand, TypeOK
<1>24. ASSUME NEW t \in Threads, FinishKick(t) PROVE TypeInv'
  BY <1>24 DEF FinishKick, ProcessingComplete, aioVars, procVars, rmVars, TypeInv, CmdInHand, TypeOK
<1>25. ASSUME NEW t \in Threads, FinishWakeup(t) PROVE TypeInv'
  BY <1>25 DEF FinishWakeup, cmdVars, procVars, rmVars, TypeInv, CmdInHand, TypeOK
<1>26. ASSUME NEW t \in Workers, RmCancelWorker(t) PROVE TypeInv'
  BY <1>26 DEF RmCancelWorker, cmdVars, aioVars, procVars, rmVars, TypeInv, CmdInHand, TypeOK
<1>27. CASE RemoveByNetlink
  BY <1>27 DEF RemoveByNetlink, cmdVars, aioVars, procVars, thrVars, TypeInv, CmdInHand, TypeOK
<1>28. CASE RemoveByShutdown
  BY <1>28 DEF RemoveByShutdown, cmdVars, aioVars, procVars, thrVars, TypeInv, CmdInHand, TypeOK
<1>29. CASE RmFlush
  BY <1>29 DEF RmFlush, cmdVars, aioVars, procVars, thrVars, TypeInv, CmdInHand, TypeOK
<1>30. CASE RmWorkersGone
  BY <1>30 DEF RmWorkersGone, cmdVars, aioVars, procVars, thrVars, TypeInv, CmdInHand, TypeOK
<1>31. CASE RmWaitEmpty
  BY <1>31 DEF RmWaitEmpty, cmdVars, procVars, thrVars, TypeInv, CmdInHand, TypeOK
<1>32. CASE RmSpurious
  BY <1>32 DEF RmSpurious, cmdVars, aioVars, procVars, thrVars, TypeInv, CmdInHand, TypeOK
<1>33. CASE RmWoken
  BY <1>33 DEF RmWoken, cmdVars, procVars, thrVars, TypeInv, CmdInHand, TypeOK
<1>34. CASE RmCancelCmdproc
  BY <1>34 DEF RmCancelCmdproc, cmdVars, aioVars, thrVars, TypeInv, CmdInHand, TypeOK
<1>35. CASE RmStopDevice
  BY <1>35 DEF RmStopDevice, cmdVars, aioVars, procVars, thrVars, TypeInv, CmdInHand, TypeOK
<1>36. CASE RmCleanup
  BY <1>36 DEF RmCleanup, cmdVars, aioVars, procVars, thrVars, TypeInv, CmdInHand, TypeOK
<1>37. CASE Terminated
  BY <1>37 DEF Terminated, vars, TypeInv, CmdInHand, TypeOK
<1>38. CASE UNCHANGED vars
  BY <1>38 DEF vars, TypeInv, CmdInHand, TypeOK
<1>39. QED
  <2>1. CASE CmdprocStep
    BY <2>1, <1>3, <1>4, <1>5, <1>6, <1>7, <1>8, <1>9, <1>10, <1>11, <1>12, <1>13, <1>14 DEF CmdprocStep
  <2>2. ASSUME NEW t \in Workers, WorkerStep(t) PROVE TypeInv'
    BY <2>2, <1>16, <1>17, <1>19, <1>20 DEF WorkerStep
  <2>3. ASSUME NEW t \in Threads, FinishStep(t) PROVE TypeInv'
    BY <2>3, <1>22, <1>23, <1>24, <1>25 DEF FinishStep
  <2>4. CASE RemoverStep
    BY <2>4, <1>29, <1>30, <1>31, <1>33, <1>34, <1>35, <1>36, <1>26 DEF RemoverStep
  <2>5. QED
    BY <2>1, <2>2, <2>3, <2>4, <1>38, <1>1, <1>2, <1>15, <1>18, <1>21, <1>27, <1>28, <1>32, <1>37 DEF Next

\* Every variable of the device's threads keeps its type in every behaviour.
THEOREM TypeCorrect == Spec => []TypeOK
<1>1. Init => TypeInv
  <2>1. ASSUME Init PROVE TypeOK
    <3>1. st \in [Cmds -> CmdStates] /\ pc \in [Threads -> ThreadPCs]
      BY <2>1 DEF Init, CmdStates, ThreadPCs
    <3>2. job \in [Threads -> Cmds \cup {None}]
      BY <2>1 DEF Init
    <3>3. ring \in Seq(Cmds) /\ queue \in Seq(Cmds)
      BY <2>1 DEF Init
    <3>4. tracked \in Int /\ pending \in Nat /\ expired \subseteq Cmds /\ dead \subseteq Workers
      BY <2>1 DEF Init
    <3>5. cpc \in CmdprocPCs /\ cjob \in Cmds \cup {None} /\ rpc \in RemoverPCs
      BY <2>1 DEF Init, CmdprocPCs, RemoverPCs
    <3>6. /\ uioEvent \in BOOLEAN /\ emptyCond \in BOOLEAN /\ completed \in BOOLEAN
          /\ devStopping \in BOOLEAN /\ stopping \in BOOLEAN
      BY <2>1 DEF Init
    <3>7. QED
      BY <3>1, <3>2, <3>3, <3>4, <3>5, <3>6 DEF TypeOK
  <2>2. Init => CmdInHand
    BY DEF Init, CmdInHand
  <2>3. QED
    BY <2>1, <2>2 DEF TypeInv
<1>2. TypeInv => TypeOK
  BY DEF TypeInv
<1>3. QED
  BY <1>1, <1>2, TypeStep, PTL DEF Spec

-----------------------------------------------------------------------------
(* The wakeup protocol of aio_command_finish.                              *)

\* Nothing is torn down before STOPPING is set: the removing thread is past
\* its start, a worker is cancelled, or a waiter is registered, only then.
StopInv ==
    /\ rpc \notin {"none", "flush"} => stopping
    /\ dead # {} => stopping
    /\ emptyCond => stopping

WakeInv == StopInv /\ OneWaker /\ NoLostCompletion

\* STOPPING precedes every other step of a removal.
LEMMA StopStep == TypeOK /\ StopInv /\ [Next]_vars => StopInv'
<1> SUFFICES ASSUME TypeOK, StopInv, [Next]_vars PROVE StopInv'
  OBVIOUS
<1>1. ASSUME NEW c \in Cmds, KernelQueue(c) PROVE StopInv'
  BY <1>1 DEF KernelQueue, aioVars, procVars, thrVars, rmVars, StopInv, TypeOK
<1>2. ASSUME NEW c \in Cmds, KernelExpire(c) PROVE StopInv'
  BY <1>2 DEF KernelExpire, aioVars, procVars, thrVars, rmVars, StopInv, TypeOK
<1>3. CASE CpStart
  BY <1>3 DEF CpStart, cmdVars, aioVars, thrVars, rmVars, StopInv, TypeOK
<1>4. CASE CpFetch
  BY <1>4 DEF CpFetch, aioVars, thrVars, rmVars, StopInv, TypeOK
<1>5. CASE CpFetchNone
  BY <1>5 DEF CpFetchNone, cmdVars, aioVars, thrVars, rmVars, StopInv, TypeOK
<1>6. CASE CpHandleSync
  BY <1>6 DEF CpHandleSync, cmdVars, aioVars, thrVars, rmVars, StopInv, TypeOK
<1>7. CASE CpTrackStart
  BY <1>7 DEF CpTrackStart, thrVars, rmVars, StopInv, TypeOK
<1>8. CASE CpRefuse
  BY <1>8 DEF CpRefuse, cmdVars, aioVars, thrVars, rmVars, StopInv, TypeOK
<1>9. CASE CpSchedule
  BY <1>9 DEF CpSchedule, aioVars, rmVars, StopInv, TypeOK
<1>10. CASE CpSubmit
  BY <1>10 DEF CpSubmit, aioVars, thrVars, rmVars, StopInv, TypeOK
<1>11. CASE CpUntrack
  BY <1>11 DEF CpUntrack, TrackFinish, thrVars, StopInv, TypeOK
<1>12. CASE CpComplete
  BY <1>12 DEF CpComplete, aioVars, thrVars, rmVars, StopInv, TypeOK
<1>13. CASE CpKick
  BY <1>13 DEF CpKick, ProcessingComplete, aioVars, thrVars, rmVars, StopInv, TypeOK
<1>14. CASE CpPoll
  BY <1>14 DEF CpPoll, cmdVars, aioVars, thrVars, rmVars, StopInv, TypeOK
<1>15. CASE CpPollError
  BY <1>15 DEF CpPollError, cmdVars, aioVars, thrVars, rmVars, StopInv, TypeOK
<1>16. ASSUME NEW t \in Workers, WorkerTake(t) PROVE StopInv'
  BY <1>16 DEF WorkerTake, aioVars, procVars, rmVars, StopInv, TypeOK
<1>17. ASSUME NEW t \in Workers, WorkerWait(t) PROVE StopInv'
  BY <1>17 DEF WorkerWait, cmdVars, aioVars, procVars, rmVars, StopInv, TypeOK
<1>18. ASSUME NEW t \in Workers, WorkerSpurious(t) PROVE StopInv'
  BY <1>18 DEF WorkerSpurious, cmdVars, aioVars, procVars, rmVars, StopInv, TypeOK
<1>19. ASSUME NEW t \in Workers, WorkerDone(t) PROVE StopInv'
  BY <1>19 DEF WorkerDone, aioVars, procVars, rmVars, StopInv, TypeOK
<1>20. ASSUME NEW t \in Workers, WorkerSubmit(t) PROVE StopInv'
  BY <1>20 DEF WorkerSubmit, aioVars, procVars, rmVars, StopInv, TypeOK
<1>21. ASSUME NEW t \in Callbacks, NEW c \in Cmds, CallbackDone(t, c) PROVE StopInv'
  BY <1>21 DEF CallbackDone, aioVars, procVars, rmVars, StopInv, TypeOK
<1>22. ASSUME NEW t \in Threads, FinishComplete(t) PROVE StopInv'
  BY <1>22 DEF FinishComplete, aioVars, procVars, rmVars, StopInv, TypeOK
<1>23. ASSUME NEW t \in Threads, FinishTrack(t) PROVE StopInv'
  BY <1>23 DEF FinishTrack, TrackFinish, cmdVars, procVars, StopInv, TypeOK
<1>24. ASSUME NEW t \in Threads, FinishKick(t) PROVE StopInv'
  BY <1>24 DEF FinishKick, ProcessingComplete, aioVars, procVars, rmVars, StopInv, TypeOK
<1>25. ASSUME NEW t \in Threads, FinishWakeup(t) PROVE StopInv'
  BY <1>25 DEF FinishWakeup, cmdVars, procVars, rmVars, StopInv, TypeOK
<1>26. ASSUME NEW t \in Workers, RmCancelWorker(t) PROVE StopInv'
  BY <1>26 DEF RmCancelWorker, cmdVars, aioVars, procVars, rmVars, StopInv, TypeOK
<1>27. CASE RemoveByNetlink
  BY <1>27 DEF RemoveByNetlink, cmdVars, aioVars, procVars, thrVars, StopInv, TypeOK
<1>28. CASE RemoveByShutdown
  BY <1>28 DEF RemoveByShutdown, cmdVars, aioVars, procVars, thrVars, StopInv, TypeOK
<1>29. CASE RmFlush
  BY <1>29 DEF RmFlush, cmdVars, aioVars, procVars, thrVars, StopInv, TypeOK
<1>30. CASE RmWorkersGone
  BY <1>30 DEF RmWorkersGone, cmdVars, aioVars, procVars, thrVars, StopInv, TypeOK
<1>31. CASE RmWaitEmpty
  BY <1>31 DEF RmWaitEmpty, cmdVars, procVars, thrVars, StopInv, TypeOK
<1>32. CASE RmSpurious
  BY <1>32 DEF RmSpurious, cmdVars, aioVars, procVars, thrVars, StopInv, TypeOK
<1>33. CASE RmWoken
  BY <1>33 DEF RmWoken, cmdVars, procVars, thrVars, StopInv, TypeOK
<1>34. CASE RmCancelCmdproc
  BY <1>34 DEF RmCancelCmdproc, cmdVars, aioVars, thrVars, StopInv, TypeOK
<1>35. CASE RmStopDevice
  BY <1>35 DEF RmStopDevice, cmdVars, aioVars, procVars, thrVars, StopInv, TypeOK
<1>36. CASE RmCleanup
  BY <1>36 DEF RmCleanup, cmdVars, aioVars, procVars, thrVars, StopInv, TypeOK
<1>37. CASE Terminated
  BY <1>37 DEF Terminated, vars, StopInv, TypeOK
<1>38. CASE UNCHANGED vars
  BY <1>38 DEF vars, StopInv, TypeOK
<1>39. QED
  <2>1. CASE CmdprocStep
    BY <2>1, <1>3, <1>4, <1>5, <1>6, <1>7, <1>8, <1>9, <1>10, <1>11, <1>12, <1>13, <1>14 DEF CmdprocStep
  <2>2. ASSUME NEW t \in Workers, WorkerStep(t) PROVE StopInv'
    BY <2>2, <1>16, <1>17, <1>19, <1>20 DEF WorkerStep
  <2>3. ASSUME NEW t \in Threads, FinishStep(t) PROVE StopInv'
    BY <2>3, <1>22, <1>23, <1>24, <1>25 DEF FinishStep
  <2>4. CASE RemoverStep
    BY <2>4, <1>29, <1>30, <1>31, <1>33, <1>34, <1>35, <1>36, <1>26 DEF RemoverStep
  <2>5. QED
    BY <2>1, <2>2, <2>3, <2>4, <1>38, <1>1, <1>2, <1>15, <1>18, <1>21, <1>27, <1>28, <1>32, <1>37 DEF Next

\* The election of the waker survives every step.
LEMMA WakerStep == TypeOK /\ OneWaker /\ [Next]_vars => OneWaker'
<1> SUFFICES ASSUME TypeOK, OneWaker, [Next]_vars PROVE OneWaker'
  OBVIOUS
<1> USE DEF Threads, Waker
<1>1. ASSUME NEW c \in Cmds, KernelQueue(c) PROVE OneWaker'
  BY <1>1 DEF KernelQueue, aioVars, procVars, thrVars, rmVars, OneWaker, TypeOK
<1>2. ASSUME NEW c \in Cmds, KernelExpire(c) PROVE OneWaker'
  BY <1>2 DEF KernelExpire, aioVars, procVars, thrVars, rmVars, OneWaker, TypeOK
<1>3. CASE CpStart
  BY <1>3 DEF CpStart, cmdVars, aioVars, thrVars, rmVars, OneWaker, TypeOK
<1>4. CASE CpFetch
  BY <1>4 DEF CpFetch, aioVars, thrVars, rmVars, OneWaker, TypeOK
<1>5. CASE CpFetchNone
  BY <1>5 DEF CpFetchNone, cmdVars, aioVars, thrVars, rmVars, OneWaker, TypeOK
<1>6. CASE CpHandleSync
  BY <1>6 DEF CpHandleSync, cmdVars, aioVars, thrVars, rmVars, OneWaker, TypeOK
<1>7. CASE CpTrackStart
  BY <1>7 DEF CpTrackStart, thrVars, rmVars, OneWaker, TypeOK
<1>8. CASE CpRefuse
  BY <1>8 DEF CpRefuse, cmdVars, aioVars, thrVars, rmVars, OneWaker, TypeOK
<1>9. CASE CpSchedule
  BY <1>9 DEF CpSchedule, aioVars, rmVars, OneWaker, TypeOK
<1>10. CASE CpSubmit
  BY <1>10 DEF CpSubmit, aioVars, thrVars, rmVars, OneWaker, TypeOK
<1>11. CASE CpUntrack
  BY <1>11 DEF CpUntrack, TrackFinish, thrVars, OneWaker, TypeOK
<1>12. CASE CpComplete
  BY <1>12 DEF CpComplete, aioVars, thrVars, rmVars, OneWaker, TypeOK
<1>13. CASE CpKick
  BY <1>13 DEF CpKick, ProcessingComplete, aioVars, thrVars, rmVars, OneWaker, TypeOK
<1>14. CASE CpPoll
  BY <1>14 DEF CpPoll, cmdVars, aioVars, thrVars, rmVars, OneWaker, TypeOK
<1>15. CASE CpPollError
  BY <1>15 DEF CpPollError, cmdVars, aioVars, thrVars, rmVars, OneWaker, TypeOK
<1>16. ASSUME NEW t \in Workers, WorkerTake(t) PROVE OneWaker'
  BY <1>16 DEF WorkerTake, aioVars, procVars, rmVars, OneWaker, TypeOK
<1>17. ASSUME NEW t \in Workers, WorkerWait(t) PROVE OneWaker'
  BY <1>17 DEF WorkerWait, cmdVars, aioVars, procVars, rmVars, OneWaker, TypeOK
<1>18. ASSUME NEW t \in Workers, WorkerSpurious(t) PROVE OneWaker'
  BY <1>18 DEF WorkerSpurious, cmdVars, aioVars, procVars, rmVars, OneWaker, TypeOK
<1>19. ASSUME NEW t \in Workers, WorkerDone(t) PROVE OneWaker'
  BY <1>19 DEF WorkerDone, aioVars, procVars, rmVars, OneWaker, TypeOK
<1>20. ASSUME NEW t \in Workers, WorkerSubmit(t) PROVE OneWaker'
  BY <1>20 DEF WorkerSubmit, aioVars, procVars, rmVars, OneWaker, TypeOK
<1>21. ASSUME NEW t \in Callbacks, NEW c \in Cmds, CallbackDone(t, c) PROVE OneWaker'
  BY <1>21 DEF CallbackDone, aioVars, procVars, rmVars, OneWaker, TypeOK
<1>22. ASSUME NEW t \in Threads, FinishComplete(t) PROVE OneWaker'
  BY <1>22 DEF FinishComplete, aioVars, procVars, rmVars, OneWaker, TypeOK
<1>23. ASSUME NEW t \in Threads, FinishTrack(t) PROVE OneWaker'
  BY <1>23 DEF FinishTrack, TrackFinish, cmdVars, procVars, OneWaker, TypeOK
<1>24. ASSUME NEW t \in Threads, FinishKick(t) PROVE OneWaker'
  BY <1>24 DEF FinishKick, ProcessingComplete, aioVars, procVars, rmVars, OneWaker, TypeOK
<1>25. ASSUME NEW t \in Threads, FinishWakeup(t) PROVE OneWaker'
  BY <1>25 DEF FinishWakeup, cmdVars, procVars, rmVars, OneWaker, TypeOK
<1>26. ASSUME NEW t \in Workers, RmCancelWorker(t) PROVE OneWaker'
  BY <1>26 DEF RmCancelWorker, cmdVars, aioVars, procVars, rmVars, OneWaker, TypeOK
<1>27. CASE RemoveByNetlink
  BY <1>27 DEF RemoveByNetlink, cmdVars, aioVars, procVars, thrVars, OneWaker, TypeOK
<1>28. CASE RemoveByShutdown
  BY <1>28 DEF RemoveByShutdown, cmdVars, aioVars, procVars, thrVars, OneWaker, TypeOK
<1>29. CASE RmFlush
  BY <1>29 DEF RmFlush, cmdVars, aioVars, procVars, thrVars, OneWaker, TypeOK
<1>30. CASE RmWorkersGone
  BY <1>30 DEF RmWorkersGone, cmdVars, aioVars, procVars, thrVars, OneWaker, TypeOK
<1>31. CASE RmWaitEmpty
  BY <1>31 DEF RmWaitEmpty, cmdVars, procVars, thrVars, OneWaker, TypeOK
<1>32. CASE RmSpurious
  BY <1>32 DEF RmSpurious, cmdVars, aioVars, procVars, thrVars, OneWaker, TypeOK
<1>33. CASE RmWoken
  BY <1>33 DEF RmWoken, cmdVars, procVars, thrVars, OneWaker, TypeOK
<1>34. CASE RmCancelCmdproc
  BY <1>34 DEF RmCancelCmdproc, cmdVars, aioVars, thrVars, OneWaker, TypeOK
<1>35. CASE RmStopDevice
  BY <1>35 DEF RmStopDevice, cmdVars, aioVars, procVars, thrVars, OneWaker, TypeOK
<1>36. CASE RmCleanup
  BY <1>36 DEF RmCleanup, cmdVars, aioVars, procVars, thrVars, OneWaker, TypeOK
<1>37. CASE Terminated
  BY <1>37 DEF Terminated, vars, OneWaker, TypeOK
<1>38. CASE UNCHANGED vars
  BY <1>38 DEF vars, OneWaker, TypeOK
<1>39. QED
  <2>1. CASE CmdprocStep
    BY <2>1, <1>3, <1>4, <1>5, <1>6, <1>7, <1>8, <1>9, <1>10, <1>11, <1>12, <1>13, <1>14 DEF CmdprocStep
  <2>2. ASSUME NEW t \in Workers, WorkerStep(t) PROVE OneWaker'
    BY <2>2, <1>16, <1>17, <1>19, <1>20 DEF WorkerStep
  <2>3. ASSUME NEW t \in Threads, FinishStep(t) PROVE OneWaker'
    BY <2>3, <1>22, <1>23, <1>24, <1>25 DEF FinishStep
  <2>4. CASE RemoverStep
    BY <2>4, <1>29, <1>30, <1>31, <1>33, <1>34, <1>35, <1>36, <1>26 DEF RemoverStep
  <2>5. QED
    BY <2>1, <2>2, <2>3, <2>4, <1>38, <1>1, <1>2, <1>15, <1>18, <1>21, <1>27, <1>28, <1>32, <1>37 DEF Next

\* No step leaves an unread response without a thread that will kick.
LEMMA CompletionStep ==
    TypeOK /\ StopInv /\ OneWaker /\ NoLostCompletion /\ [Next]_vars => NoLostCompletion'
<1> SUFFICES ASSUME TypeOK, StopInv, OneWaker, NoLostCompletion, [Next]_vars
             PROVE NoLostCompletion'
  OBVIOUS
<1> USE DEF Threads, Waker, SomeoneWillKick, CmdprocWillKick
<1>1. ASSUME NEW c \in Cmds, KernelQueue(c) PROVE NoLostCompletion'
  BY <1>1 DEF KernelQueue, aioVars, procVars, thrVars, rmVars, NoLostCompletion, TypeOK
<1>2. ASSUME NEW c \in Cmds, KernelExpire(c) PROVE NoLostCompletion'
  BY <1>2 DEF KernelExpire, aioVars, procVars, thrVars, rmVars, NoLostCompletion, TypeOK
<1>3. CASE CpStart
  BY <1>3 DEF CpStart, cmdVars, aioVars, thrVars, rmVars, NoLostCompletion, TypeOK
<1>4. CASE CpFetch
  BY <1>4 DEF CpFetch, aioVars, thrVars, rmVars, NoLostCompletion, TypeOK
<1>5. CASE CpFetchNone
  BY <1>5 DEF CpFetchNone, cmdVars, aioVars, thrVars, rmVars, NoLostCompletion, TypeOK
<1>6. CASE CpHandleSync
  BY <1>6 DEF CpHandleSync, cmdVars, aioVars, thrVars, rmVars, NoLostCompletion, TypeOK
<1>7. CASE CpTrackStart
  BY <1>7 DEF CpTrackStart, thrVars, rmVars, NoLostCompletion, TypeOK
<1>8. CASE CpRefuse
  BY <1>8 DEF CpRefuse, cmdVars, aioVars, thrVars, rmVars, NoLostCompletion, TypeOK
<1>9. CASE CpSchedule
  BY <1>9 DEF CpSchedule, aioVars, rmVars, NoLostCompletion, TypeOK
<1>10. CASE CpSubmit
  BY <1>10 DEF CpSubmit, aioVars, thrVars, rmVars, NoLostCompletion, TypeOK
<1>11. CASE CpUntrack
  BY <1>11 DEF CpUntrack, TrackFinish, thrVars, NoLostCompletion, TypeOK
<1>12. CASE CpComplete
  BY <1>12 DEF CpComplete, aioVars, thrVars, rmVars, NoLostCompletion, TypeOK
<1>13. CASE CpKick
  BY <1>13 DEF CpKick, ProcessingComplete, aioVars, thrVars, rmVars, NoLostCompletion, TypeOK
<1>14. CASE CpPoll
  BY <1>14 DEF CpPoll, cmdVars, aioVars, thrVars, rmVars, NoLostCompletion, TypeOK
<1>15. CASE CpPollError
  BY <1>15 DEF CpPollError, cmdVars, aioVars, thrVars, rmVars, NoLostCompletion, TypeOK
<1>16. ASSUME NEW t \in Workers, WorkerTake(t) PROVE NoLostCompletion'
  BY <1>16 DEF WorkerTake, aioVars, procVars, rmVars, NoLostCompletion, TypeOK
<1>17. ASSUME NEW t \in Workers, WorkerWait(t) PROVE NoLostCompletion'
  BY <1>17 DEF WorkerWait, cmdVars, aioVars, procVars, rmVars, NoLostCompletion, TypeOK
<1>18. ASSUME NEW t \in Workers, WorkerSpurious(t) PROVE NoLostCompletion'
  BY <1>18 DEF WorkerSpurious, cmdVars, aioVars, procVars, rmVars, NoLostCompletion, TypeOK
<1>19. ASSUME NEW t \in Workers, WorkerDone(t) PROVE NoLostCompletion'
  BY <1>19 DEF WorkerDone, aioVars, procVars, rmVars, NoLostCompletion, TypeOK
<1>20. ASSUME NEW t \in Workers, WorkerSubmit(t) PROVE NoLostCompletion'
  BY <1>20 DEF WorkerSubmit, aioVars, procVars, rmVars, NoLostCompletion, TypeOK
<1>21. ASSUME NEW t \in Callbacks, NEW c \in Cmds, CallbackDone(t, c) PROVE NoLostCompletion'
  BY <1>21 DEF CallbackDone, aioVars, procVars, rmVars, NoLostCompletion, TypeOK
<1>22. ASSUME NEW t \in Threads, FinishComplete(t) PROVE NoLostCompletion'
  BY <1>22 DEF FinishComplete, aioVars, procVars, rmVars, NoLostCompletion, TypeOK
<1>23. ASSUME NEW t \in Threads, FinishTrack(t) PROVE NoLostCompletion'
  <2> SUFFICES ASSUME ~stopping PROVE SomeoneWillKick'
    BY <1>23 DEF FinishTrack, TrackFinish, NoLostCompletion
  <2>1. dead = {} /\ dead' = {}
    BY <1>23 DEF FinishTrack, StopInv
  <2>2. CASE pending = 0
    <3>1. pc'[t] = "kick"
      BY <1>23, <2>2 DEF FinishTrack, TypeOK
    <3>2. QED
      BY <2>1, <3>1
  <2>3. CASE pending # 0
    <3>1. PICK u \in Threads : pc[u] \in {"kick", "wakefin"}
      BY <2>3 DEF OneWaker, TypeOK
    <3>2. pc'[u] = pc[u] /\ pending' > 1
      BY <1>23, <2>3, <3>1 DEF FinishTrack, TypeOK
    <3>3. QED
      BY <2>1, <3>1, <3>2
  <2>4. QED
    BY <2>2, <2>3
<1>24. ASSUME NEW t \in Threads, FinishKick(t) PROVE NoLostCompletion'
  BY <1>24 DEF FinishKick, ProcessingComplete, aioVars, procVars, rmVars, NoLostCompletion, TypeOK
<1>25. ASSUME NEW t \in Threads, FinishWakeup(t) PROVE NoLostCompletion'
  BY <1>25 DEF FinishWakeup, cmdVars, procVars, rmVars, NoLostCompletion, TypeOK
<1>26. ASSUME NEW t \in Workers, RmCancelWorker(t) PROVE NoLostCompletion'
  BY <1>26 DEF RmCancelWorker, rmVars, StopInv, NoLostCompletion
<1>27. CASE RemoveByNetlink
  BY <1>27 DEF RemoveByNetlink, cmdVars, aioVars, procVars, thrVars, NoLostCompletion, TypeOK
<1>28. CASE RemoveByShutdown
  BY <1>28 DEF RemoveByShutdown, cmdVars, aioVars, procVars, thrVars, NoLostCompletion, TypeOK
<1>29. CASE RmFlush
  BY <1>29 DEF RmFlush, cmdVars, aioVars, procVars, thrVars, NoLostCompletion, TypeOK
<1>30. CASE RmWorkersGone
  BY <1>30 DEF RmWorkersGone, cmdVars, aioVars, procVars, thrVars, NoLostCompletion, TypeOK
<1>31. CASE RmWaitEmpty
  BY <1>31 DEF RmWaitEmpty, cmdVars, procVars, thrVars, NoLostCompletion, TypeOK
<1>32. CASE RmSpurious
  BY <1>32 DEF RmSpurious, cmdVars, aioVars, procVars, thrVars, NoLostCompletion, TypeOK
<1>33. CASE RmWoken
  BY <1>33 DEF RmWoken, cmdVars, procVars, thrVars, NoLostCompletion, TypeOK
<1>34. CASE RmCancelCmdproc
  BY <1>34 DEF RmCancelCmdproc, StopInv, NoLostCompletion
<1>35. CASE RmStopDevice
  BY <1>35 DEF RmStopDevice, cmdVars, aioVars, procVars, thrVars, NoLostCompletion, TypeOK
<1>36. CASE RmCleanup
  BY <1>36 DEF RmCleanup, cmdVars, aioVars, procVars, thrVars, NoLostCompletion, TypeOK
<1>37. CASE Terminated
  BY <1>37 DEF Terminated, vars, NoLostCompletion, TypeOK
<1>38. CASE UNCHANGED vars
  BY <1>38 DEF vars, NoLostCompletion, TypeOK
<1>39. QED
  <2>1. CASE CmdprocStep
    BY <2>1, <1>3, <1>4, <1>5, <1>6, <1>7, <1>8, <1>9, <1>10, <1>11, <1>12, <1>13, <1>14 DEF CmdprocStep
  <2>2. ASSUME NEW t \in Workers, WorkerStep(t) PROVE NoLostCompletion'
    BY <2>2, <1>16, <1>17, <1>19, <1>20 DEF WorkerStep
  <2>3. ASSUME NEW t \in Threads, FinishStep(t) PROVE NoLostCompletion'
    BY <2>3, <1>22, <1>23, <1>24, <1>25 DEF FinishStep
  <2>4. CASE RemoverStep
    BY <2>4, <1>29, <1>30, <1>31, <1>33, <1>34, <1>35, <1>36, <1>26 DEF RemoverStep
  <2>5. QED
    BY <2>1, <2>2, <2>3, <2>4, <1>38, <1>1, <1>2, <1>15, <1>18, <1>21, <1>27, <1>28, <1>32, <1>37 DEF Next

\* For every number of workers and library threads, every fault and both ways
\* of removal: until the device is torn down, a response the kernel has not
\* read has a thread that will still write to the uio fd, and pending_wakeups
\* is positive just when one thread, and only one, is in the wakeup loop.
THEOREM NoCompletionLost == Spec => []WakeupsExact
<1>1. Init => WakeInv
  BY DEF Init, WakeInv, StopInv, OneWaker, NoLostCompletion, Waker, Threads
<1>2. TypeOK /\ WakeInv /\ [Next]_vars => WakeInv'
  BY StopStep, WakerStep, CompletionStep DEF WakeInv
<1>3. WakeInv => WakeupsExact
  BY DEF WakeInv, WakeupsExact
<1>4. QED
  BY <1>1, <1>2, <1>3, TypeCorrect, PTL DEF Spec

-----------------------------------------------------------------------------
(* Sleeping threads: no work item and no uio event is missed.              *)

\* No step puts the last awake worker to sleep on a queue with work.
LEMMA StrandedStep ==
    TypeOK /\ StopInv /\ QueueNotStranded /\ [Next]_vars => QueueNotStranded'
<1> SUFFICES ASSUME TypeOK, StopInv, QueueNotStranded, [Next]_vars
             PROVE QueueNotStranded'
  OBVIOUS
<1> USE DEF Threads, StopInv
<1>1. ASSUME NEW c \in Cmds, KernelQueue(c) PROVE QueueNotStranded'
  BY <1>1 DEF KernelQueue, aioVars, procVars, thrVars, rmVars, QueueNotStranded, TypeOK
<1>2. ASSUME NEW c \in Cmds, KernelExpire(c) PROVE QueueNotStranded'
  BY <1>2 DEF KernelExpire, aioVars, procVars, thrVars, rmVars, QueueNotStranded, TypeOK
<1>3. CASE CpStart
  BY <1>3 DEF CpStart, cmdVars, aioVars, thrVars, rmVars, QueueNotStranded, TypeOK
<1>4. CASE CpFetch
  BY <1>4 DEF CpFetch, aioVars, thrVars, rmVars, QueueNotStranded, TypeOK
<1>5. CASE CpFetchNone
  BY <1>5 DEF CpFetchNone, cmdVars, aioVars, thrVars, rmVars, QueueNotStranded, TypeOK
<1>6. CASE CpHandleSync
  BY <1>6 DEF CpHandleSync, cmdVars, aioVars, thrVars, rmVars, QueueNotStranded, TypeOK
<1>7. CASE CpTrackStart
  BY <1>7 DEF CpTrackStart, thrVars, rmVars, QueueNotStranded, TypeOK
<1>8. CASE CpRefuse
  BY <1>8 DEF CpRefuse, cmdVars, aioVars, thrVars, rmVars, QueueNotStranded, TypeOK
<1>9. CASE CpSchedule
  BY <1>9 DEF CpSchedule, aioVars, rmVars, QueueNotStranded, TypeOK
<1>10. CASE CpSubmit
  BY <1>10 DEF CpSubmit, aioVars, thrVars, rmVars, QueueNotStranded, TypeOK
<1>11. CASE CpUntrack
  BY <1>11 DEF CpUntrack, TrackFinish, thrVars, QueueNotStranded, TypeOK
<1>12. CASE CpComplete
  BY <1>12 DEF CpComplete, aioVars, thrVars, rmVars, QueueNotStranded, TypeOK
<1>13. CASE CpKick
  BY <1>13 DEF CpKick, ProcessingComplete, aioVars, thrVars, rmVars, QueueNotStranded, TypeOK
<1>14. CASE CpPoll
  BY <1>14 DEF CpPoll, cmdVars, aioVars, thrVars, rmVars, QueueNotStranded, TypeOK
<1>15. CASE CpPollError
  BY <1>15 DEF CpPollError, cmdVars, aioVars, thrVars, rmVars, QueueNotStranded, TypeOK
<1>16. ASSUME NEW t \in Workers, WorkerTake(t) PROVE QueueNotStranded'
  BY <1>16 DEF WorkerTake, aioVars, procVars, rmVars, QueueNotStranded, TypeOK
<1>17. ASSUME NEW t \in Workers, WorkerWait(t) PROVE QueueNotStranded'
  BY <1>17 DEF WorkerWait, cmdVars, aioVars, procVars, rmVars, QueueNotStranded, TypeOK
<1>18. ASSUME NEW t \in Workers, WorkerSpurious(t) PROVE QueueNotStranded'
  BY <1>18 DEF WorkerSpurious, cmdVars, aioVars, procVars, rmVars, QueueNotStranded, TypeOK
<1>19. ASSUME NEW t \in Workers, WorkerDone(t) PROVE QueueNotStranded'
  BY <1>19 DEF WorkerDone, aioVars, procVars, rmVars, QueueNotStranded, TypeOK
<1>20. ASSUME NEW t \in Workers, WorkerSubmit(t) PROVE QueueNotStranded'
  BY <1>20 DEF WorkerSubmit, aioVars, procVars, rmVars, QueueNotStranded, TypeOK
<1>21. ASSUME NEW t \in Callbacks, NEW c \in Cmds, CallbackDone(t, c) PROVE QueueNotStranded'
  BY <1>21 DEF CallbackDone, aioVars, procVars, rmVars, QueueNotStranded, TypeOK
<1>22. ASSUME NEW t \in Threads, FinishComplete(t) PROVE QueueNotStranded'
  BY <1>22 DEF FinishComplete, aioVars, procVars, rmVars, QueueNotStranded, TypeOK
<1>23. ASSUME NEW t \in Threads, FinishTrack(t) PROVE QueueNotStranded'
  BY <1>23 DEF FinishTrack, TrackFinish, cmdVars, procVars, QueueNotStranded, TypeOK
<1>24. ASSUME NEW t \in Threads, FinishKick(t) PROVE QueueNotStranded'
  BY <1>24 DEF FinishKick, ProcessingComplete, aioVars, procVars, rmVars, QueueNotStranded, TypeOK
<1>25. ASSUME NEW t \in Threads, FinishWakeup(t) PROVE QueueNotStranded'
  BY <1>25 DEF FinishWakeup, cmdVars, procVars, rmVars, QueueNotStranded, TypeOK
<1>26. ASSUME NEW t \in Workers, RmCancelWorker(t) PROVE QueueNotStranded'
  BY <1>26 DEF RmCancelWorker, cmdVars, aioVars, procVars, rmVars, QueueNotStranded, TypeOK
<1>27. CASE RemoveByNetlink
  BY <1>27 DEF RemoveByNetlink, cmdVars, aioVars, procVars, thrVars, QueueNotStranded, TypeOK
<1>28. CASE RemoveByShutdown
  BY <1>28 DEF RemoveByShutdown, cmdVars, aioVars, procVars, thrVars, QueueNotStranded, TypeOK
<1>29. CASE RmFlush
  BY <1>29 DEF RmFlush, cmdVars, aioVars, procVars, thrVars, QueueNotStranded, TypeOK
<1>30. CASE RmWorkersGone
  BY <1>30 DEF RmWorkersGone, cmdVars, aioVars, procVars, thrVars, QueueNotStranded, TypeOK
<1>31. CASE RmWaitEmpty
  BY <1>31 DEF RmWaitEmpty, cmdVars, procVars, thrVars, QueueNotStranded, TypeOK
<1>32. CASE RmSpurious
  BY <1>32 DEF RmSpurious, cmdVars, aioVars, procVars, thrVars, QueueNotStranded, TypeOK
<1>33. CASE RmWoken
  BY <1>33 DEF RmWoken, cmdVars, procVars, thrVars, QueueNotStranded, TypeOK
<1>34. CASE RmCancelCmdproc
  BY <1>34 DEF RmCancelCmdproc, cmdVars, aioVars, thrVars, QueueNotStranded, TypeOK
<1>35. CASE RmStopDevice
  BY <1>35 DEF RmStopDevice, cmdVars, aioVars, procVars, thrVars, QueueNotStranded, TypeOK
<1>36. CASE RmCleanup
  BY <1>36 DEF RmCleanup, cmdVars, aioVars, procVars, thrVars, QueueNotStranded, TypeOK
<1>37. CASE Terminated
  BY <1>37 DEF Terminated, vars, QueueNotStranded, TypeOK
<1>38. CASE UNCHANGED vars
  BY <1>38 DEF vars, QueueNotStranded, TypeOK
<1>39. QED
  <2>1. CASE CmdprocStep
    BY <2>1, <1>3, <1>4, <1>5, <1>6, <1>7, <1>8, <1>9, <1>10, <1>11, <1>12, <1>13, <1>14 DEF CmdprocStep
  <2>2. ASSUME NEW t \in Workers, WorkerStep(t) PROVE QueueNotStranded'
    BY <2>2, <1>16, <1>17, <1>19, <1>20 DEF WorkerStep
  <2>3. ASSUME NEW t \in Threads, FinishStep(t) PROVE QueueNotStranded'
    BY <2>3, <1>22, <1>23, <1>24, <1>25 DEF FinishStep
  <2>4. CASE RemoverStep
    BY <2>4, <1>29, <1>30, <1>31, <1>33, <1>34, <1>35, <1>36, <1>26 DEF RemoverStep
  <2>5. QED
    BY <2>1, <2>2, <2>3, <2>4, <1>38, <1>1, <1>2, <1>15, <1>18, <1>21, <1>27, <1>28, <1>32, <1>37 DEF Next

\* For every number of workers, with spurious wakeups: a command on the io
\* queue of a device that is not being torn down has a worker that is awake.
THEOREM NoWorkStranded == Spec => []QueueNotStranded
<1>1. Init => StopInv /\ QueueNotStranded
  BY DEF Init, StopInv, QueueNotStranded
<1>2. QED
  BY <1>1, StopStep, StrandedStep, TypeCorrect, PTL DEF Spec

\* No step lets the command processor sleep on unfetched commands, unless the
\* allocation of a command failed.
LEMMA EventStep ==
    ASSUME "nomem" \notin Faults
    PROVE  TypeOK /\ EventNotLost /\ [Next]_vars => EventNotLost'
<1> SUFFICES ASSUME TypeOK, EventNotLost, [Next]_vars PROVE EventNotLost'
  OBVIOUS
<1>1. ASSUME NEW c \in Cmds, KernelQueue(c) PROVE EventNotLost'
  BY <1>1 DEF KernelQueue, aioVars, procVars, thrVars, rmVars, EventNotLost, TypeOK
<1>2. ASSUME NEW c \in Cmds, KernelExpire(c) PROVE EventNotLost'
  BY <1>2 DEF KernelExpire, aioVars, procVars, thrVars, rmVars, EventNotLost, TypeOK
<1>3. CASE CpStart
  BY <1>3 DEF CpStart, cmdVars, aioVars, thrVars, rmVars, EventNotLost, TypeOK
<1>4. CASE CpFetch
  BY <1>4 DEF CpFetch, aioVars, thrVars, rmVars, EventNotLost, TypeOK
<1>5. CASE CpFetchNone
  BY <1>5 DEF CpFetchNone, cmdVars, aioVars, thrVars, rmVars, EventNotLost, TypeOK
<1>6. CASE CpHandleSync
  BY <1>6 DEF CpHandleSync, cmdVars, aioVars, thrVars, rmVars, EventNotLost, TypeOK
<1>7. CASE CpTrackStart
  BY <1>7 DEF CpTrackStart, thrVars, rmVars, EventNotLost, TypeOK
<1>8. CASE CpRefuse
  BY <1>8 DEF CpRefuse, cmdVars, aioVars, thrVars, rmVars, EventNotLost, TypeOK
<1>9. CASE CpSchedule
  BY <1>9 DEF CpSchedule, aioVars, rmVars, EventNotLost, TypeOK
<1>10. CASE CpSubmit
  BY <1>10 DEF CpSubmit, aioVars, thrVars, rmVars, EventNotLost, TypeOK
<1>11. CASE CpUntrack
  BY <1>11 DEF CpUntrack, TrackFinish, thrVars, EventNotLost, TypeOK
<1>12. CASE CpComplete
  BY <1>12 DEF CpComplete, aioVars, thrVars, rmVars, EventNotLost, TypeOK
<1>13. CASE CpKick
  BY <1>13 DEF CpKick, ProcessingComplete, aioVars, thrVars, rmVars, EventNotLost, TypeOK
<1>14. CASE CpPoll
  BY <1>14 DEF CpPoll, cmdVars, aioVars, thrVars, rmVars, EventNotLost, TypeOK
<1>15. CASE CpPollError
  BY <1>15 DEF CpPollError, cmdVars, aioVars, thrVars, rmVars, EventNotLost, TypeOK
<1>16. ASSUME NEW t \in Workers, WorkerTake(t) PROVE EventNotLost'
  BY <1>16 DEF WorkerTake, aioVars, procVars, rmVars, EventNotLost, TypeOK
<1>17. ASSUME NEW t \in Workers, WorkerWait(t) PROVE EventNotLost'
  BY <1>17 DEF WorkerWait, cmdVars, aioVars, procVars, rmVars, EventNotLost, TypeOK
<1>18. ASSUME NEW t \in Workers, WorkerSpurious(t) PROVE EventNotLost'
  BY <1>18 DEF WorkerSpurious, cmdVars, aioVars, procVars, rmVars, EventNotLost, TypeOK
<1>19. ASSUME NEW t \in Workers, WorkerDone(t) PROVE EventNotLost'
  BY <1>19 DEF WorkerDone, aioVars, procVars, rmVars, EventNotLost, TypeOK
<1>20. ASSUME NEW t \in Workers, WorkerSubmit(t) PROVE EventNotLost'
  BY <1>20 DEF WorkerSubmit, aioVars, procVars, rmVars, EventNotLost, TypeOK
<1>21. ASSUME NEW t \in Callbacks, NEW c \in Cmds, CallbackDone(t, c) PROVE EventNotLost'
  BY <1>21 DEF CallbackDone, aioVars, procVars, rmVars, EventNotLost, TypeOK
<1>22. ASSUME NEW t \in Threads, FinishComplete(t) PROVE EventNotLost'
  BY <1>22 DEF FinishComplete, aioVars, procVars, rmVars, EventNotLost, TypeOK
<1>23. ASSUME NEW t \in Threads, FinishTrack(t) PROVE EventNotLost'
  BY <1>23 DEF FinishTrack, TrackFinish, cmdVars, procVars, EventNotLost, TypeOK
<1>24. ASSUME NEW t \in Threads, FinishKick(t) PROVE EventNotLost'
  BY <1>24 DEF FinishKick, ProcessingComplete, aioVars, procVars, rmVars, EventNotLost, TypeOK
<1>25. ASSUME NEW t \in Threads, FinishWakeup(t) PROVE EventNotLost'
  BY <1>25 DEF FinishWakeup, cmdVars, procVars, rmVars, EventNotLost, TypeOK
<1>26. ASSUME NEW t \in Workers, RmCancelWorker(t) PROVE EventNotLost'
  BY <1>26 DEF RmCancelWorker, cmdVars, aioVars, procVars, rmVars, EventNotLost, TypeOK
<1>27. CASE RemoveByNetlink
  BY <1>27 DEF RemoveByNetlink, cmdVars, aioVars, procVars, thrVars, EventNotLost, TypeOK
<1>28. CASE RemoveByShutdown
  BY <1>28 DEF RemoveByShutdown, cmdVars, aioVars, procVars, thrVars, EventNotLost, TypeOK
<1>29. CASE RmFlush
  BY <1>29 DEF RmFlush, cmdVars, aioVars, procVars, thrVars, EventNotLost, TypeOK
<1>30. CASE RmWorkersGone
  BY <1>30 DEF RmWorkersGone, cmdVars, aioVars, procVars, thrVars, EventNotLost, TypeOK
<1>31. CASE RmWaitEmpty
  BY <1>31 DEF RmWaitEmpty, cmdVars, procVars, thrVars, EventNotLost, TypeOK
<1>32. CASE RmSpurious
  BY <1>32 DEF RmSpurious, cmdVars, aioVars, procVars, thrVars, EventNotLost, TypeOK
<1>33. CASE RmWoken
  BY <1>33 DEF RmWoken, cmdVars, procVars, thrVars, EventNotLost, TypeOK
<1>34. CASE RmCancelCmdproc
  BY <1>34 DEF RmCancelCmdproc, cmdVars, aioVars, thrVars, EventNotLost, TypeOK
<1>35. CASE RmStopDevice
  BY <1>35 DEF RmStopDevice, cmdVars, aioVars, procVars, thrVars, EventNotLost, TypeOK
<1>36. CASE RmCleanup
  BY <1>36 DEF RmCleanup, cmdVars, aioVars, procVars, thrVars, EventNotLost, TypeOK
<1>37. CASE Terminated
  BY <1>37 DEF Terminated, vars, EventNotLost, TypeOK
<1>38. CASE UNCHANGED vars
  BY <1>38 DEF vars, EventNotLost, TypeOK
<1>39. QED
  <2>1. CASE CmdprocStep
    BY <2>1, <1>3, <1>4, <1>5, <1>6, <1>7, <1>8, <1>9, <1>10, <1>11, <1>12, <1>13, <1>14 DEF CmdprocStep
  <2>2. ASSUME NEW t \in Workers, WorkerStep(t) PROVE EventNotLost'
    BY <2>2, <1>16, <1>17, <1>19, <1>20 DEF WorkerStep
  <2>3. ASSUME NEW t \in Threads, FinishStep(t) PROVE EventNotLost'
    BY <2>3, <1>22, <1>23, <1>24, <1>25 DEF FinishStep
  <2>4. CASE RemoverStep
    BY <2>4, <1>29, <1>30, <1>31, <1>33, <1>34, <1>35, <1>36, <1>26 DEF RemoverStep
  <2>5. QED
    BY <2>1, <2>2, <2>3, <2>4, <1>38, <1>1, <1>2, <1>15, <1>18, <1>21, <1>27, <1>28, <1>32, <1>37 DEF Next

\* tcmulib_processing_start clears the event before the ring is read: when no
\* allocation fails, a command processor about to sleep in ppoll() with
\* commands on the ring finds the uio fd readable.
THEOREM NoEventLost ==
    ASSUME "nomem" \notin Faults
    PROVE  Spec => []EventNotLost
<1>1. Init => EventNotLost
  BY DEF Init, EventNotLost
<1>2. QED
  BY <1>1, EventStep, TypeCorrect, PTL DEF Spec

-----------------------------------------------------------------------------
(* Every command has one owner.                                            *)

\* A queue s holds the commands whose state in f is v, each of them once: so it
\* is with the ring and with the io queue.
HoldsOnce(s, f, v) ==
    /\ \A i, j \in DOMAIN s : s[i] = s[j] => i = j
    /\ \A i \in DOMAIN s : f[s[i]] = v
    /\ \A c \in Cmds : f[c] = v => \E i \in DOMAIN s : s[i] = c
RingOwned  == HoldsOnce(ring, st, "ring")
QueueOwned == HoldsOnce(queue, st, "queued")

\* A thread holds a command while it executes or completes it, and then only.
JobOwned ==
    /\ \A t, u \in Threads : job[t] = job[u] /\ job[t] # None => t = u
    /\ \A t \in Threads :
         /\ pc[t] = "work" => job[t] \in Cmds /\ st[job[t]] = "work"
         /\ pc[t] = "complete" => job[t] \in Cmds /\ st[job[t]] = "done"
         /\ pc[t] \notin {"work", "complete"} => job[t] = None
    /\ \A c \in Cmds : st[c] \in {"work", "done"} => \E t \in Threads : job[t] = c

\* The command processor holds one command from the fetch to its end, also
\* when it is cancelled in the middle.
CjobOwned ==
    /\ cpc \in {"handle", "complete"} => cjob \in Cmds /\ st[cjob] = "cmdproc"
    /\ cpc \in {"tracked", "untrack"} => cjob \in Cmds /\ st[cjob] = "tracked"
    /\ cpc \in {"start", "fetch", "kick", "poll"} => cjob = None
    /\ cpc = "exited" => cjob = None \/ (cjob \in Cmds /\ st[cjob] = "cmdproc")
    /\ \A c \in Cmds : st[c] \in {"cmdproc", "tracked"} => cjob = c

TrackedStates == {"tracked", "queued", "work", "inflight", "done"}
TrackedCmds == {c \in Cmds : st[c] \in TrackedStates}
Finishing   == {t \in Threads : pc[t] = "finish"}
Counted == tracked = Cardinality(TrackedCmds) + Cardinality(Finishing)

OwnInv == RingOwned /\ QueueOwned /\ JobOwned /\ CjobOwned /\ Counted

\* The counted sets are finite.
LEMMA CountedFinite ==
  /\ IsFiniteSet(TrackedCmds) /\ IsFiniteSet(Finishing)
  /\ Cardinality(TrackedCmds) \in Nat /\ Cardinality(Finishing) \in Nat
BY ConstantsAssumption, FS_Subset, FS_CardinalityType DEF TrackedCmds, Finishing

\* Steps that hand no command from one owner to another.
LEMMA OwnKept ==
  ASSUME TypeOK, OwnInv, UNCHANGED <<ring, queue, job, cjob, tracked>>,
         \A c \in Cmds : st'[c] = st[c] \/ (st[c] = "rsp" /\ st'[c] = "free"),
         \A t \in Threads : \/ pc'[t] = pc[t]
                            \/ /\ pc[t] \notin {"work", "complete", "finish"}
                               /\ pc'[t] \notin {"work", "complete", "finish"},
         \/ cpc' = cpc
         \/ cpc \in {"start", "fetch", "kick", "poll"} /\ cpc' \in {"start", "fetch", "kick", "poll", "exited"}
         \/ cpc = "handle" /\ cpc' \in {"complete", "exited"}
         \/ cpc = "tracked" /\ cpc' = "untrack"
  PROVE  OwnInv'
<1>1. ring \in Seq(Cmds) /\ queue \in Seq(Cmds)
  BY DEF TypeOK
<1>2. \A i \in DOMAIN ring : ring[i] \in Cmds
  BY <1>1
<1>3. \A i \in DOMAIN queue : queue[i] \in Cmds
  BY <1>1
<1>4. RingOwned' /\ QueueOwned'
  BY <1>2, <1>3 DEF OwnInv, RingOwned, QueueOwned, HoldsOnce
<1>5. JobOwned'
  BY DEF OwnInv, JobOwned
<1>6. CjobOwned'
  BY DEF OwnInv, CjobOwned
<1>7. TrackedCmds' = TrackedCmds /\ Finishing' = Finishing
  BY DEF TrackedCmds, TrackedStates, Finishing
<1>8. Counted'
  BY <1>7 DEF OwnInv, Counted
<1>9. QED
  BY <1>4, <1>5, <1>6, <1>8 DEF OwnInv

\* A command whose state is not v joins the end of the queue.
LEMMA HoldsAppend ==
  ASSUME NEW s \in Seq(Cmds), NEW f \in [Cmds -> CmdStates], NEW v \in CmdStates,
         HoldsOnce(s, f, v), NEW c \in Cmds, f[c] # v
  PROVE  HoldsOnce(Append(s, c), [f EXCEPT ![c] = v], v)
<1> DEFINE q == Append(s, c)
           g == [f EXCEPT ![c] = v]
<1>1. /\ DOMAIN s = 1 .. Len(s) /\ Len(s) \in Nat
      /\ DOMAIN q = 1 .. (Len(s) + 1) /\ q[Len(s) + 1] = c
  OBVIOUS
<1>2. \A i \in DOMAIN s : q[i] = s[i] /\ s[i] \in Cmds /\ s[i] # c
  BY DEF HoldsOnce
<1>3. \A d \in Cmds : g[d] = IF d = c THEN v ELSE f[d]
  OBVIOUS
<1> HIDE DEF q, g
<1>4. \A i, j \in DOMAIN q : q[i] = q[j] => i = j
  BY <1>1, <1>2 DEF HoldsOnce
<1>5. \A i \in DOMAIN q : g[q[i]] = v
  BY <1>1, <1>2, <1>3 DEF HoldsOnce
<1>6. ASSUME NEW d \in Cmds, g[d] = v PROVE \E i \in DOMAIN q : q[i] = d
  <2>1. CASE d = c
    BY <2>1, <1>1
  <2>2. CASE d # c
    <3>1. PICK i \in DOMAIN s : s[i] = d
      BY <2>2, <1>6, <1>3 DEF HoldsOnce
    <3>2. i \in DOMAIN q /\ q[i] = d
      BY <3>1, <1>1, <1>2
    <3>3. QED
      BY <3>2
  <2>3. QED
    BY <2>1, <2>2
<1>7. HoldsOnce(q, g, v)
  BY <1>4, <1>5, <1>6 DEF HoldsOnce
<1>8. QED
  BY <1>7 DEF q, g

\* The command at the head of the queue leaves it.
LEMMA HoldsTail ==
  ASSUME NEW s \in Seq(Cmds), NEW f \in [Cmds -> CmdStates], NEW v \in CmdStates,
         HoldsOnce(s, f, v), s # <<>>, NEW w \in CmdStates, w # v
  PROVE  HoldsOnce(Tail(s), [f EXCEPT ![Head(s)] = w], v)
<1> DEFINE q == Tail(s)
           c == Head(s)
           g == [f EXCEPT ![Head(s)] = w]
<1>1. /\ DOMAIN s = 1 .. Len(s) /\ Len(s) \in Nat \ {0}
      /\ DOMAIN q = 1 .. (Len(s) - 1) /\ s[1] = c /\ c \in Cmds
  OBVIOUS
<1>2. \A i \in DOMAIN q : q[i] = s[i + 1] /\ s[i + 1] \in Cmds
  OBVIOUS
<1>3. \A d \in Cmds : g[d] = IF d = c THEN w ELSE f[d]
  OBVIOUS
<1> HIDE DEF q, g, c
<1>4. \A i, j \in DOMAIN q : q[i] = q[j] => i = j
  <2> SUFFICES ASSUME NEW i \in DOMAIN q, NEW j \in DOMAIN q, q[i] = q[j] PROVE i = j
    OBVIOUS
  <2>1. i + 1 \in DOMAIN s /\ j + 1 \in DOMAIN s /\ s[i + 1] = s[j + 1]
    BY <1>1, <1>2
  <2>2. i + 1 = j + 1
    BY <2>1 DEF HoldsOnce
  <2>3. QED
    BY <2>2, <1>1
<1>5. ASSUME NEW i \in DOMAIN q PROVE g[q[i]] = v
  <2>1. i + 1 \in DOMAIN s /\ 1 \in DOMAIN s /\ i + 1 # 1
    BY <1>1
  <2>2. s[i + 1] # c
    BY <2>1, <1>1 DEF HoldsOnce
  <2>3. f[s[i + 1]] = v
    BY <2>1 DEF HoldsOnce
  <2>4. QED
    BY <2>2, <2>3, <1>2, <1>3
<1>6. ASSUME NEW d \in Cmds, g[d] = v PROVE \E i \in DOMAIN q : q[i] = d
  <2>1. d # c /\ f[d] = v
    BY <1>6, <1>3
  <2>2. PICK i \in DOMAIN s : s[i] = d
    BY <2>1 DEF HoldsOnce
  <2>3. i # 1 /\ i \in Nat /\ i - 1 \in DOMAIN q
    BY <2>1, <2>2, <1>1
  <2>4. q[i - 1] = s[(i - 1) + 1] /\ (i - 1) + 1 = i
    BY <2>3, <1>2, <1>1
  <2>5. QED
    BY <2>2, <2>3, <2>4
<1>7. HoldsOnce(q, g, v)
  BY <1>4, <1>5, <1>6 DEF HoldsOnce
<1>8. QED
  BY <1>7 DEF q, g

\* A command that neither is nor comes on the queue changes its state.
LEMMA HoldsOther ==
  ASSUME NEW s \in Seq(Cmds), NEW f \in [Cmds -> CmdStates], NEW v \in CmdStates,
         HoldsOnce(s, f, v), NEW c \in Cmds, f[c] # v, NEW w \in CmdStates, w # v
  PROVE  HoldsOnce(s, [f EXCEPT ![c] = w], v)
<1>1. \A i \in DOMAIN s : s[i] \in Cmds
  OBVIOUS
<1>2. QED
  BY <1>1 DEF HoldsOnce

\* How a change of one command's state changes the set that is counted.
LEMMA TrackedAfter ==
  ASSUME TypeOK, NEW c \in Cmds, NEW w \in CmdStates, st' = [st EXCEPT ![c] = w]
  PROVE  TrackedCmds' = IF w \in TrackedStates THEN TrackedCmds \cup {c} ELSE TrackedCmds \ {c}
BY DEF TypeOK, TrackedCmds

\* The count is kept when neither set that is counted changes.
LEMMA CountKept ==
  ASSUME OwnInv, tracked' = tracked, TrackedCmds' = TrackedCmds, Finishing' = Finishing
  PROVE  Counted'
BY DEF OwnInv, Counted

\* track_aio_request_start: one more.
LEMMA CountMore ==
  ASSUME OwnInv, tracked' = tracked + 1, Finishing' = Finishing,
         NEW c \in Cmds, c \notin TrackedCmds, TrackedCmds' = TrackedCmds \cup {c}
  PROVE  Counted'
<1>1. Cardinality(TrackedCmds \cup {c}) = Cardinality(TrackedCmds) + 1
  BY CountedFinite, FS_AddElement
<1>2. QED
  BY <1>1, CountedFinite DEF OwnInv, Counted

\* track_aio_request_finish by the command processor: one less.
LEMMA CountLess ==
  ASSUME OwnInv, tracked' = tracked - 1, Finishing' = Finishing,
         NEW c \in TrackedCmds, TrackedCmds' = TrackedCmds \ {c}
  PROVE  Counted'
<1>1. Cardinality(TrackedCmds \ {c}) = Cardinality(TrackedCmds) - 1
  BY CountedFinite, FS_RemoveElement
<1>2. QED
  BY <1>1, CountedFinite DEF OwnInv, Counted

\* The answer is written before the finish: the count passes from the command
\* to the thread.
LEMMA CountPassed ==
  ASSUME OwnInv, tracked' = tracked,
         NEW c \in TrackedCmds, TrackedCmds' = TrackedCmds \ {c},
         NEW t \in Threads, t \notin Finishing, Finishing' = Finishing \cup {t}
  PROVE  Counted'
<1>1. Cardinality(TrackedCmds \ {c}) = Cardinality(TrackedCmds) - 1
  BY CountedFinite, FS_RemoveElement
<1>2. Cardinality(Finishing \cup {t}) = Cardinality(Finishing) + 1
  BY CountedFinite, FS_AddElement
<1>3. QED
  BY <1>1, <1>2, CountedFinite DEF OwnInv, Counted

\* track_aio_request_finish by a thread that has written the answer.
LEMMA CountDone ==
  ASSUME OwnInv, tracked' = tracked - 1, TrackedCmds' = TrackedCmds,
         NEW t \in Finishing, Finishing' = Finishing \ {t}
  PROVE  Counted'
<1>1. Cardinality(Finishing \ {t}) = Cardinality(Finishing) - 1
  BY CountedFinite, FS_RemoveElement
<1>2. QED
  BY <1>1, CountedFinite DEF OwnInv, Counted

\* The kernel puts a command on the ring.
LEMMA OwnKernelQueue ==
  ASSUME TypeOK, OwnInv, NEW c \in Cmds, KernelQueue(c)
  PROVE  OwnInv'
<1>1. c \in Cmds /\ st[c] = "free"
  BY DEF KernelQueue, TypeOK, OwnInv
<1>2. st' = [st EXCEPT ![c] = "ring"] /\ "ring" \in CmdStates /\ st \in [Cmds -> CmdStates]
  BY DEF KernelQueue, TypeOK, CmdStates
<1>3. ring \in Seq(Cmds) /\ queue \in Seq(Cmds) /\ "ring" \in CmdStates /\ "queued" \in CmdStates
  BY DEF TypeOK, CmdStates
<1>4. ring' = Append(ring, c)
  BY DEF KernelQueue, aioVars, procVars, thrVars, rmVars
<1>5. RingOwned'
  BY <1>1, <1>2, <1>3, <1>4, HoldsAppend DEF OwnInv, RingOwned
<1>6. queue' = queue
  BY DEF KernelQueue, aioVars, procVars, thrVars, rmVars
<1>7. QueueOwned'
  BY <1>1, <1>2, <1>3, <1>6, HoldsOther DEF OwnInv, QueueOwned
<1>8. JobOwned'
  BY <1>1, <1>2 DEF KernelQueue, aioVars, procVars, thrVars, rmVars, TypeOK, OwnInv, JobOwned, Threads
<1>9. CjobOwned'
  BY <1>1, <1>2, ConstantsAssumption DEF KernelQueue, aioVars, procVars, thrVars, rmVars, OwnInv, CjobOwned
<1>10. TrackedCmds' = TrackedCmds
  BY <1>1, <1>2, TrackedAfter DEF TrackedCmds, TrackedStates
<1>11. Finishing' = Finishing
  BY DEF KernelQueue, aioVars, procVars, thrVars, rmVars, TypeOK, Finishing
<1>12. Counted'
  BY <1>1, <1>10, <1>11, CountKept DEF KernelQueue, aioVars, procVars, thrVars, rmVars
<1>13. QED
  BY <1>5, <1>7, <1>8, <1>9, <1>12 DEF OwnInv

\* The command processor takes the oldest command off the ring.
LEMMA OwnCpFetch ==
  ASSUME TypeOK, OwnInv, CpFetch
  PROVE  OwnInv'
<1>1. Head(ring) \in Cmds /\ st[Head(ring)] = "ring"
  BY DEF CpFetch, TypeOK, OwnInv, RingOwned, HoldsOnce
<1>2. st' = [st EXCEPT ![Head(ring)] = "cmdproc"] /\ "cmdproc" \in CmdStates /\ st \in [Cmds -> CmdStates]
  BY DEF CpFetch, TypeOK, CmdStates
<1>3. ring \in Seq(Cmds) /\ queue \in Seq(Cmds) /\ "ring" \in CmdStates /\ "queued" \in CmdStates
  BY DEF TypeOK, CmdStates
<1>4. ring' = Tail(ring) /\ ring # <<>>
  BY DEF CpFetch, aioVars, thrVars, rmVars
<1>5. RingOwned'
  BY <1>1, <1>2, <1>3, <1>4, HoldsTail DEF OwnInv, RingOwned
<1>6. queue' = queue
  BY DEF CpFetch, aioVars, thrVars, rmVars
<1>7. QueueOwned'
  BY <1>1, <1>2, <1>3, <1>6, HoldsOther DEF OwnInv, QueueOwned
<1>8. JobOwned'
  BY <1>1, <1>2 DEF CpFetch, aioVars, thrVars, rmVars, TypeOK, OwnInv, JobOwned, Threads
<1>9. CjobOwned'
  BY <1>1, <1>2, ConstantsAssumption DEF CpFetch, aioVars, thrVars, rmVars, OwnInv, CjobOwned
<1>10. TrackedCmds' = TrackedCmds
  BY <1>1, <1>2, TrackedAfter DEF TrackedCmds, TrackedStates
<1>11. Finishing' = Finishing
  BY DEF CpFetch, aioVars, thrVars, rmVars, TypeOK, Finishing
<1>12. Counted'
  BY <1>1, <1>10, <1>11, CountKept DEF CpFetch, aioVars, thrVars, rmVars
<1>13. QED
  BY <1>5, <1>7, <1>8, <1>9, <1>12 DEF OwnInv

\* The command processor starts to track its command.
LEMMA OwnCpTrackStart ==
  ASSUME TypeOK, OwnInv, CpTrackStart
  PROVE  OwnInv'
<1>1. cjob \in Cmds /\ st[cjob] = "cmdproc"
  BY DEF CpTrackStart, TypeOK, OwnInv, CjobOwned
<1>2. st' = [st EXCEPT ![cjob] = "tracked"] /\ "tracked" \in CmdStates /\ st \in [Cmds -> CmdStates]
  BY DEF CpTrackStart, TypeOK, CmdStates
<1>3. ring \in Seq(Cmds) /\ queue \in Seq(Cmds) /\ "ring" \in CmdStates /\ "queued" \in CmdStates
  BY DEF TypeOK, CmdStates
<1>4. ring' = ring
  BY DEF CpTrackStart, thrVars, rmVars
<1>5. RingOwned'
  BY <1>1, <1>2, <1>3, <1>4, HoldsOther DEF OwnInv, RingOwned
<1>6. queue' = queue
  BY DEF CpTrackStart, thrVars, rmVars
<1>7. QueueOwned'
  BY <1>1, <1>2, <1>3, <1>6, HoldsOther DEF OwnInv, QueueOwned
<1>8. JobOwned'
  BY <1>1, <1>2 DEF CpTrackStart, thrVars, rmVars, TypeOK, OwnInv, JobOwned, Threads
<1>9. CjobOwned'
  BY <1>1, <1>2, ConstantsAssumption DEF CpTrackStart, thrVars, rmVars, OwnInv, CjobOwned
<1>10. cjob \notin TrackedCmds /\ TrackedCmds' = TrackedCmds \cup {cjob}
  BY <1>1, <1>2, TrackedAfter DEF TrackedCmds, TrackedStates
<1>11. Finishing' = Finishing
  BY DEF CpTrackStart, thrVars, rmVars, TypeOK, Finishing
<1>12. Counted'
  BY <1>1, <1>10, <1>11, CountMore DEF CpTrackStart, thrVars, rmVars
<1>13. QED
  BY <1>5, <1>7, <1>8, <1>9, <1>12 DEF OwnInv

\* The command processor hands its command to the io queue.
LEMMA OwnCpSchedule ==
  ASSUME TypeOK, OwnInv, CpSchedule
  PROVE  OwnInv'
<1>1. cjob \in Cmds /\ st[cjob] = "tracked"
  BY DEF CpSchedule, TypeOK, OwnInv, CjobOwned
<1>2. st' = [st EXCEPT ![cjob] = "queued"] /\ "queued" \in CmdStates /\ st \in [Cmds -> CmdStates]
  BY DEF CpSchedule, TypeOK, CmdStates
<1>3. ring \in Seq(Cmds) /\ queue \in Seq(Cmds) /\ "ring" \in CmdStates /\ "queued" \in CmdStates
  BY DEF TypeOK, CmdStates
<1>4. ring' = ring
  BY DEF CpSchedule, aioVars, rmVars
<1>5. RingOwned'
  BY <1>1, <1>2, <1>3, <1>4, HoldsOther DEF OwnInv, RingOwned
<1>6. queue' = Append(queue, cjob)
  BY DEF CpSchedule, aioVars, rmVars
<1>7. QueueOwned'
  BY <1>1, <1>2, <1>3, <1>6, HoldsAppend DEF OwnInv, QueueOwned
<1>8. JobOwned'
  BY <1>1, <1>2 DEF CpSchedule, aioVars, rmVars, TypeOK, OwnInv, JobOwned, Threads
<1>9. CjobOwned'
  BY <1>1, <1>2, ConstantsAssumption DEF CpSchedule, aioVars, rmVars, OwnInv, CjobOwned
<1>10. TrackedCmds' = TrackedCmds
  BY <1>1, <1>2, TrackedAfter DEF TrackedCmds, TrackedStates
<1>11. Finishing' = Finishing
  BY DEF CpSchedule, aioVars, rmVars, TypeOK, Finishing
<1>12. Counted'
  BY <1>1, <1>10, <1>11, CountKept DEF CpSchedule, aioVars, rmVars
<1>13. QED
  BY <1>5, <1>7, <1>8, <1>9, <1>12 DEF OwnInv

\* The command processor hands its command to the library.
LEMMA OwnCpSubmit ==
  ASSUME TypeOK, OwnInv, CpSubmit
  PROVE  OwnInv'
<1>1. cjob \in Cmds /\ st[cjob] = "tracked"
  BY DEF CpSubmit, TypeOK, OwnInv, CjobOwned
<1>2. st' = [st EXCEPT ![cjob] = "inflight"] /\ "inflight" \in CmdStates /\ st \in [Cmds -> CmdStates]
  BY DEF CpSubmit, TypeOK, CmdStates
<1>3. ring \in Seq(Cmds) /\ queue \in Seq(Cmds) /\ "ring" \in CmdStates /\ "queued" \in CmdStates
  BY DEF TypeOK, CmdStates
<1>4. ring' = ring
  BY DEF CpSubmit, aioVars, thrVars, rmVars
<1>5. RingOwned'
  BY <1>1, <1>2, <1>3, <1>4, HoldsOther DEF OwnInv, RingOwned
<1>6. queue' = queue
  BY DEF CpSubmit, aioVars, thrVars, rmVars
<1>7. QueueOwned'
  BY <1>1, <1>2, <1>3, <1>6, HoldsOther DEF OwnInv, QueueOwned
<1>8. JobOwned'
  BY <1>1, <1>2 DEF CpSubmit, aioVars, thrVars, rmVars, TypeOK, OwnInv, JobOwned, Threads
<1>9. CjobOwned'
  BY <1>1, <1>2, ConstantsAssumption DEF CpSubmit, aioVars, thrVars, rmVars, OwnInv, CjobOwned
<1>10. TrackedCmds' = TrackedCmds
  BY <1>1, <1>2, TrackedAfter DEF TrackedCmds, TrackedStates
<1>11. Finishing' = Finishing
  BY DEF CpSubmit, aioVars, thrVars, rmVars, TypeOK, Finishing
<1>12. Counted'
  BY <1>1, <1>10, <1>11, CountKept DEF CpSubmit, aioVars, thrVars, rmVars
<1>13. QED
  BY <1>5, <1>7, <1>8, <1>9, <1>12 DEF OwnInv

\* The command processor stops tracking a command it refused.
LEMMA OwnCpUntrack ==
  ASSUME TypeOK, OwnInv, CpUntrack
  PROVE  OwnInv'
<1>1. cjob \in Cmds /\ st[cjob] = "tracked"
  BY DEF CpUntrack, TypeOK, OwnInv, CjobOwned
<1>2. st' = [st EXCEPT ![cjob] = "cmdproc"] /\ "cmdproc" \in CmdStates /\ st \in [Cmds -> CmdStates]
  BY DEF CpUntrack, TypeOK, CmdStates
<1>3. ring \in Seq(Cmds) /\ queue \in Seq(Cmds) /\ "ring" \in CmdStates /\ "queued" \in CmdStates
  BY DEF TypeOK, CmdStates
<1>4. ring' = ring
  BY DEF CpUntrack, TrackFinish, thrVars
<1>5. RingOwned'
  BY <1>1, <1>2, <1>3, <1>4, HoldsOther DEF OwnInv, RingOwned
<1>6. queue' = queue
  BY DEF CpUntrack, TrackFinish, thrVars
<1>7. QueueOwned'
  BY <1>1, <1>2, <1>3, <1>6, HoldsOther DEF OwnInv, QueueOwned
<1>8. JobOwned'
  BY <1>1, <1>2 DEF CpUntrack, TrackFinish, thrVars, TypeOK, OwnInv, JobOwned, Threads
<1>9. CjobOwned'
  BY <1>1, <1>2, ConstantsAssumption DEF CpUntrack, TrackFinish, thrVars, OwnInv, CjobOwned
<1>10. cjob \in TrackedCmds /\ TrackedCmds' = TrackedCmds \ {cjob}
  BY <1>1, <1>2, TrackedAfter DEF TrackedCmds, TrackedStates
<1>11. Finishing' = Finishing
  BY DEF CpUntrack, TrackFinish, thrVars, TypeOK, Finishing
<1>12. Counted'
  BY <1>1, <1>10, <1>11, CountLess DEF CpUntrack, TrackFinish, thrVars
<1>13. QED
  BY <1>5, <1>7, <1>8, <1>9, <1>12 DEF OwnInv

\* The command processor answers its command.
LEMMA OwnCpComplete ==
  ASSUME TypeOK, OwnInv, CpComplete
  PROVE  OwnInv'
<1>1. cjob \in Cmds /\ st[cjob] = "cmdproc"
  BY DEF CpComplete, TypeOK, OwnInv, CjobOwned
<1>2. st' = [st EXCEPT ![cjob] = "rsp"] /\ "rsp" \in CmdStates /\ st \in [Cmds -> CmdStates]
  BY DEF CpComplete, TypeOK, CmdStates
<1>3. ring \in Seq(Cmds) /\ queue \in Seq(Cmds) /\ "ring" \in CmdStates /\ "queued" \in CmdStates
  BY DEF TypeOK, CmdStates
<1>4. ring' = ring
  BY DEF CpComplete, aioVars, thrVars, rmVars
<1>5. RingOwned'
  BY <1>1, <1>2, <1>3, <1>4, HoldsOther DEF OwnInv, RingOwned
<1>6. queue' = queue
  BY DEF CpComplete, aioVars, thrVars, rmVars
<1>7. QueueOwned'
  BY <1>1, <1>2, <1>3, <1>6, HoldsOther DEF OwnInv, QueueOwned
<1>8. JobOwned'
  BY <1>1, <1>2 DEF CpComplete, aioVars, thrVars, rmVars, TypeOK, OwnInv, JobOwned, Threads
<1>9. CjobOwned'
  BY <1>1, <1>2, ConstantsAssumption DEF CpComplete, aioVars, thrVars, rmVars, OwnInv, CjobOwned
<1>10. TrackedCmds' = TrackedCmds
  BY <1>1, <1>2, TrackedAfter DEF TrackedCmds, TrackedStates
<1>11. Finishing' = Finishing
  BY DEF CpComplete, aioVars, thrVars, rmVars, TypeOK, Finishing
<1>12. Counted'
  BY <1>1, <1>10, <1>11, CountKept DEF CpComplete, aioVars, thrVars, rmVars
<1>13. QED
  BY <1>5, <1>7, <1>8, <1>9, <1>12 DEF OwnInv

\* A worker takes the oldest work item.
LEMMA OwnWorkerTake ==
  ASSUME TypeOK, OwnInv, NEW t \in Workers, WorkerTake(t)
  PROVE  OwnInv'
<1>1. Head(queue) \in Cmds /\ st[Head(queue)] = "queued"
  BY DEF WorkerTake, TypeOK, OwnInv, QueueOwned, HoldsOnce
<1>2. st' = [st EXCEPT ![Head(queue)] = "work"] /\ "work" \in CmdStates /\ st \in [Cmds -> CmdStates]
  BY DEF WorkerTake, TypeOK, CmdStates
<1>3. ring \in Seq(Cmds) /\ queue \in Seq(Cmds) /\ "ring" \in CmdStates /\ "queued" \in CmdStates
  BY DEF TypeOK, CmdStates
<1>4. ring' = ring
  BY DEF WorkerTake, aioVars, procVars, rmVars
<1>5. RingOwned'
  BY <1>1, <1>2, <1>3, <1>4, HoldsOther DEF OwnInv, RingOwned
<1>6. queue' = Tail(queue) /\ queue # <<>>
  BY DEF WorkerTake, aioVars, procVars, rmVars
<1>7. QueueOwned'
  BY <1>1, <1>2, <1>3, <1>6, HoldsTail DEF OwnInv, QueueOwned
<1>8. JobOwned'
  <2>1. t \in Threads /\ \A u \in Threads : /\ pc'[u] = IF u = t THEN "work" ELSE pc[u]
                                            /\ job'[u] = IF u = t THEN Head(queue) ELSE job[u]
    BY DEF WorkerTake, aioVars, procVars, rmVars, TypeOK, Threads
  <2>2. \A d \in Cmds : st'[d] = IF d = Head(queue) THEN "work" ELSE st[d]
    BY <1>2
  <2>3. job[t] = None /\ \A u \in Threads : u # t => job[u] # Head(queue)
    BY <1>1, <2>1, ConstantsAssumption DEF WorkerTake, OwnInv, JobOwned
  <2>4. \A u, v \in Threads : job'[u] = job'[v] /\ job'[u] # None => u = v
    BY <2>1, <2>3 DEF OwnInv, JobOwned
  <2>5. ASSUME NEW u \in Threads
        PROVE  /\ pc'[u] = "work" => job'[u] \in Cmds /\ st'[job'[u]] = "work"
               /\ pc'[u] = "complete" => job'[u] \in Cmds /\ st'[job'[u]] = "done"
               /\ pc'[u] \notin {"work", "complete"} => job'[u] = None
    BY <1>1, <2>1, <2>2, <2>3 DEF OwnInv, JobOwned
  <2>6. ASSUME NEW d \in Cmds, st'[d] \in {"work", "done"} PROVE \E u \in Threads : job'[u] = d
    <3>1. CASE d = Head(queue)
      BY <3>1, <2>1, <2>2, <2>6 DEF OwnInv, JobOwned
    <3>2. CASE d # Head(queue)
      <4>1. PICK u \in Threads : job[u] = d
        BY <3>2, <2>2, <2>6 DEF OwnInv, JobOwned
      <4>2. u # t
        BY <4>1, <3>2, <2>3, <1>1, ConstantsAssumption
      <4>3. QED
        BY <4>1, <4>2, <2>1
    <3>3. QED
      BY <3>1, <3>2
  <2>7. QED
    BY <2>4, <2>5, <2>6 DEF JobOwned
<1>9. CjobOwned'
  BY <1>1, <1>2, ConstantsAssumption DEF WorkerTake, aioVars, procVars, rmVars, OwnInv, CjobOwned
<1>10. TrackedCmds' = TrackedCmds
  BY <1>1, <1>2, TrackedAfter DEF TrackedCmds, TrackedStates
<1>11. Finishing' = Finishing
  BY DEF WorkerTake, aioVars, procVars, rmVars, TypeOK, Finishing
<1>12. Counted'
  BY <1>1, <1>10, <1>11, CountKept DEF WorkerTake, aioVars, procVars, rmVars
<1>13. QED
  BY <1>5, <1>7, <1>8, <1>9, <1>12 DEF OwnInv

\* A worker has executed its command.
LEMMA OwnWorkerDone ==
  ASSUME TypeOK, OwnInv, NEW t \in Workers, WorkerDone(t)
  PROVE  OwnInv'
<1>1. job[t] \in Cmds /\ st[job[t]] = "work"
  BY DEF WorkerDone, TypeOK, OwnInv, JobOwned, Threads
<1>2. st' = [st EXCEPT ![job[t]] = "done"] /\ "done" \in CmdStates /\ st \in [Cmds -> CmdStates]
  BY DEF WorkerDone, TypeOK, CmdStates
<1>3. ring \in Seq(Cmds) /\ queue \in Seq(Cmds) /\ "ring" \in CmdStates /\ "queued" \in CmdStates
  BY DEF TypeOK, CmdStates
<1>4. ring' = ring
  BY DEF WorkerDone, aioVars, procVars, rmVars
<1>5. RingOwned'
  BY <1>1, <1>2, <1>3, <1>4, HoldsOther DEF OwnInv, RingOwned
<1>6. queue' = queue
  BY DEF WorkerDone, aioVars, procVars, rmVars
<1>7. QueueOwned'
  BY <1>1, <1>2, <1>3, <1>6, HoldsOther DEF OwnInv, QueueOwned
<1>8. JobOwned'
  <2>1. t \in Threads /\ \A u \in Threads : /\ pc'[u] = IF u = t THEN "complete" ELSE pc[u]
                                            /\ job'[u] = IF u = t THEN job[t] ELSE job[u]
    BY DEF WorkerDone, aioVars, procVars, rmVars, TypeOK, Threads
  <2>2. \A d \in Cmds : st'[d] = IF d = job[t] THEN "done" ELSE st[d]
    BY <1>2
  <2>3. \A u \in Threads : u # t => job[u] # job[t]
    BY <1>1, <2>1, ConstantsAssumption DEF WorkerDone, OwnInv, JobOwned
  <2>4. \A u, v \in Threads : job'[u] = job'[v] /\ job'[u] # None => u = v
    BY <2>1, <2>3 DEF OwnInv, JobOwned
  <2>5. ASSUME NEW u \in Threads
        PROVE  /\ pc'[u] = "work" => job'[u] \in Cmds /\ st'[job'[u]] = "work"
               /\ pc'[u] = "complete" => job'[u] \in Cmds /\ st'[job'[u]] = "done"
               /\ pc'[u] \notin {"work", "complete"} => job'[u] = None
    BY <1>1, <2>1, <2>2, <2>3 DEF OwnInv, JobOwned
  <2>6. ASSUME NEW d \in Cmds, st'[d] \in {"work", "done"} PROVE \E u \in Threads : job'[u] = d
    <3>1. CASE d = job[t]
      BY <3>1, <2>1, <2>2, <2>6 DEF OwnInv, JobOwned
    <3>2. CASE d # job[t]
      <4>1. PICK u \in Threads : job[u] = d
        BY <3>2, <2>2, <2>6 DEF OwnInv, JobOwned
      <4>2. u # t
        BY <4>1, <3>2, <2>3, <1>1, ConstantsAssumption
      <4>3. QED
        BY <4>1, <4>2, <2>1
    <3>3. QED
      BY <3>1, <3>2
  <2>7. QED
    BY <2>4, <2>5, <2>6 DEF JobOwned
<1>9. CjobOwned'
  BY <1>1, <1>2, ConstantsAssumption DEF WorkerDone, aioVars, procVars, rmVars, OwnInv, CjobOwned
<1>10. TrackedCmds' = TrackedCmds
  BY <1>1, <1>2, TrackedAfter DEF TrackedCmds, TrackedStates
<1>11. Finishing' = Finishing
  BY DEF WorkerDone, aioVars, procVars, rmVars, TypeOK, Finishing
<1>12. Counted'
  BY <1>1, <1>10, <1>11, CountKept DEF WorkerDone, aioVars, procVars, rmVars
<1>13. QED
  BY <1>5, <1>7, <1>8, <1>9, <1>12 DEF OwnInv

\* A worker hands its command to the library.
LEMMA OwnWorkerSubmit ==
  ASSUME TypeOK, OwnInv, NEW t \in Workers, WorkerSubmit(t)
  PROVE  OwnInv'
<1>1. job[t] \in Cmds /\ st[job[t]] = "work"
  BY DEF WorkerSubmit, TypeOK, OwnInv, JobOwned, Threads
<1>2. st' = [st EXCEPT ![job[t]] = "inflight"] /\ "inflight" \in CmdStates /\ st \in [Cmds -> CmdStates]
  BY DEF WorkerSubmit, TypeOK, CmdStates
<1>3. ring \in Seq(Cmds) /\ queue \in Seq(Cmds) /\ "ring" \in CmdStates /\ "queued" \in CmdStates
  BY DEF TypeOK, CmdStates
<1>4. ring' = ring
  BY DEF WorkerSubmit, aioVars, procVars, rmVars
<1>5. RingOwned'
  BY <1>1, <1>2, <1>3, <1>4, HoldsOther DEF OwnInv, RingOwned
<1>6. queue' = queue
  BY DEF WorkerSubmit, aioVars, procVars, rmVars
<1>7. QueueOwned'
  BY <1>1, <1>2, <1>3, <1>6, HoldsOther DEF OwnInv, QueueOwned
<1>8. JobOwned'
  <2>1. t \in Threads /\ \A u \in Threads : /\ pc'[u] = IF u = t THEN "top" ELSE pc[u]
                                            /\ job'[u] = IF u = t THEN None ELSE job[u]
    BY DEF WorkerSubmit, aioVars, procVars, rmVars, TypeOK, Threads
  <2>2. \A d \in Cmds : st'[d] = IF d = job[t] THEN "inflight" ELSE st[d]
    BY <1>2
  <2>3. \A u \in Threads : u # t => job[u] # job[t]
    BY <1>1, <2>1, ConstantsAssumption DEF WorkerSubmit, OwnInv, JobOwned
  <2>4. \A u, v \in Threads : job'[u] = job'[v] /\ job'[u] # None => u = v
    BY <2>1, <2>3 DEF OwnInv, JobOwned
  <2>5. ASSUME NEW u \in Threads
        PROVE  /\ pc'[u] = "work" => job'[u] \in Cmds /\ st'[job'[u]] = "work"
               /\ pc'[u] = "complete" => job'[u] \in Cmds /\ st'[job'[u]] = "done"
               /\ pc'[u] \notin {"work", "complete"} => job'[u] = None
    BY <1>1, <2>1, <2>2, <2>3 DEF OwnInv, JobOwned
  <2>6. ASSUME NEW d \in Cmds, st'[d] \in {"work", "done"} PROVE \E u \in Threads : job'[u] = d
    <3>1. CASE d = job[t]
      BY <3>1, <2>1, <2>2, <2>6 DEF OwnInv, JobOwned
    <3>2. CASE d # job[t]
      <4>1. PICK u \in Threads : job[u] = d
        BY <3>2, <2>2, <2>6 DEF OwnInv, JobOwned
      <4>2. u # t
        BY <4>1, <3>2, <2>3, <1>1, ConstantsAssumption
      <4>3. QED
        BY <4>1, <4>2, <2>1
    <3>3. QED
      BY <3>1, <3>2
  <2>7. QED
    BY <2>4, <2>5, <2>6 DEF JobOwned
<1>9. CjobOwned'
  BY <1>1, <1>2, ConstantsAssumption DEF WorkerSubmit, aioVars, procVars, rmVars, OwnInv, CjobOwned
<1>10. TrackedCmds' = TrackedCmds
  BY <1>1, <1>2, TrackedAfter DEF TrackedCmds, TrackedStates
<1>11. Finishing' = Finishing
  BY DEF WorkerSubmit, aioVars, procVars, rmVars, TypeOK, Finishing
<1>12. Counted'
  BY <1>1, <1>10, <1>11, CountKept DEF WorkerSubmit, aioVars, procVars, rmVars
<1>13. QED
  BY <1>5, <1>7, <1>8, <1>9, <1>12 DEF OwnInv

\* A library thread takes a command that has ended.
LEMMA OwnCallbackDone ==
  ASSUME TypeOK, OwnInv, NEW t \in Callbacks, NEW c \in Cmds, CallbackDone(t, c)
  PROVE  OwnInv'
<1>1. c \in Cmds /\ st[c] = "inflight"
  BY DEF CallbackDone, TypeOK, OwnInv
<1>2. st' = [st EXCEPT ![c] = "done"] /\ "done" \in CmdStates /\ st \in [Cmds -> CmdStates]
  BY DEF CallbackDone, TypeOK, CmdStates
<1>3. ring \in Seq(Cmds) /\ queue \in Seq(Cmds) /\ "ring" \in CmdStates /\ "queued" \in CmdStates
  BY DEF TypeOK, CmdStates
<1>4. ring' = ring
  BY DEF CallbackDone, aioVars, procVars, rmVars
<1>5. RingOwned'
  BY <1>1, <1>2, <1>3, <1>4, HoldsOther DEF OwnInv, RingOwned
<1>6. queue' = queue
  BY DEF CallbackDone, aioVars, procVars, rmVars
<1>7. QueueOwned'
  BY <1>1, <1>2, <1>3, <1>6, HoldsOther DEF OwnInv, QueueOwned
<1>8. JobOwned'
  <2>1. t \in Threads /\ \A u \in Threads : /\ pc'[u] = IF u = t THEN "complete" ELSE pc[u]
                                            /\ job'[u] = IF u = t THEN c ELSE job[u]
    BY DEF CallbackDone, aioVars, procVars, rmVars, TypeOK, Threads
  <2>2. \A d \in Cmds : st'[d] = IF d = c THEN "done" ELSE st[d]
    BY <1>2
  <2>3. job[t] = None /\ \A u \in Threads : u # t => job[u] # c
    BY <1>1, <2>1, ConstantsAssumption DEF CallbackDone, OwnInv, JobOwned
  <2>4. \A u, v \in Threads : job'[u] = job'[v] /\ job'[u] # None => u = v
    BY <2>1, <2>3 DEF OwnInv, JobOwned
  <2>5. ASSUME NEW u \in Threads
        PROVE  /\ pc'[u] = "work" => job'[u] \in Cmds /\ st'[job'[u]] = "work"
               /\ pc'[u] = "complete" => job'[u] \in Cmds /\ st'[job'[u]] = "done"
               /\ pc'[u] \notin {"work", "complete"} => job'[u] = None
    BY <1>1, <2>1, <2>2, <2>3 DEF OwnInv, JobOwned
  <2>6. ASSUME NEW d \in Cmds, st'[d] \in {"work", "done"} PROVE \E u \in Threads : job'[u] = d
    <3>1. CASE d = c
      BY <3>1, <2>1, <2>2, <2>6 DEF OwnInv, JobOwned
    <3>2. CASE d # c
      <4>1. PICK u \in Threads : job[u] = d
        BY <3>2, <2>2, <2>6 DEF OwnInv, JobOwned
      <4>2. u # t
        BY <4>1, <3>2, <2>3, <1>1, ConstantsAssumption
      <4>3. QED
        BY <4>1, <4>2, <2>1
    <3>3. QED
      BY <3>1, <3>2
  <2>7. QED
    BY <2>4, <2>5, <2>6 DEF JobOwned
<1>9. CjobOwned'
  BY <1>1, <1>2, ConstantsAssumption DEF CallbackDone, aioVars, procVars, rmVars, OwnInv, CjobOwned
<1>10. TrackedCmds' = TrackedCmds
  BY <1>1, <1>2, TrackedAfter DEF TrackedCmds, TrackedStates
<1>11. Finishing' = Finishing
  BY DEF CallbackDone, aioVars, procVars, rmVars, TypeOK, Finishing
<1>12. Counted'
  BY <1>1, <1>10, <1>11, CountKept DEF CallbackDone, aioVars, procVars, rmVars
<1>13. QED
  BY <1>5, <1>7, <1>8, <1>9, <1>12 DEF OwnInv

\* A thread writes the answer of its command.
LEMMA OwnFinishComplete ==
  ASSUME TypeOK, OwnInv, NEW t \in Threads, FinishComplete(t)
  PROVE  OwnInv'
<1>1. job[t] \in Cmds /\ st[job[t]] = "done"
  BY DEF FinishComplete, TypeOK, OwnInv, JobOwned, Threads
<1>2. st' = [st EXCEPT ![job[t]] = "rsp"] /\ "rsp" \in CmdStates /\ st \in [Cmds -> CmdStates]
  BY DEF FinishComplete, TypeOK, CmdStates
<1>3. ring \in Seq(Cmds) /\ queue \in Seq(Cmds) /\ "ring" \in CmdStates /\ "queued" \in CmdStates
  BY DEF TypeOK, CmdStates
<1>4. ring' = ring
  BY DEF FinishComplete, aioVars, procVars, rmVars
<1>5. RingOwned'
  BY <1>1, <1>2, <1>3, <1>4, HoldsOther DEF OwnInv, RingOwned
<1>6. queue' = queue
  BY DEF FinishComplete, aioVars, procVars, rmVars
<1>7. QueueOwned'
  BY <1>1, <1>2, <1>3, <1>6, HoldsOther DEF OwnInv, QueueOwned
<1>8. JobOwned'
  <2>1. t \in Threads /\ \A u \in Threads : /\ pc'[u] = IF u = t THEN "finish" ELSE pc[u]
                                            /\ job'[u] = IF u = t THEN None ELSE job[u]
    BY DEF FinishComplete, aioVars, procVars, rmVars, TypeOK, Threads
  <2>2. \A d \in Cmds : st'[d] = IF d = job[t] THEN "rsp" ELSE st[d]
    BY <1>2
  <2>3. \A u \in Threads : u # t => job[u] # job[t]
    BY <1>1, <2>1, ConstantsAssumption DEF FinishComplete, OwnInv, JobOwned
  <2>4. \A u, v \in Threads : job'[u] = job'[v] /\ job'[u] # None => u = v
    BY <2>1, <2>3 DEF OwnInv, JobOwned
  <2>5. ASSUME NEW u \in Threads
        PROVE  /\ pc'[u] = "work" => job'[u] \in Cmds /\ st'[job'[u]] = "work"
               /\ pc'[u] = "complete" => job'[u] \in Cmds /\ st'[job'[u]] = "done"
               /\ pc'[u] \notin {"work", "complete"} => job'[u] = None
    BY <1>1, <2>1, <2>2, <2>3 DEF OwnInv, JobOwned
  <2>6. ASSUME NEW d \in Cmds, st'[d] \in {"work", "done"} PROVE \E u \in Threads : job'[u] = d
    <3>1. CASE d = job[t]
      BY <3>1, <2>1, <2>2, <2>6 DEF OwnInv, JobOwned
    <3>2. CASE d # job[t]
      <4>1. PICK u \in Threads : job[u] = d
        BY <3>2, <2>2, <2>6 DEF OwnInv, JobOwned
      <4>2. u # t
        BY <4>1, <3>2, <2>3, <1>1, ConstantsAssumption
      <4>3. QED
        BY <4>1, <4>2, <2>1
    <3>3. QED
      BY <3>1, <3>2
  <2>7. QED
    BY <2>4, <2>5, <2>6 DEF JobOwned
<1>9. CjobOwned'
  BY <1>1, <1>2, ConstantsAssumption DEF FinishComplete, aioVars, procVars, rmVars, OwnInv, CjobOwned
<1>10. job[t] \in TrackedCmds /\ TrackedCmds' = TrackedCmds \ {job[t]}
  BY <1>1, <1>2, TrackedAfter DEF TrackedCmds, TrackedStates
<1>11. t \notin Finishing /\ Finishing' = Finishing \cup {t}
  BY DEF FinishComplete, aioVars, procVars, rmVars, TypeOK, Finishing
<1>12. Counted'
  BY <1>1, <1>10, <1>11, CountPassed DEF FinishComplete, aioVars, procVars, rmVars
<1>13. QED
  BY <1>5, <1>7, <1>8, <1>9, <1>12 DEF OwnInv

\* A thread finishes the operation it has answered.
LEMMA OwnFinishTrack ==
  ASSUME TypeOK, OwnInv, NEW t \in Threads, FinishTrack(t)
  PROVE  OwnInv'
<1>1. t \in Finishing /\ Finishing' = Finishing \ {t} /\ TrackedCmds' = TrackedCmds
  BY DEF FinishTrack, TrackFinish, cmdVars, procVars, TypeOK, Finishing, TrackedCmds
<1>2. Counted'
  BY <1>1, CountDone DEF FinishTrack, TrackFinish, cmdVars, procVars
<1>3. RingOwned' /\ QueueOwned'
  BY DEF FinishTrack, TrackFinish, cmdVars, procVars, OwnInv, RingOwned, QueueOwned
<1>4. JobOwned'
  BY DEF FinishTrack, TrackFinish, cmdVars, procVars, TypeOK, OwnInv, JobOwned
<1>5. CjobOwned'
  BY DEF FinishTrack, TrackFinish, cmdVars, procVars, OwnInv, CjobOwned
<1>6. QED
  BY <1>2, <1>3, <1>4, <1>5 DEF OwnInv

\* No step gives a command a second owner or loses count of one.
LEMMA OwnStep == TypeOK /\ OwnInv /\ [Next]_vars => OwnInv'
<1> SUFFICES ASSUME TypeOK, OwnInv, [Next]_vars PROVE OwnInv'
  OBVIOUS
<1>1. ASSUME NEW c \in Cmds, KernelQueue(c) PROVE OwnInv'
  BY <1>1, OwnKernelQueue
<1>2. ASSUME NEW c \in Cmds, KernelExpire(c) PROVE OwnInv'
  BY <1>2, OwnKept DEF KernelExpire, aioVars, procVars, thrVars, rmVars, TypeOK
<1>3. CASE CpStart
  BY <1>3, OwnKept DEF CpStart, cmdVars, aioVars, thrVars, rmVars, TypeOK
<1>4. CASE CpFetch
  BY <1>4, OwnCpFetch
<1>5. CASE CpFetchNone
  BY <1>5, OwnKept DEF CpFetchNone, cmdVars, aioVars, thrVars, rmVars, TypeOK
<1>6. CASE CpHandleSync
  BY <1>6, OwnKept DEF CpHandleSync, cmdVars, aioVars, thrVars, rmVars, TypeOK
<1>7. CASE CpTrackStart
  BY <1>7, OwnCpTrackStart
<1>8. CASE CpRefuse
  BY <1>8, OwnKept DEF CpRefuse, cmdVars, aioVars, thrVars, rmVars, TypeOK
<1>9. CASE CpSchedule
  BY <1>9, OwnCpSchedule
<1>10. CASE CpSubmit
  BY <1>10, OwnCpSubmit
<1>11. CASE CpUntrack
  BY <1>11, OwnCpUntrack
<1>12. CASE CpComplete
  BY <1>12, OwnCpComplete
<1>13. CASE CpKick
  BY <1>13, OwnKept DEF CpKick, ProcessingComplete, aioVars, thrVars, rmVars, TypeOK
<1>14. CASE CpPoll
  BY <1>14, OwnKept DEF CpPoll, cmdVars, aioVars, thrVars, rmVars, TypeOK
<1>15. CASE CpPollError
  BY <1>15, OwnKept DEF CpPollError, cmdVars, aioVars, thrVars, rmVars, TypeOK
<1>16. ASSUME NEW t \in Workers, WorkerTake(t) PROVE OwnInv'
  BY <1>16, OwnWorkerTake
<1>17. ASSUME NEW t \in Workers, WorkerWait(t) PROVE OwnInv'
  BY <1>17, OwnKept DEF WorkerWait, cmdVars, aioVars, procVars, rmVars, TypeOK
<1>18. ASSUME NEW t \in Workers, WorkerSpurious(t) PROVE OwnInv'
  BY <1>18, OwnKept DEF WorkerSpurious, cmdVars, aioVars, procVars, rmVars, TypeOK
<1>19. ASSUME NEW t \in Workers, WorkerDone(t) PROVE OwnInv'
  BY <1>19, OwnWorkerDone
<1>20. ASSUME NEW t \in Workers, WorkerSubmit(t) PROVE OwnInv'
  BY <1>20, OwnWorkerSubmit
<1>21. ASSUME NEW t \in Callbacks, NEW c \in Cmds, CallbackDone(t, c) PROVE OwnInv'
  BY <1>21, OwnCallbackDone
<1>22. ASSUME NEW t \in Threads, FinishComplete(t) PROVE OwnInv'
  BY <1>22, OwnFinishComplete
<1>23. ASSUME NEW t \in Threads, FinishTrack(t) PROVE OwnInv'
  BY <1>23, OwnFinishTrack
<1>24. ASSUME NEW t \in Threads, FinishKick(t) PROVE OwnInv'
  BY <1>24, OwnKept DEF FinishKick, ProcessingComplete, aioVars, procVars, rmVars, TypeOK
<1>25. ASSUME NEW t \in Threads, FinishWakeup(t) PROVE OwnInv'
  BY <1>25, OwnKept DEF FinishWakeup, cmdVars, procVars, rmVars, TypeOK
<1>26. ASSUME NEW t \in Workers, RmCancelWorker(t) PROVE OwnInv'
  BY <1>26, OwnKept DEF RmCancelWorker, cmdVars, aioVars, procVars, rmVars, TypeOK
<1>27. CASE RemoveByNetlink
  BY <1>27, OwnKept DEF RemoveByNetlink, cmdVars, aioVars, procVars, thrVars, TypeOK
<1>28. CASE RemoveByShutdown
  BY <1>28, OwnKept DEF RemoveByShutdown, cmdVars, aioVars, procVars, thrVars, TypeOK
<1>29. CASE RmFlush
  BY <1>29, OwnKept DEF RmFlush, cmdVars, aioVars, procVars, thrVars, TypeOK
<1>30. CASE RmWorkersGone
  BY <1>30, OwnKept DEF RmWorkersGone, cmdVars, aioVars, procVars, thrVars, TypeOK
<1>31. CASE RmWaitEmpty
  BY <1>31, OwnKept DEF RmWaitEmpty, cmdVars, procVars, thrVars, TypeOK
<1>32. CASE RmSpurious
  BY <1>32, OwnKept DEF RmSpurious, cmdVars, aioVars, procVars, thrVars, TypeOK
<1>33. CASE RmWoken
  BY <1>33, OwnKept DEF RmWoken, cmdVars, procVars, thrVars, TypeOK
<1>34. CASE RmCancelCmdproc
  BY <1>34, OwnKept DEF RmCancelCmdproc, cmdVars, aioVars, thrVars, TypeOK
<1>35. CASE RmStopDevice
  BY <1>35, OwnKept DEF RmStopDevice, cmdVars, aioVars, procVars, thrVars, TypeOK
<1>36. CASE RmCleanup
  BY <1>36, OwnKept DEF RmCleanup, cmdVars, aioVars, procVars, thrVars, TypeOK
<1>37. CASE Terminated
  BY <1>37, OwnKept DEF Terminated, vars, TypeOK
<1>38. CASE UNCHANGED vars
  BY <1>38, OwnKept DEF vars, TypeOK
<1>39. QED
  <2>1. CASE CmdprocStep
    BY <2>1, <1>3, <1>4, <1>5, <1>6, <1>7, <1>8, <1>9, <1>10, <1>11, <1>12, <1>13, <1>14 DEF CmdprocStep
  <2>2. ASSUME NEW t \in Workers, WorkerStep(t) PROVE OwnInv'
    BY <2>2, <1>16, <1>17, <1>19, <1>20 DEF WorkerStep
  <2>3. ASSUME NEW t \in Threads, FinishStep(t) PROVE OwnInv'
    BY <2>3, <1>22, <1>23, <1>24, <1>25 DEF FinishStep
  <2>4. CASE RemoverStep
    BY <2>4, <1>29, <1>30, <1>31, <1>33, <1>34, <1>35, <1>36, <1>26 DEF RemoverStep
  <2>5. QED
    BY <2>1, <2>2, <2>3, <2>4, <1>38, <1>1, <1>2, <1>15, <1>18, <1>21, <1>27, <1>28, <1>32, <1>37 DEF Next


\* The places of a command on a queue.
Places(s, c) == {i \in DOMAIN s : s[i] = c}

\* A queue that holds each of its commands once has one place for a command
\* whose state says so, and none for another.
LEMMA PlacesCounted ==
  ASSUME NEW s \in Seq(Cmds), NEW f, NEW v, HoldsOnce(s, f, v), NEW c \in Cmds
  PROVE  Cardinality(Places(s, c)) = IF f[c] = v THEN 1 ELSE 0
<1>1. CASE f[c] = v
  <2>1. PICK i \in DOMAIN s : s[i] = c
    BY <1>1 DEF HoldsOnce
  <2>2. Places(s, c) = {i}
    BY <2>1 DEF HoldsOnce, Places
  <2>3. QED
    BY <1>1, <2>2, FS_Singleton
<1>2. CASE f[c] # v
  <2>1. Places(s, c) = {}
    BY <1>2 DEF HoldsOnce, Places
  <2>2. QED
    BY <1>2, <2>1, FS_EmptySet
<1>3. QED
  BY <1>1, <1>2

\* The same for the threads: a command that is being executed or completed is
\* with one of them.
LEMMA HoldersCounted ==
  ASSUME TypeOK, OwnInv, NEW c \in Cmds
  PROVE  Cardinality({t \in Threads : job[t] = c}) = IF st[c] \in {"work", "done"} THEN 1 ELSE 0
<1>1. CASE st[c] \in {"work", "done"}
  <2>1. PICK t \in Threads : job[t] = c
    BY <1>1 DEF OwnInv, JobOwned
  <2>2. {u \in Threads : job[u] = c} = {t}
    BY <2>1, ConstantsAssumption DEF OwnInv, JobOwned
  <2>3. QED
    BY <1>1, <2>2, FS_Singleton
<1>2. CASE st[c] \notin {"work", "done"}
  <2>1. {u \in Threads : job[u] = c} = {}
    BY <1>2, ConstantsAssumption DEF TypeOK, OwnInv, JobOwned
  <2>2. QED
    BY <1>2, <2>1, FS_EmptySet
<1>3. QED
  BY <1>1, <1>2

\* What the owners know is what the property says.
LEMMA OwnIsTracked == TypeOK /\ OwnInv => TrackedOnceOwned
<1> SUFFICES ASSUME TypeOK, OwnInv PROVE TrackedOnceOwned
  OBVIOUS
<1>1. TrackedExact
  BY DEF OwnInv, Counted, TrackedCmds, TrackedStates, Finishing, TrackedExact
<1>2. ASSUME NEW c \in Cmds PROVE cjob = c <=> st[c] \in {"cmdproc", "tracked"}
  BY ConstantsAssumption DEF TypeOK, CmdprocPCs, OwnInv, CjobOwned
<1>3. ring \in Seq(Cmds) /\ queue \in Seq(Cmds)
  BY DEF TypeOK
<1>4. HoldsOnce(ring, st, "ring") /\ HoldsOnce(queue, st, "queued")
  BY DEF OwnInv, RingOwned, QueueOwned
<1>5. ASSUME NEW c \in Cmds
      PROVE  /\ Cardinality(Places(ring, c)) = IF st[c] = "ring" THEN 1 ELSE 0
             /\ Cardinality(Places(queue, c)) = IF st[c] = "queued" THEN 1 ELSE 0
  <2>1. Cardinality(Places(ring, c)) = IF st[c] = "ring" THEN 1 ELSE 0
    BY <1>3, <1>4, PlacesCounted
  <2>2. Cardinality(Places(queue, c)) = IF st[c] = "queued" THEN 1 ELSE 0
    BY <1>3, <1>4, PlacesCounted
  <2>3. QED
    BY <2>1, <2>2
<1>6. OneOwner
  BY <1>2, <1>5, HoldersCounted DEF OneOwner, Places
<1>7. QED
  BY <1>1, <1>6 DEF TrackedOnceOwned

\* At the start every command is free and nobody holds one.
LEMMA OwnInit == Init => OwnInv
<1> SUFFICES ASSUME Init PROVE OwnInv
  OBVIOUS
<1>1. RingOwned /\ QueueOwned /\ JobOwned /\ CjobOwned
  BY DEF Init, RingOwned, QueueOwned, HoldsOnce, JobOwned, CjobOwned
<1>2. TrackedCmds = {} /\ Finishing = {}
  BY DEF Init, TrackedCmds, TrackedStates, Finishing
<1>3. Counted
  BY <1>2, FS_EmptySet DEF Init, Counted
<1>4. QED
  BY <1>1, <1>3 DEF OwnInv

\* For any number of commands, workers and library threads, and with every
\* fault of the model: a command is with one owner from the ring to its answer,
\* and tracked_aio_ops is the number of operations that were started and not
\* finished, on every path that refuses, queues, executes or completes one.
THEOREM EveryCommandTracked == Spec => []TrackedOnceOwned
<1>1. Spec => []OwnInv
  BY OwnInit, OwnStep, TypeCorrect, PTL DEF Spec
<1>2. QED
  BY <1>1, OwnIsTracked, TypeCorrect, PTL

-----------------------------------------------------------------------------
(* The removal of a device.                                                *)

\* Every step of dev_removed rests on the ones before it: the workers are
\* joined, no command is left behind, the waiter sleeps only while its
\* condition variable is registered, and past the wait nothing is tracked.
Joined   == rpc \in {"empty", "wait", "woken", "cmdproc", "stopdev", "cleanup", "done"}
              => Workers \subseteq dead
WaitSeen == emptyCond <=> rpc = "wait"
Idle     == rpc \notin {"none", "flush"} => \A c \in Cmds : st[c] \in {"free", "rsp"}
Drained  == rpc \in {"woken", "cmdproc", "stopdev", "cleanup", "done"} => tracked = 0
NoneLate == "expire" \notin Faults => expired = {}
RemovalInv == Joined /\ WaitSeen /\ Idle /\ Drained /\ NoneLate

\* Past the flush nothing but finished operations is counted.
LEMMA IdleCount ==
  ASSUME TypeOK, OwnInv, Idle, rpc \notin {"none", "flush"}
  PROVE  tracked = Cardinality(Finishing)
<1>1. TrackedCmds = {}
  BY DEF Idle, TrackedCmds, TrackedStates
<1>2. QED
  BY <1>1, CountedFinite, FS_EmptySet DEF OwnInv, Counted

\* A thread that is about to finish an operation is counted.
LEMMA FinishCounted ==
  ASSUME TypeOK, OwnInv, NEW t \in Finishing
  PROVE  tracked > 0
<1>1. Cardinality(Finishing \ {t}) = Cardinality(Finishing) - 1
  BY CountedFinite, FS_RemoveElement
<1>2. Cardinality(Finishing \ {t}) \in Nat
  BY CountedFinite, FS_Subset, FS_CardinalityType
<1>3. QED
  BY <1>1, <1>2, CountedFinite DEF OwnInv, Counted

\* Steps that leave the removal, the count and the joined workers alone, and
\* either touch no command in use or find the removal not past the flush.
LEMMA RemovalKept ==
  ASSUME TypeOK, RemovalInv, UNCHANGED <<rpc, dead, emptyCond, tracked>>,
         \/ rpc \in {"none", "flush"}
         \/ \A c \in Cmds : st'[c] = st[c] \/ st'[c] \in {"free", "rsp"},
         expired' \subseteq expired \/ "expire" \in Faults
  PROVE  RemovalInv'
BY DEF RemovalInv, Joined, WaitSeen, Idle, Drained, NoneLate

\* dev_removed keeps its order when the wait does not return early, and LIO
\* announces the removal only of a device whose commands have all ended.
LEMMA RemovalStep ==
    ASSUME "spurious" \notin Faults, "netlink" \notin Removals \/ "expire" \notin Faults
    PROVE  TypeOK /\ OwnInv /\ RemovalInv /\ [Next]_vars => RemovalInv'
<1> SUFFICES ASSUME TypeOK, OwnInv, RemovalInv, [Next]_vars PROVE RemovalInv'
  OBVIOUS
<1>1. ASSUME NEW c \in Cmds, KernelQueue(c) PROVE RemovalInv'
  <2>1. rpc \in {"none", "flush"}
    BY <1>1 DEF KernelQueue, TypeOK, RemovalInv, Idle, OwnInv
  <2>2. QED
    BY <1>1, <2>1, RemovalKept DEF KernelQueue, aioVars, procVars, thrVars, rmVars, TypeOK
<1>2. ASSUME NEW c \in Cmds, KernelExpire(c) PROVE RemovalInv'
  BY <1>2, RemovalKept DEF KernelExpire, aioVars, procVars, thrVars, rmVars, TypeOK
<1>3. CASE CpStart
  BY <1>3, RemovalKept DEF CpStart, cmdVars, aioVars, thrVars, rmVars, TypeOK
<1>4. CASE CpFetch
  <2>1. rpc \in {"none", "flush"}
    BY <1>4 DEF CpFetch, TypeOK, RemovalInv, Idle, OwnInv, RingOwned, HoldsOnce
  <2>2. QED
    BY <1>4, <2>1, RemovalKept DEF CpFetch, aioVars, thrVars, rmVars, TypeOK
<1>5. CASE CpFetchNone
  BY <1>5, RemovalKept DEF CpFetchNone, cmdVars, aioVars, thrVars, rmVars, TypeOK
<1>6. CASE CpHandleSync
  BY <1>6, RemovalKept DEF CpHandleSync, cmdVars, aioVars, thrVars, rmVars, TypeOK
<1>7. CASE CpTrackStart
  <2>1. rpc \in {"none", "flush"}
    BY <1>7 DEF CpTrackStart, TypeOK, RemovalInv, Idle, OwnInv, CjobOwned
  <2>2. RemovalInv'
    BY <1>7, <2>1 DEF CpTrackStart, thrVars, rmVars, TypeOK, RemovalInv, Joined, WaitSeen, Idle, Drained, NoneLate
  <2>3. QED
    BY <2>2
<1>8. CASE CpRefuse
  BY <1>8, RemovalKept DEF CpRefuse, cmdVars, aioVars, thrVars, rmVars, TypeOK
<1>9. CASE CpSchedule
  <2>1. rpc \in {"none", "flush"}
    BY <1>9 DEF CpSchedule, TypeOK, RemovalInv, Idle, OwnInv, CjobOwned
  <2>2. QED
    BY <1>9, <2>1, RemovalKept DEF CpSchedule, aioVars, rmVars, TypeOK
<1>10. CASE CpSubmit
  <2>1. rpc \in {"none", "flush"}
    BY <1>10 DEF CpSubmit, TypeOK, RemovalInv, Idle, OwnInv, CjobOwned
  <2>2. QED
    BY <1>10, <2>1, RemovalKept DEF CpSubmit, aioVars, thrVars, rmVars, TypeOK
<1>11. CASE CpUntrack
  <2>1. rpc \in {"none", "flush"}
    BY <1>11 DEF CpUntrack, TypeOK, RemovalInv, Idle, OwnInv, CjobOwned
  <2>2. RemovalInv'
    BY <1>11, <2>1 DEF CpUntrack, TrackFinish, thrVars, TypeOK, RemovalInv, Joined, WaitSeen, Idle, Drained, NoneLate
  <2>3. QED
    BY <2>2
<1>12. CASE CpComplete
  <2>1. rpc \in {"none", "flush"}
    BY <1>12 DEF CpComplete, TypeOK, RemovalInv, Idle, OwnInv, CjobOwned
  <2>2. QED
    BY <1>12, <2>1, RemovalKept DEF CpComplete, aioVars, thrVars, rmVars, TypeOK
<1>13. CASE CpKick
  BY <1>13, RemovalKept DEF CpKick, ProcessingComplete, aioVars, thrVars, rmVars, TypeOK
<1>14. CASE CpPoll
  BY <1>14, RemovalKept DEF CpPoll, cmdVars, aioVars, thrVars, rmVars, TypeOK
<1>15. CASE CpPollError
  BY <1>15, RemovalKept DEF CpPollError, cmdVars, aioVars, thrVars, rmVars, TypeOK
<1>16. ASSUME NEW t \in Workers, WorkerTake(t) PROVE RemovalInv'
  <2>1. rpc \in {"none", "flush"}
    BY <1>16 DEF WorkerTake, TypeOK, RemovalInv, Idle, OwnInv, QueueOwned, HoldsOnce
  <2>2. QED
    BY <1>16, <2>1, RemovalKept DEF WorkerTake, aioVars, procVars, rmVars, TypeOK
<1>17. ASSUME NEW t \in Workers, WorkerWait(t) PROVE RemovalInv'
  BY <1>17, RemovalKept DEF WorkerWait, cmdVars, aioVars, procVars, rmVars, TypeOK
<1>18. ASSUME NEW t \in Workers, WorkerSpurious(t) PROVE RemovalInv'
  BY <1>18, RemovalKept DEF WorkerSpurious, cmdVars, aioVars, procVars, rmVars, TypeOK
<1>19. ASSUME NEW t \in Workers, WorkerDone(t) PROVE RemovalInv'
  <2>1. rpc \in {"none", "flush"}
    BY <1>19 DEF WorkerDone, TypeOK, RemovalInv, Idle, OwnInv, JobOwned, Threads
  <2>2. QED
    BY <1>19, <2>1, RemovalKept DEF WorkerDone, aioVars, procVars, rmVars, TypeOK
<1>20. ASSUME NEW t \in Workers, WorkerSubmit(t) PROVE RemovalInv'
  <2>1. rpc \in {"none", "flush"}
    BY <1>20 DEF WorkerSubmit, TypeOK, RemovalInv, Idle, OwnInv, JobOwned, Threads
  <2>2. QED
    BY <1>20, <2>1, RemovalKept DEF WorkerSubmit, aioVars, procVars, rmVars, TypeOK
<1>21. ASSUME NEW t \in Callbacks, NEW c \in Cmds, CallbackDone(t, c) PROVE RemovalInv'
  <2>1. rpc \in {"none", "flush"}
    BY <1>21 DEF CallbackDone, TypeOK, RemovalInv, Idle, OwnInv
  <2>2. QED
    BY <1>21, <2>1, RemovalKept DEF CallbackDone, aioVars, procVars, rmVars, TypeOK
<1>22. ASSUME NEW t \in Threads, FinishComplete(t) PROVE RemovalInv'
  <2>1. rpc \in {"none", "flush"}
    BY <1>22 DEF FinishComplete, TypeOK, RemovalInv, Idle, OwnInv, JobOwned
  <2>2. QED
    BY <1>22, <2>1, RemovalKept DEF FinishComplete, aioVars, procVars, rmVars, TypeOK
<1>23. ASSUME NEW t \in Threads, FinishTrack(t) PROVE RemovalInv'
  <2>1. tracked > 0 /\ (rpc \notin {"none", "flush"} => tracked = Cardinality(Finishing))
    BY <1>23, FinishCounted, IdleCount DEF FinishTrack, Finishing, RemovalInv
  <2>2. QED
    BY <1>23, <2>1 DEF FinishTrack, TrackFinish, cmdVars, procVars, TypeOK, RemovalInv, Joined, WaitSeen, Idle, Drained, NoneLate
<1>24. ASSUME NEW t \in Threads, FinishKick(t) PROVE RemovalInv'
  BY <1>24, RemovalKept DEF FinishKick, ProcessingComplete, aioVars, procVars, rmVars, TypeOK
<1>25. ASSUME NEW t \in Threads, FinishWakeup(t) PROVE RemovalInv'
  BY <1>25, RemovalKept DEF FinishWakeup, cmdVars, procVars, rmVars, TypeOK
<1>26. ASSUME NEW t \in Workers, RmCancelWorker(t) PROVE RemovalInv'
  BY <1>26, ConstantsAssumption DEF RmCancelWorker, cmdVars, aioVars, procVars, rmVars, TypeOK, RemovalInv, Joined, WaitSeen, Idle, Drained, NoneLate
<1>27. CASE RemoveByNetlink
  BY <1>27, ConstantsAssumption DEF RemoveByNetlink, cmdVars, aioVars, procVars, thrVars, TypeOK, RemovalInv, Joined, WaitSeen, Idle, Drained, NoneLate
<1>28. CASE RemoveByShutdown
  BY <1>28, ConstantsAssumption DEF RemoveByShutdown, cmdVars, aioVars, procVars, thrVars, TypeOK, RemovalInv, Joined, WaitSeen, Idle, Drained, NoneLate
<1>29. CASE RmFlush
  BY <1>29, ConstantsAssumption DEF RmFlush, cmdVars, aioVars, procVars, thrVars, TypeOK, RemovalInv, Joined, WaitSeen, Idle, Drained, NoneLate
<1>30. CASE RmWorkersGone
  BY <1>30, ConstantsAssumption DEF RmWorkersGone, cmdVars, aioVars, procVars, thrVars, TypeOK, RemovalInv, Joined, WaitSeen, Idle, Drained, NoneLate
<1>31. CASE RmWaitEmpty
  BY <1>31, ConstantsAssumption DEF RmWaitEmpty, cmdVars, procVars, thrVars, TypeOK, RemovalInv, Joined, WaitSeen, Idle, Drained, NoneLate
<1>32. CASE RmSpurious
  BY <1>32, ConstantsAssumption DEF RmSpurious, cmdVars, aioVars, procVars, thrVars, TypeOK, RemovalInv, Joined, WaitSeen, Idle, Drained, NoneLate
<1>33. CASE RmWoken
  BY <1>33, ConstantsAssumption DEF RmWoken, cmdVars, procVars, thrVars, TypeOK, RemovalInv, Joined, WaitSeen, Idle, Drained, NoneLate
<1>34. CASE RmCancelCmdproc
  BY <1>34, ConstantsAssumption DEF RmCancelCmdproc, cmdVars, aioVars, thrVars, TypeOK, RemovalInv, Joined, WaitSeen, Idle, Drained, NoneLate
<1>35. CASE RmStopDevice
  BY <1>35, ConstantsAssumption DEF RmStopDevice, cmdVars, aioVars, procVars, thrVars, TypeOK, RemovalInv, Joined, WaitSeen, Idle, Drained, NoneLate
<1>36. CASE RmCleanup
  BY <1>36, ConstantsAssumption DEF RmCleanup, cmdVars, aioVars, procVars, thrVars, TypeOK, RemovalInv, Joined, WaitSeen, Idle, Drained, NoneLate
<1>37. CASE Terminated
  BY <1>37, RemovalKept DEF Terminated, vars, TypeOK
<1>38. CASE UNCHANGED vars
  BY <1>38, RemovalKept DEF vars, TypeOK
<1>39. QED
  <2>1. CASE CmdprocStep
    BY <2>1, <1>3, <1>4, <1>5, <1>6, <1>7, <1>8, <1>9, <1>10, <1>11, <1>12, <1>13, <1>14 DEF CmdprocStep
  <2>2. ASSUME NEW t \in Workers, WorkerStep(t) PROVE RemovalInv'
    BY <2>2, <1>16, <1>17, <1>19, <1>20 DEF WorkerStep
  <2>3. ASSUME NEW t \in Threads, FinishStep(t) PROVE RemovalInv'
    BY <2>3, <1>22, <1>23, <1>24, <1>25 DEF FinishStep
  <2>4. CASE RemoverStep
    BY <2>4, <1>29, <1>30, <1>31, <1>33, <1>34, <1>35, <1>36, <1>26 DEF RemoverStep
  <2>5. QED
    BY <2>1, <2>2, <2>3, <2>4, <1>38, <1>1, <1>2, <1>15, <1>18, <1>21, <1>27, <1>28, <1>32, <1>37 DEF Next


\* The workers are joined and every operation has finished before the handler is
\* closed and the tracking destroyed, for any number of threads and commands and
\* for both ways of removal.  The premises are what the order rests on: the wait
\* of aio_wait_for_empty_queue has no loop around it, and the netlink event must
\* not come for a device with a timed out command in a handler's hands.
THEOREM RemovalInOrder ==
    ASSUME "spurious" \notin Faults, "netlink" \notin Removals \/ "expire" \notin Faults
    PROVE  Spec => []RemovalOrderly
<1>1. Init => RemovalInv
  BY DEF Init, RemovalInv, Joined, WaitSeen, Idle, Drained, NoneLate
<1>2. RemovalInv => RemovalOrderly
  BY DEF RemovalInv, Joined, Drained, RemovalOrderly, WorkersStopped, TrackingEmptyAtCleanup
<1>3. Spec => []OwnInv
  BY OwnInit, OwnStep, TypeCorrect, PTL DEF Spec
<1>4. Spec => []RemovalInv
  BY <1>1, <1>3, RemovalStep, TypeCorrect, PTL DEF Spec
<1>5. QED
  BY <1>2, <1>4, PTL

=============================================================================
