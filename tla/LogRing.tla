------------------------------- MODULE LogRing ------------------------------
(***************************************************************************)
(* The log buffer of libtcmu_log.c: threads that log put messages into a   *)
(* ring under logbuf->lock and never block; one log thread takes them out  *)
(* and hands them to syslog outside the lock.  When the ring is full the   *)
(* oldest message is dropped.  One condition variable serves two purposes: *)
(* tcmu_setup_log waits on it for the thread to have started, and the      *)
(* thread waits on it for messages.                                        *)
(*                                                                         *)
(* A message is its number in the order of logging.  Messages below the    *)
(* log level, and those logged before finish_initialize is set (they go to *)
(* stderr), never reach the ring and are left out; so are the outputs that *)
(* bypass it.                                                              *)
(***************************************************************************)
EXTENDS Naturals, Sequences, FiniteSets

CONSTANTS
    LogEntrys,  \* LOG_ENTRYS
    MaxLogged   \* bound on the messages logged

ASSUME LogAssumption == LogEntrys \in Nat /\ LogEntrys > 1 /\ MaxLogged \in Nat

VARIABLES
    buf, head, tail,    \* the ring
    active,             \* thread_active
    initialized,        \* finish_initialize
    tpc,                \* the log thread
    hand,               \* the message it has copied out of the ring, or 0
    mpc,                \* the main thread: tcmu_setup_log, tcmu_destroy_log
    logged,             \* messages logged so far
    sent,               \* what syslog was given
    dropped             \* messages that gave way in a full ring

logVars == <<buf, head, tail, active, initialized, tpc, hand, mpc, logged, sent, dropped>>
ringVars == <<buf, head, tail>>
histVars == <<logged, sent, dropped>>

Slots == 0 .. LogEntrys - 1
Used == (head + LogEntrys - tail) % LogEntrys

LogInit ==
    /\ buf = [s \in Slots |-> 0] /\ head = 0 /\ tail = 0
    /\ active = FALSE /\ initialized = FALSE
    /\ tpc = "none" /\ hand = 0 /\ mpc = "create"
    /\ logged = 0 /\ sent = <<>> /\ dropped = {}

-----------------------------------------------------------------------------
RbIsEmpty == tail = head
RbIsFull  == tail = (head + 1) % LogEntrys

RbNext(i) == (i + 1) % LogEntrys

\* "when the ring buffer is full, the oldest log will be dropped"
RbUpdateHead ==
    /\ head' = RbNext(head)
    /\ IF RbIsFull THEN tail' = RbNext(tail) /\ dropped' = dropped \cup {buf[tail]}
       ELSE UNCHANGED <<tail, dropped>>

\* log_internal, in any thread, once the buffer is up.  The log thread is
\* signalled when it does not say it is active.
Log ==
    /\ mpc = "up" /\ logged < MaxLogged
    /\ logged' = logged + 1 /\ buf' = [buf EXCEPT ![head] = logged']
    /\ RbUpdateHead
    /\ tpc' = IF ~active /\ tpc = "wait" THEN "woken" ELSE tpc
    /\ UNCHANGED <<active, initialized, hand, mpc, sent>>

-----------------------------------------------------------------------------
(* The log thread.                                                         *)

\* Mutant: nobody tells tcmu_setup_log that the thread has started.
ThreadStartSilent ==
    /\ tpc = "start" /\ initialized' = TRUE /\ tpc' = "top"
    /\ UNCHANGED <<ringVars, active, hand, mpc, histVars>>

ThreadStart ==
    /\ tpc = "start" /\ initialized' = TRUE /\ tpc' = "top"
    /\ mpc' = IF mpc = "wait" THEN "test" ELSE mpc
    /\ UNCHANGED <<ringVars, active, hand, histVars>>

\* The wait is entered whether or not there are messages.
ThreadWait ==
    /\ tpc = "top" /\ tpc' = "wait" /\ active' = FALSE
    /\ UNCHANGED <<ringVars, initialized, hand, mpc, histVars>>

ThreadSpurious ==
    /\ tpc = "wait" /\ tpc' = "woken"
    /\ UNCHANGED <<ringVars, active, initialized, hand, mpc, histVars>>

ThreadWoken ==
    /\ tpc = "woken" /\ tpc' = "drain" /\ active' = TRUE
    /\ UNCHANGED <<ringVars, initialized, hand, mpc, histVars>>

\* log_buf_not_empty_output, the part under the lock.
DrainEmpty ==
    /\ tpc = "drain" /\ RbIsEmpty /\ tpc' = "top"
    /\ UNCHANGED <<ringVars, active, initialized, hand, mpc, histVars>>

\* Mutant: the slot is released after the output, not before.
DrainTakeKeepsSlot ==
    /\ tpc = "drain" /\ ~RbIsEmpty /\ tpc' = "output"
    /\ hand' = buf[tail]
    /\ UNCHANGED <<ringVars, active, initialized, mpc, histVars>>

DrainTake ==
    /\ tpc = "drain" /\ ~RbIsEmpty /\ tpc' = "output"
    /\ hand' = buf[tail] /\ tail' = RbNext(tail)
    /\ UNCHANGED <<buf, head, active, initialized, mpc, histVars>>

\* log_output, which may block for long: outside the lock.
DrainOutput ==
    /\ tpc = "output" /\ tpc' = "drain"
    /\ sent' = Append(sent, hand) /\ hand' = 0
    /\ UNCHANGED <<ringVars, active, initialized, mpc, logged, dropped>>

-----------------------------------------------------------------------------
(* The main thread.                                                        *)

\* pthread_create in tcmu_setup_log; without the thread the daemon ends.
SetupCreate ==
    /\ mpc = "create"
    /\ \/ mpc' = "test" /\ tpc' = "start"
       \/ mpc' = "failed" /\ UNCHANGED tpc
    /\ UNCHANGED <<ringVars, active, initialized, hand, histVars>>

SetupTest ==
    /\ mpc = "test" /\ mpc' = IF initialized THEN "up" ELSE "wait"
    /\ UNCHANGED <<ringVars, active, initialized, tpc, hand, histVars>>

\* tcmu_destroy_log: the thread ends in its wait or in an output, and frees
\* the buffer with whatever is still in it.
Destroy ==
    /\ mpc = "up" /\ tpc \in {"wait", "output"}
    /\ mpc' = "down" /\ tpc' = "gone"
    /\ UNCHANGED <<ringVars, active, initialized, hand, histVars>>

Quiet ==
    /\ mpc \in {"down", "failed"} \/ (tpc = "wait" /\ logged = MaxLogged)
    /\ UNCHANGED logVars

ThreadStep == ThreadStart \/ ThreadWait \/ ThreadWoken \/ DrainEmpty \/ DrainTake \/ DrainOutput

LogNext ==
    \/ Log \/ ThreadStep \/ ThreadSpurious
    \/ SetupCreate \/ SetupTest \/ Destroy \/ Quiet

LogSpec == LogInit /\ [][LogNext]_logVars

\* Both threads run; a condition wait need not return early.
FairSpec == LogSpec /\ WF_logVars(ThreadStep) /\ WF_logVars(SetupTest)

-----------------------------------------------------------------------------
(* Properties.                                                             *)

LogTypeOK ==
    /\ buf \in [Slots -> 0 .. MaxLogged] /\ head \in Slots /\ tail \in Slots
    /\ active \in BOOLEAN /\ initialized \in BOOLEAN
    /\ tpc \in {"none", "start", "top", "wait", "woken", "drain", "output", "gone"}
    /\ hand \in 0 .. MaxLogged
    /\ mpc \in {"create", "test", "wait", "up", "down", "failed"}
    /\ logged \in 0 .. MaxLogged /\ sent \in Seq(1 .. MaxLogged) /\ dropped \subseteq 1 .. MaxLogged

\* Every message is in exactly one place: sent, copied out by the log thread,
\* in the ring, or dropped from a full ring; head meeting tail loses none.
EveryMessageAccounted ==
    Len(sent) + (IF hand = 0 THEN 0 ELSE 1) + Used + Cardinality(dropped) = logged

\* syslog gets the messages in the order they were logged, none twice, although
\* the ring moves on while the log thread is inside an output.
SentInOrder == \A i, j \in DOMAIN sent : i < j => sent[i] < sent[j]

\* Nothing is lost but from a full ring, and nothing is sent twice or late.
LogFaithful == LogTypeOK /\ EveryMessageAccounted /\ SentInOrder

\* tcmu_setup_log returns: the signal for the start of the thread, on the
\* condition variable the thread itself will wait on, is not lost.
SetupEnds == (mpc \in {"test", "wait"}) ~> (mpc = "up")

=============================================================================
