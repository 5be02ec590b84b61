--------------------------- MODULE ExplicitFailover -------------------------
(***************************************************************************)
(* Explicit ALUA failover of an rbd image between nodes: SET and REPORT    *)
(* TARGET PORT GROUPS (alua.c) on top of the lock and tag of module        *)
(* RbdLock, with the reopening of a fenced device (tcmur_device.c) and the *)
(* recovery of a target port group that lost its connection (target.c).    *)
(*                                                                         *)
(* Each node has a command processor, which handles one command at a time  *)
(* and hands writes to librbd, librbd's threads, which complete them, and  *)
(* a recovery thread.  Implicit failover is the subject of DeviceState.    *)
(* The access states written to configfs are left out: RTPG works out all  *)
(* of them anew before it reports them.                                    *)
(***************************************************************************)
EXTENDS RbdLock, Sequences

CONSTANTS
    AccessTypes,    \* values of the kernel's alua_access_type to look at
    Supported,      \* the states the groups support
    Lists           \* parameter lists of STPG: functions of the node to sequences

\* A parameter list is a list of descriptors.
Descriptors == UNION {{list[n][i] : i \in DOMAIN list[n]} : list \in Lists, n \in Nodes}
ASSUME ListsAssumption == Lists \subseteq [Nodes -> Seq(Descriptors)]

VARIABLES
    type,       \* alua_access_type, for all groups
    lockState,  \* rdev->lock_state
    inRecovery, \* TCMUR_DEV_FLAG_IN_RECOVERY
    tpgEnabled, \* the port group accepts commands
    io,         \* the node has a write under way
    cp,         \* the command its command processor handles
    rec         \* its recovery thread

vars == <<rbdVars, type, lockState, inRecovery, tpgEnabled, io, cp, rec>>
devVars == <<type, lockState, inRecovery, tpgEnabled, io, rec>>

Idle == [pc |-> "idle", op |-> "none", todo |-> << >>, seen |-> NoTag, rc |-> "0", retried |-> FALSE,
         truth |-> "none"]
Call(op, pc, todo) == [Idle EXCEPT !.op = op, !.pc = pc, !.todo = todo]

At(n, pc) == cp[n].pc = pc
\* The handler is called for a device that is open; on a closed one, whose
\* state is freed, the daemon does not get further.
Calls(n, pc) == At(n, pc) /\ image[n] # NoClient
Goto(n, pc) == cp' = [cp EXCEPT ![n].pc = pc, ![n].seen = NoTag]
Got(n, pc, rc) == cp' = [cp EXCEPT ![n].pc = pc, ![n].rc = rc, ![n].seen = NoTag]
Saw(n, pc, what) == cp' = [cp EXCEPT ![n].pc = pc, ![n].seen = what]
Answer(n) == cp' = [cp EXCEPT ![n] = Idle]
Set(var, n, val) == [var EXCEPT ![n] = val]

-----------------------------------------------------------------------------
\* tcmu_get_alua_grp: the failover type it stores, "none" if it refuses the group.
FailoverType(t) ==
    CASE t = "None" -> "ALL_ACTIVE" [] t = "Implicit and Explicit" -> "EXPLICIT" [] OTHER -> "none"

\* rdev->failover_type, which dev_added and every INQUIRY, RTPG and STPG bring
\* up to date.  A group that is refused leaves it at zero.
Failover == IF FailoverType(type) = "none" THEN "ALL_ACTIVE" ELSE FailoverType(type)

Init ==
    /\ RbdInit
    /\ type \in AccessTypes
    /\ lockState = [n \in Nodes |-> "UNLOCKED"] /\ inRecovery = [n \in Nodes |-> FALSE]
    /\ tpgEnabled = [n \in Nodes |-> TRUE]
    /\ io = [n \in Nodes |-> FALSE] /\ cp = [n \in Nodes |-> Idle] /\ rec = [n \in Nodes |-> "idle"]

\* The kernel may hand the next command to the command processor, and
\* handle_try_passthrough does not refuse it.
Takes(n) == cp[n] = Idle /\ tpgEnabled[n] /\ ~inRecovery[n]

\* tcmu_add_dev_to_recovery_list, which needs the enabled port it recovers.
AddToRecoveryList(n) ==
    IF tpgEnabled[n] THEN inRecovery' = Set(inRecovery, n, TRUE) /\ rec' = Set(rec, n, "disable")
    ELSE UNCHANGED <<inRecovery, rec>>

\* tcmu_notify_conn_lost.
ConnLost(n) ==
    IF inRecovery[n] THEN UNCHANGED <<inRecovery, rec>> ELSE AddToRecoveryList(n)

-----------------------------------------------------------------------------
\* Writes.

\* Mutant: any node writes.
AluaCheckStateNot(n) == TRUE

\* alua_check_state.
AluaCheckState(n) == Failover = "EXPLICIT" => lockState[n] = "LOCKED"

\* tcmur_cmd_handler and tcmu_rbd_handle_cmd, up to the call into librbd.
IoStart(n) ==
    /\ Takes(n) /\ ~io[n] /\ AluaCheckState(n) /\ image[n] # NoClient
    /\ RbdSubmit(n) /\ io' = Set(io, n, TRUE)
    /\ UNCHANGED <<type, lockState, inRecovery, tpgEnabled, cp, rec>>

\* tcmu_rbd_handle_blacklisted_cmd: the lock is lost.
Blacklisted(n) ==
    /\ image[n] \in wire \cap black /\ lockState' = Set(lockState, n, "UNLOCKED")
    /\ UNCHANGED <<rbdVars, inRecovery, rec>>

\* tcmu_rbd_handle_timedout_cmd: librbd gave up, and the request may end up
\* "reaching it [the OSD] after the initiator's failover/recovery timeout".
Timedout(n) == "timeout" \in Faults /\ RbdGiveUp(n) /\ ConnLost(n) /\ UNCHANGED lockState

\* rbd_finish_aio_generic.
IoDone(n) ==
    /\ io[n] /\ io' = Set(io, n, FALSE)
    /\ \/ image[n] \notin wire /\ UNCHANGED <<rbdVars, lockState, inRecovery, rec>>
       \/ Blacklisted(n) \/ Timedout(n)
    /\ UNCHANGED <<type, tpgEnabled, cp>>

-----------------------------------------------------------------------------
\* SET TARGET PORT GROUPS.

\* handle_stpg: without a usable list of groups nothing is done.
StpgStart(n) ==
    /\ Takes(n) /\ FailoverType(type) # "none"
    /\ \E list \in Lists : cp' = Set(cp, n, Call("stpg", "next", list[n]))
    /\ UNCHANGED <<rbdVars, devVars>>

CheckSupState(state) == state \in Supported

\* tcmu_explicit_transition up to the lock.  tcmu_release_dev_lock leaves a
\* lock alone that is not held.
ExplicitTransition(n, state) ==
    CASE CheckSupState(state) /\ state = "OPTIMIZED" -> Goto(n, "await")
      [] CheckSupState(state) /\ state = "STANDBY" /\ lockState[n] = "LOCKED" -> Goto(n, "unlock")
      [] CheckSupState(state) /\ state = "STANDBY" /\ lockState[n] # "LOCKED" ->
           cp' = Set(cp, n, Call("stpg", "next", Tail(cp[n].todo)))
      [] OTHER -> Answer(n)

\* A round of tcmu_emulate_set_tgt_port_grps, which refuses groups other than
\* that of the enabled port.
StpgNext(n) ==
    /\ At(n, "next")
    /\ IF cp[n].todo = << >> \/ Head(cp[n].todo).group # n THEN Answer(n)
       ELSE ExplicitTransition(n, Head(cp[n].todo).state)
    /\ UNCHANGED <<rbdVars, devVars>>

\* tcmu_release_dev_lock: UNLOCKED whatever the handler says.
StpgUnlock(n) ==
    /\ Calls(n, "unlock") /\ \E rc \in Answers(n, "0") : RbdUnlock(n, rc)
    /\ lockState' = Set(lockState, n, "UNLOCKED")
    /\ cp' = Set(cp, n, Call("stpg", "next", Tail(cp[n].todo)))
    /\ UNCHANGED <<type, inRecovery, tpgEnabled, io, rec>>

\* tcmu_acquire_dev_lock waits for the writes under way.
LockWait(n) == At(n, "await") /\ ~io[n] /\ Goto(n, "has") /\ UNCHANGED <<rbdVars, devVars>>

\* The switch of tcmu_acquire_dev_lock on what rhandler->lock returned.
LockReturns(n, rc) ==
    CASE ToSts(rc) = "FENCED" -> Got(n, IF cp[n].retried THEN "lost" ELSE "reopen", "0")
      [] ToSts(rc) = "TIMEOUT" -> Got(n, "lost", "0")
      [] OTHER -> Got(n, "set", rc)

\* tcmu_rbd_lock, one request after the other.
LockHas(n) ==
    /\ Calls(n, "has")
    /\ \E rc \in HasLock(n) :
         CASE rc = "1" -> Goto(n, "tagowner") [] rc = "0" -> Goto(n, "owners")
           [] OTHER -> LockReturns(n, rc)
    /\ UNCHANGED <<rbdVars, devVars>>

LockOwners(n) ==
    /\ Calls(n, "owners")
    /\ \E rc \in GetOwners(n) :
         CASE rc = "0" -> Saw(n, "break", [tag |-> n, client |-> owner])
           [] rc = "ENOENT" -> Goto(n, "acquire")
           [] OTHER -> LockReturns(n, rc)
    /\ UNCHANGED <<rbdVars, devVars>>

LockBreaks(n) ==
    /\ Calls(n, "break")
    /\ \E rc \in {"0", "ENOENT", "EBUSY", "ESHUTDOWN", "ETIMEDOUT"} :
         /\ LockBreak(n, cp[n].seen.client, rc)
         /\ IF rc = "0" THEN Goto(n, "acquire") ELSE LockReturns(n, rc)
    /\ UNCHANGED devVars

LockAcquires(n) ==
    /\ Calls(n, "acquire")
    /\ \E rc \in {"0", "EROFS", "ESHUTDOWN", "ETIMEDOUT"} :
         /\ LockAcquire(n, rc)
         /\ IF rc = "0" THEN Goto(n, "tagowner") ELSE LockReturns(n, rc)
    /\ UNCHANGED devVars

\* tcmu_rbd_set_lock_tag
LockTagOwner(n) ==
    /\ Calls(n, "tagowner")
    /\ \E rc \in GetOwners(n) :
         IF rc = "0" THEN Saw(n, "tagset", [tag |-> n, client |-> owner]) ELSE LockReturns(n, rc)
    /\ UNCHANGED <<rbdVars, devVars>>

LockTagSet(n) ==
    /\ Calls(n, "tagset")
    /\ \E rc \in Answers(n, "0") :
         MetadataSet(n, n, cp[n].seen.client, rc) /\ LockReturns(n, rc)
    /\ UNCHANGED devVars

\* Mutant: whatever rhandler->lock returned, the device is locked.
LockSetAlways(n) ==
    /\ At(n, "set") /\ lockState' = Set(lockState, n, "LOCKED") /\ Answer(n)
    /\ UNCHANGED <<rbdVars, type, inRecovery, tpgEnabled, io, rec>>

\* The end of tcmu_acquire_dev_lock; STPG goes on if the lock was taken.
LockSet(n) ==
    /\ At(n, "set")
    /\ IF cp[n].rc = "0"
       THEN /\ lockState' = Set(lockState, n, "LOCKED")
            /\ cp' = Set(cp, n, Call("stpg", "next", Tail(cp[n].todo)))
       ELSE lockState' = Set(lockState, n, "UNLOCKED") /\ Answer(n)
    /\ UNCHANGED <<rbdVars, type, inRecovery, tpgEnabled, io, rec>>

-----------------------------------------------------------------------------
\* A reopen by the command processor, for STPG and RTPG.

\* tcmu_reopen_dev: not while the recovery thread has the device.
Reopen(n) ==
    /\ At(n, "reopen")
    /\ IF inRecovery[n] THEN Goto(n, "lost") /\ UNCHANGED inRecovery
       ELSE Goto(n, "close") /\ inRecovery' = Set(inRecovery, n, TRUE)
    /\ UNCHANGED <<rbdVars, type, lockState, tpgEnabled, io, rec>>

\* __tcmu_reopen_dev up to rhandler->close.
ReopenClose(n) ==
    /\ Calls(n, "close") /\ ~io[n] /\ RbdClose(n) /\ Goto(n, "open")
    /\ lockState' = Set(lockState, n, "UNLOCKED")
    /\ UNCHANGED <<type, inRecovery, tpgEnabled, io, rec>>

\* One attempt to open, and what the caller makes of it.
ReopenOpen(n) ==
    /\ At(n, "open")
    /\ inRecovery' = Set(inRecovery, n, FALSE)
    /\ \E ok \in BOOLEAN :
         /\ RbdOpen(n, ok)
         /\ IF ok /\ ~cp[n].retried
            THEN cp' = [cp EXCEPT ![n].pc = IF cp[n].op = "stpg" THEN "has" ELSE "meta",
                                  ![n].retried = TRUE]
            ELSE Goto(n, "lost")
    /\ UNCHANGED <<type, lockState, tpgEnabled, io, rec>>

\* tcmu_notify_conn_lost by the command processor.
Lost(n) ==
    /\ At(n, "lost") /\ ConnLost(n)
    /\ IF cp[n].op = "stpg" THEN Got(n, "set", "EIO") ELSE Answer(n)
    /\ UNCHANGED <<rbdVars, type, lockState, tpgEnabled, io>>

-----------------------------------------------------------------------------
\* REPORT TARGET PORT GROUPS.

\* handle_rtpg; alua_sync_state does nothing unless failover is explicit.
RtpgStart(n) ==
    /\ Takes(n) /\ Failover = "EXPLICIT" /\ cp' = Set(cp, n, Call("rtpg", "meta", << >>))
    /\ UNCHANGED <<rbdVars, devVars>>

\* The switch of tcmu_get_lock_tag.
TagReturns(n, rc) ==
    CASE ToSts(rc) = "OK" ->
           cp' = [cp EXCEPT ![n].pc = "sync", ![n].rc = rc, ![n].truth = owner.node]
      [] ToSts(rc) = "NO_LOCK_HOLDERS" -> Got(n, "sync", rc)
      [] ToSts(rc) = "FENCED" -> Goto(n, "reopen")
      [] OTHER -> Goto(n, "lost")

\* tcmu_rbd_get_lock_tag
RtpgMeta(n) ==
    /\ Calls(n, "meta")
    /\ \E rc \in MetadataGet(n) : IF rc = "0" THEN Saw(n, "tagread", tag) ELSE TagReturns(n, rc)
    /\ UNCHANGED <<rbdVars, devVars>>

RtpgOwner(n) ==
    /\ Calls(n, "tagread")
    /\ \E rc \in Answers(n, TagOfOwner(cp[n].seen)) : TagReturns(n, rc)
    /\ UNCHANGED <<rbdVars, devVars>>

\* The groups alua_sync_state makes active.
Active(n) == IF cp[n].rc = "0" THEN {cp[n].seen.tag} ELSE {}

\* alua_sync_state: the group of the tag is active, and a node whose group is
\* not drops its lock.
RtpgSync(n) ==
    /\ At(n, "sync")
    /\ lockState' = Set(lockState, n, IF n \in Active(n) THEN lockState[n] ELSE "UNLOCKED")
    /\ cp' = [cp EXCEPT ![n].pc = "report"]
    /\ UNCHANGED <<rbdVars, type, inRecovery, tpgEnabled, io, rec>>

\* The states are reported.
RtpgReport(n) == At(n, "report") /\ Answer(n) /\ UNCHANGED <<rbdVars, devVars>>

-----------------------------------------------------------------------------
\* The recovery thread, tgt_port_grp_recovery_thread_fn.

\* Disabling the group waits for its commands (module DeviceState also has it
\* fail).
RecDisable(n) ==
    /\ rec[n] = "disable" /\ cp[n] = Idle /\ ~io[n]
    /\ tpgEnabled' = Set(tpgEnabled, n, FALSE) /\ rec' = Set(rec, n, "close")
    /\ UNCHANGED <<rbdVars, type, lockState, inRecovery, io, cp>>

\* __tcmu_reopen_dev.  If the command processor failed to open the device, its
\* state was freed and rhandler->close ends the daemon.
RecClose(n) ==
    /\ rec[n] = "close" /\ ~io[n] /\ image[n] # NoClient /\ RbdClose(n)
    /\ lockState' = Set(lockState, n, "UNLOCKED") /\ rec' = Set(rec, n, "open")
    /\ UNCHANGED <<type, inRecovery, tpgEnabled, io, cp>>

RecOpen(n) ==
    /\ rec[n] = "open"
    /\ \E ok \in BOOLEAN :
         /\ RbdOpen(n, ok)
         /\ rec' = Set(rec, n, IF ok THEN "enable" ELSE "open")
         /\ inRecovery' = Set(inRecovery, n, ~ok)
    /\ UNCHANGED <<type, lockState, tpgEnabled, io, cp>>

RecEnable(n) ==
    /\ rec[n] = "enable" /\ rec' = Set(rec, n, "idle") /\ tpgEnabled' = Set(tpgEnabled, n, TRUE)
    /\ UNCHANGED <<rbdVars, type, lockState, inRecovery, io, cp>>

\* The daemon ends and is started again (dev_added): the writes it has handed
\* over stay under way, and its lock stays with the old client.  The group is
\* as the recovery thread left it, until somebody enables it.
Restart(n) ==
    /\ "crash" \in Faults /\ RbdOpen(n, TRUE)
    /\ lockState' = Set(lockState, n, "UNLOCKED") /\ inRecovery' = Set(inRecovery, n, FALSE)
    /\ rec' = Set(rec, n, "idle") /\ tpgEnabled' = Set(tpgEnabled, n, TRUE)
    /\ io' = Set(io, n, FALSE) /\ cp' = Set(cp, n, Idle)
    /\ UNCHANGED type

-----------------------------------------------------------------------------
CmdprocStep(n) ==
    \/ StpgNext(n) \/ StpgUnlock(n) \/ LockWait(n) \/ LockHas(n) \/ LockOwners(n)
    \/ LockBreaks(n) \/ LockAcquires(n) \/ LockTagOwner(n) \/ LockTagSet(n) \/ LockSet(n)
    \/ Reopen(n) \/ ReopenClose(n) \/ ReopenOpen(n) \/ Lost(n)
    \/ RtpgMeta(n) \/ RtpgOwner(n) \/ RtpgSync(n) \/ RtpgReport(n)

Next ==
    \/ \E n \in Nodes :
         \/ IoStart(n) \/ IoDone(n) \/ StpgStart(n) \/ RtpgStart(n) \/ CmdprocStep(n)
         \/ RecDisable(n) \/ RecClose(n) \/ RecOpen(n) \/ RecEnable(n) \/ Restart(n)
    \/ \E c \in wire : WriteLands(c) /\ UNCHANGED <<devVars, cp>>
    \/ \E c \in late : LateWriteLands(c) /\ UNCHANGED <<devVars, cp>>

Spec == Init /\ [][Next]_vars

-----------------------------------------------------------------------------
\* Properties.

\* The values of the state: all that reaches the cluster comes from a client of a node.
TypeOK ==
    /\ image \in [Nodes -> Clients \cup {NoClient}] /\ conns \in [Nodes -> 1 .. MaxConn]
    /\ owner \in Clients \cup {NoClient} /\ black \subseteq Clients /\ wire \subseteq Clients
    /\ late \subseteq Clients /\ left \subseteq Clients
    /\ tag \in {NoTag} \cup [tag : Nodes, client : Clients]
    /\ \A n \in Nodes :
         /\ lockState[n] \in {"UNLOCKED", "LOCKED"}
         /\ inRecovery[n] \in BOOLEAN /\ tpgEnabled[n] \in BOOLEAN /\ io[n] \in BOOLEAN
         /\ rec[n] \in {"idle", "disable", "close", "open", "enable"}
         /\ cp[n].seen \in {NoTag} \cup [tag : Nodes, client : Clients]
         /\ cp[n].truth \in Nodes \cup {"none"} /\ cp[n].retried \in BOOLEAN

\* A node that takes writes holds the image's lock or is blacklisted already,
\* whatever the other nodes, recoveries and restarts did to the lock since: the
\* lock state of a node never outlives its client.
LockedOwnsOrFenced ==
    /\ TypeOK
    /\ \A n \in Nodes : lockState[n] = "LOCKED" => image[n] \in {owner} \cup black

\* "We cannot take the lock and set the tag atomically" (tcmu_rbd_set_lock_tag):
\* a REPORT TARGET PORT GROUPS that is answered reports a group as active only
\* if that group's node held the lock when it was looked at, and if that is not
\* the node itself, the node takes no more writes.
ReportsTruth ==
    \A n \in Nodes : At(n, "report") =>
        /\ Active(n) \subseteq {cp[n].truth}
        /\ n \notin Active(n) => lockState[n] # "LOCKED"

\* "We will just disable the iscsi port, and let the initiator switch paths which
\* will result in us getting blacklisted" (tcmu_rbd_handle_timedout_cmd): a write
\* that the cluster may still carry out is that of the client with the lock, or
\* nobody has it: no write of a node that was cut off, restarted or told to stand
\* by gets through once another node has the lock.  The exception are writes that
\* librbd had given up when their own node gave the lock back, in a recovery or
\* for STANDBY: nobody has to break that lock, and so nobody blacklists them.
NoStaleWrite ==
    Failover = "EXPLICIT" =>
        /\ \A c \in wire \ black : owner \in {c, NoClient}
        /\ \A c \in late \ black : owner \in {c, NoClient} \/ c \in left
=============================================================================
