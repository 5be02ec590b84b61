------------------------------- MODULE RbdLock ------------------------------
(***************************************************************************)
(* The exclusive lock of an rbd image that several nodes export, and the   *)
(* tag beside it (rbd.c): every node opens the image with a client of its  *)
(* own, the lock belongs to a client, and a client whose lock is broken is *)
(* blacklisted, which is what keeps its late writes out.                   *)
(*                                                                         *)
(* The lock and the tag are two objects in the cluster: each call below is *)
(* one request to it, and those of another node come in between.           *)
(***************************************************************************)
EXTENDS Naturals, FiniteSets

CONSTANTS
    Nodes,      \* the nodes; each has one target port group, its tag
    MaxConn,    \* bound on the clients of a node
    Faults      \* subset of {"timeout", "openfail", "crash"}

ASSUME RbdAssumption == MaxConn \in Nat \ {0} /\ Faults \subseteq {"timeout", "openfail", "crash"}

NoClient == [node |-> "none", nr |-> 0]
Clients == [node : Nodes, nr : 1 .. MaxConn]
NoTag == [tag |-> "none", client |-> NoClient]

VARIABLES
    image,      \* state->image of each node: its client, or NoClient
    conns,      \* clients each node has had
    owner,      \* the client that holds the lock
    black,      \* blacklisted clients
    tag,        \* the metadata TCMU_RBD_LOCKER_TAG_KEY
    wire,       \* clients with a write under way in the cluster
    late,       \* clients with writes that librbd gave up and that may still reach an OSD
    left        \* history: those of them that gave the lock back with such a write about

rbdVars == <<image, conns, owner, black, tag, wire, late, left>>
clusterVars == <<owner, black, tag, wire, late, left>>

RbdInit ==
    /\ image = [n \in Nodes |-> [node |-> n, nr |-> 1]] /\ conns = [n \in Nodes |-> 1]
    /\ owner = NoClient /\ black = {} /\ tag = NoTag /\ wire = {} /\ late = {} /\ left = {}

-----------------------------------------------------------------------------
\* tcmu_rbd_to_sts.
ToSts(rc) ==
    CASE rc = "0" -> "OK" [] rc = "ESHUTDOWN" -> "FENCED" [] rc = "ENOENT" -> "NO_LOCK_HOLDERS"
      [] rc = "ETIMEDOUT" -> "TIMEOUT" [] OTHER -> "HW_ERR"

\* What a request of node n that the cluster would answer with rc can come to.
\* A request that times out may or may not have been carried out.
Answers(n, rc) ==
    (IF image[n] \in black THEN {"ESHUTDOWN"} ELSE {rc})
      \cup (IF "timeout" \in Faults THEN {"ETIMEDOUT"} ELSE {})
Done(n, rc, effect, unchanged) ==
    IF image[n] \in black THEN unchanged
    ELSE IF rc = "ETIMEDOUT" THEN effect \/ unchanged ELSE effect

\* tcmu_rbd_image_open and tcmu_rbd_open: a new client, or none.
RbdOpen(n, ok) ==
    /\ IF ok THEN conns[n] < MaxConn /\ conns' = [conns EXCEPT ![n] = @ + 1]
             ELSE "openfail" \in Faults /\ UNCHANGED conns
    /\ image' = [image EXCEPT ![n] = IF ok THEN [node |-> n, nr |-> conns'[n]] ELSE NoClient]
    /\ UNCHANGED clusterVars

\* The lock is given back, whatever became of the writes librbd gave up.
GaveBack(n) == left' = IF owner' = owner THEN left ELSE left \cup (late \cap {image[n]})

\* tcmu_rbd_image_close: librbd gives the lock back if it can.
RbdClose(n) ==
    /\ owner' \in {owner} \cup (IF owner = image[n] /\ owner \notin black THEN {NoClient} ELSE {})
    /\ owner' = owner => owner # image[n] \/ owner \in black \/ "timeout" \in Faults
    /\ image' = [image EXCEPT ![n] = NoClient] /\ GaveBack(n)
    /\ UNCHANGED <<conns, black, tag, wire, late>>

\* tcmu_rbd_has_lock: "1", "0" or an error.
HasLock(n) == Answers(n, IF owner = image[n] THEN "1" ELSE "0")

\* rbd_lock_get_owners, as tcmu_rbd_lock_break, tcmu_rbd_set_lock_tag and
\* tcmu_rbd_get_lock_tag use it.
GetOwners(n) == Answers(n, IF owner = NoClient THEN "ENOENT" ELSE "0")

\* rbd_lock_break of the owner seen before.
LockBreak(n, seen, rc) ==
    /\ rc \in Answers(n, IF owner = seen THEN "0" ELSE IF owner = NoClient THEN "ENOENT" ELSE "EBUSY")
    /\ LET broken == owner' = NoClient /\ black' = black \cup {seen}
           not == UNCHANGED <<owner, black>>
       IN Done(n, rc, IF owner = seen THEN broken ELSE not, not)
    /\ UNCHANGED <<image, conns, tag, wire, late, left>>

\* rbd_lock_acquire: a lock that somebody else holds is not asked for.
LockAcquire(n, rc) ==
    /\ rc \in Answers(n, IF owner \in {NoClient, image[n]} THEN "0" ELSE "EROFS")
    /\ LET mine == owner' = image[n] not == UNCHANGED owner
       IN Done(n, rc, IF owner \in {NoClient, image[n]} THEN mine ELSE not, not)
    /\ UNCHANGED <<image, conns, black, tag, wire, late, left>>

\* rbd_metadata_set in tcmu_rbd_set_lock_tag: the tag with the owner seen before.
MetadataSet(n, group, seen, rc) ==
    /\ rc \in Answers(n, "0")
    /\ LET set == tag' = [tag |-> group, client |-> seen] IN Done(n, rc, set, UNCHANGED tag)
    /\ UNCHANGED <<image, conns, owner, black, wire, late, left>>

\* rbd_metadata_get in tcmu_rbd_get_lock_tag.
MetadataGet(n) == Answers(n, IF tag = NoTag THEN "ENOENT" ELSE "0")

\* Mutant: the tag is believed whoever holds the lock.
TagOfOwnerAny(seen) == IF owner = NoClient THEN "ENOENT" ELSE "0"

\* The rest of tcmu_rbd_get_lock_tag: a tag that another client left is no tag.
TagOfOwner(seen) ==
    IF owner = NoClient \/ seen.client # owner THEN "ENOENT" ELSE "0"

\* tcmu_rbd_unlock: only an owner releases, and librbd then waits for the writes
\* it has not given up.
RbdUnlock(n, rc) ==
    /\ image[n] \notin wire
    /\ rc \in Answers(n, "0")
    /\ LET free == owner' = NoClient
       IN IF owner = image[n] THEN Done(n, rc, free, UNCHANGED owner) ELSE UNCHANGED owner
    /\ GaveBack(n)
    /\ UNCHANGED <<image, conns, black, tag, wire, late>>

\* tcmu_rbd_aio_write and its kin hand a request to librbd.
RbdSubmit(n) ==
    wire' = wire \cup {image[n]} /\ UNCHANGED <<image, conns, owner, black, tag, late, left>>

\* librbd gives the node's write up (ETIMEDOUT); it was carried out, or may be yet.
RbdGiveUp(n) ==
    /\ wire' = wire \ {image[n]} /\ late' = late \cup (wire \cap {image[n]})
    /\ UNCHANGED <<image, conns, owner, black, tag, left>>

\* The cluster carries a write out, if its client is not blacklisted.
WriteLands(c) ==
    /\ c \in wire \ black /\ wire' = wire \ {c}
    /\ UNCHANGED <<image, conns, owner, black, tag, late, left>>

\* So it does with those that were given up, and this may be the last of them.
LateWriteLands(c) ==
    /\ c \in late \ black /\ late' = late \ {c} /\ left' = left \ {c}
    /\ UNCHANGED <<image, conns, owner, black, tag, wire>>
=============================================================================
