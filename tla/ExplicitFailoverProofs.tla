----------------------- MODULE ExplicitFailoverProofs -----------------------
(***************************************************************************)
(* Invariance proofs for ExplicitFailover and RbdLock, for any number of   *)
(* nodes and clients, every fault and all parameter lists: fencing keeps   *)
(* the late writes of a node out, and RTPG reports the truth.              *)
(***************************************************************************)
EXTENDS ExplicitFailover, TLAPS

-----------------------------------------------------------------------------
(* The inductive invariant.                                                *)

CpPCs == {"idle", "next", "unlock", "await", "has", "owners", "break", "acquire", "tagowner", "tagset",
          "set", "reopen", "close", "open", "lost", "meta", "tagread", "sync", "report"}
Rcs == {"0", "1", "ENOENT", "EBUSY", "EROFS", "EIO", "ESHUTDOWN", "ETIMEDOUT"}
Tags == [tag : Nodes, client : Clients]
CmdRecords ==
    [pc : CpPCs, op : {"none", "stpg", "rtpg"}, todo : Seq(Descriptors), seen : {NoTag} \cup Tags,
     rc : Rcs, retried : BOOLEAN, truth : Nodes \cup {"none"}]

\* The types of the variables.
Types ==
    /\ image \in [Nodes -> Clients \cup {NoClient}] /\ conns \in [Nodes -> 1 .. MaxConn]
    /\ owner \in Clients \cup {NoClient} /\ black \subseteq Clients /\ wire \subseteq Clients
    /\ tag \in {NoTag} \cup Tags
    /\ lockState \in [Nodes -> {"UNLOCKED", "LOCKED"}]
    /\ inRecovery \in [Nodes -> BOOLEAN] /\ tpgEnabled \in [Nodes -> BOOLEAN] /\ io \in [Nodes -> BOOLEAN]
    /\ rec \in [Nodes -> {"idle", "disable", "close", "open", "enable"}]
    /\ cp \in [Nodes -> CmdRecords]

\* A node's client is its own, and the cluster knows no client of the future.
ClientInv ==
    /\ \A n \in Nodes : image[n] # NoClient => image[n].node = n /\ image[n].nr <= conns[n]
    /\ \A c \in wire : c.nr <= conns[c.node]

\* A write the cluster may still carry out is known to its node, as long as it
\* has that client, and in explicit failover is the owner's.
WireInv ==
    /\ \A n \in Nodes : image[n] \in wire \ black => io[n]
    /\ Failover = "EXPLICIT" => \A c \in wire \ black : owner = c

\* So is a write that librbd gave up, unless its client gave the lock back then.
LateInv ==
    /\ late \subseteq Clients /\ left \subseteq Clients
    /\ Failover = "EXPLICIT" => \A c \in late \ black : owner = c \/ c \in left

\* Who has been told that it has the lock owns it, or is fenced.
Owns(n) == image[n] # NoClient /\ image[n] \in {owner} \cup black

\* A tag names the node of the client it goes with.
Honest(t) == t.tag = t.client.node

\* What a node's command processor may rely on at each place: a device it opens
\* is closed, a lock it was given is its own, a tag it has read is honest, and
\* what it is about to report was true.
CmdInv(n) ==
    /\ At(n, "open") => image[n] = NoClient
    /\ At(n, "tagowner") \/ At(n, "tagset") \/ (At(n, "set") /\ cp[n].rc = "0") => Owns(n)
    /\ At(n, "break") \/ At(n, "tagset") => cp[n].seen \in Tags
    /\ At(n, "tagset") => cp[n].seen.tag = n
    /\ cp[n].pc \in {"tagset", "tagread", "sync", "report"} => Honest(cp[n].seen)
    /\ cp[n].pc \in {"sync", "report"} /\ cp[n].rc = "0" => cp[n].seen.tag = cp[n].truth
    /\ At(n, "report") /\ n \notin Active(n) => lockState[n] # "LOCKED"

\* Within a round of STPG there is a descriptor to serve.
StpgPlaces == {"next", "unlock", "await", "has", "owners", "break", "acquire", "tagowner", "tagset", "set"}
StpgInv(n) ==
    /\ cp[n].pc \in StpgPlaces => cp[n].op = "stpg"
    /\ cp[n].op = "stpg" /\ cp[n].pc # "next" => cp[n].todo # << >>

\* The recovery thread has the command processor stopped and the group disabled,
\* a device it opens is closed, and LOCKED stands for the lock.
DevInv(n) ==
    /\ rec[n] \in {"close", "open", "enable"} => cp[n] = Idle /\ ~tpgEnabled[n]
    /\ rec[n] = "open" => image[n] = NoClient
    /\ lockState[n] = "LOCKED" => Owns(n)

FailoverInv ==
    /\ Types /\ ClientInv /\ WireInv /\ Honest(tag)
    /\ \A n \in Nodes : CmdInv(n) /\ StpgInv(n) /\ DevInv(n)

-----------------------------------------------------------------------------
(* What the steps of a command processor do to its record.                 *)

\* Node n's command processor moves, and no other.
Moves(n) == cp' \in [Nodes -> CmdRecords] /\ \A m \in Nodes \ {n} : cp'[m] = cp[m]

\* It stays with its command and what that has left to do.
Carries(n) == cp'[n].op = cp[n].op /\ cp'[n].todo = cp[n].todo

\* Places of a command processor that say nothing of the lock or the tag.
Plain == CpPCs \ {"break", "tagowner", "tagset", "set", "open", "tagread", "sync", "report"}

\* The absence of a client is no client.
LEMMA NoClientApart == NoClient \notin Clients
  BY DEF NoClient, Clients

\* The record of a command processor that has no command.
LEMMA IdleRecord == Idle \in CmdRecords /\ Idle.pc = "idle" /\ Idle.op = "none"
  BY DEF Idle, CmdRecords, CpPCs, Rcs, NoTag

\* The record of a command processor that begins one.
LEMMA CallRecord ==
    ASSUME NEW q \in CpPCs, NEW o \in {"stpg", "rtpg"}, NEW t \in Seq(Descriptors)
    PROVE  Call(o, q, t) \in CmdRecords /\ Call(o, q, t).pc = q /\ Call(o, q, t).op = o
  BY DEF Call, Idle, CmdRecords, Rcs

\* Goto moves the command processor on and keeps its command.
LEMMA GotoEffect ==
    ASSUME Types, NEW n \in Nodes, NEW q \in CpPCs, Goto(n, q)
    PROVE  Moves(n) /\ Carries(n) /\ cp'[n].pc = q /\ cp'[n].seen = NoTag
<1> DEFINE new == [cp[n] EXCEPT !.pc = q, !.seen = NoTag]
<1>1. cp[n] \in CmdRecords /\ NoTag \in {NoTag} \cup Tags
  BY DEF Types
<1>2. /\ new.op = cp[n].op /\ new.todo = cp[n].todo
      /\ new.pc = q /\ new.seen = NoTag
  BY <1>1 DEF CmdRecords
<1>3. new \in CmdRecords
  BY <1>1 DEF CmdRecords
<1>4. cp' = [cp EXCEPT ![n] = new]
  BY DEF Goto, Types
<1> HIDE DEF new
<1>5. QED
  BY <1>2, <1>4, <1>3 DEF Moves, Carries, Types

\* Got does too, and remembers a return code.
LEMMA GotEffect ==
    ASSUME Types, NEW n \in Nodes, NEW q \in CpPCs, NEW rc \in Rcs, Got(n, q, rc)
    PROVE  Moves(n) /\ Carries(n) /\ cp'[n].pc = q /\ cp'[n].seen = NoTag /\ cp'[n].rc = rc
<1> DEFINE new == [cp[n] EXCEPT !.pc = q, !.rc = rc, !.seen = NoTag]
<1>1. cp[n] \in CmdRecords /\ NoTag \in {NoTag} \cup Tags
  BY DEF Types
<1>2. /\ new.op = cp[n].op /\ new.todo = cp[n].todo
      /\ new.pc = q /\ new.seen = NoTag /\ new.rc = rc
  BY <1>1 DEF CmdRecords
<1>3. new \in CmdRecords
  BY <1>1 DEF CmdRecords
<1>4. cp' = [cp EXCEPT ![n] = new]
  BY DEF Got, Types
<1> HIDE DEF new
<1>5. QED
  BY <1>2, <1>4, <1>3 DEF Moves, Carries, Types

\* Saw does too, and remembers the tag that was read.
LEMMA SawEffect ==
    ASSUME Types, NEW n \in Nodes, NEW q \in CpPCs, NEW t \in {NoTag} \cup Tags, Saw(n, q, t)
    PROVE  Moves(n) /\ Carries(n) /\ cp'[n].pc = q /\ cp'[n].seen = t
<1> DEFINE new == [cp[n] EXCEPT !.pc = q, !.seen = t]
<1>1. cp[n] \in CmdRecords /\ NoTag \in {NoTag} \cup Tags
  BY DEF Types
<1>2. /\ new.op = cp[n].op /\ new.todo = cp[n].todo
      /\ new.pc = q /\ new.seen = t
  BY <1>1 DEF CmdRecords
<1>3. new \in CmdRecords
  BY <1>1 DEF CmdRecords
<1>4. cp' = [cp EXCEPT ![n] = new]
  BY DEF Saw, Types
<1> HIDE DEF new
<1>5. QED
  BY <1>2, <1>4, <1>3 DEF Moves, Carries, Types

\* After the answer the command processor is idle.
LEMMA AnswerEffect ==
    ASSUME Types, NEW n \in Nodes, Answer(n)
    PROVE  Moves(n) /\ cp'[n] = Idle /\ cp'[n].pc = "idle" /\ cp'[n].op = "none"
  BY IdleRecord DEF Types, Answer, Moves

\* A command that begins has its record.
LEMMA CallEffect ==
    ASSUME Types, NEW n \in Nodes, NEW q \in CpPCs, NEW o \in {"stpg", "rtpg"},
           NEW t \in Seq(Descriptors), cp' = Set(cp, n, Call(o, q, t))
    PROVE  Moves(n) /\ cp'[n].pc = q /\ cp'[n].op = o
  BY CallRecord DEF Types, Set, Moves

\* tcmu_acquire_dev_lock keeps what rhandler->lock returned, or goes to the
\* reopen, or gives up.
LEMMA LockReturnsEffect ==
    ASSUME Types, NEW n \in Nodes, NEW rc \in Rcs, LockReturns(n, rc)
    PROVE  /\ Moves(n) /\ Carries(n)
           /\ cp'[n].pc \in {"lost", "reopen"} \/ (cp'[n].pc = "set" /\ cp'[n].rc = rc)
<1>1. CASE ToSts(rc) = "FENCED"
  <2> DEFINE q == IF cp[n].retried THEN "lost" ELSE "reopen"
  <2>1. q \in CpPCs /\ "0" \in Rcs /\ q \in {"lost", "reopen"}
    BY DEF CpPCs, Rcs
  <2>2. Got(n, q, "0")
    BY <1>1 DEF LockReturns
  <2> HIDE DEF q
  <2>3. QED
    BY <2>1, <2>2, GotEffect
<1>2. CASE ToSts(rc) = "TIMEOUT"
  <2>1. "lost" \in CpPCs /\ "0" \in Rcs
    BY DEF CpPCs, Rcs
  <2>2. Got(n, "lost", "0")
    BY <1>2 DEF LockReturns
  <2>3. QED
    BY <2>1, <2>2, GotEffect
<1>3. CASE ToSts(rc) \notin {"FENCED", "TIMEOUT"}
  <2>1. "set" \in CpPCs
    BY DEF CpPCs
  <2>2. Got(n, "set", rc)
    BY <1>3 DEF LockReturns
  <2>3. QED
    BY <2>1, <2>2, GotEffect
<1>4. QED
  BY <1>1, <1>2, <1>3

-----------------------------------------------------------------------------
(* Steps that only move a command processor.                               *)

\* Such a step keeps the invariant if the command processor was not stopped and
\* may rely at its new place on what it relies on there.
LEMMA CmdMove ==
    ASSUME FailoverInv, NEW n \in Nodes, UNCHANGED <<rbdVars, devVars>>, Moves(n),
           tpgEnabled[n] \/ cp[n] # Idle, CmdInv(n)', StpgInv(n)'
    PROVE  FailoverInv'
<1> USE DEF rbdVars, devVars
<1>1. Types'
  BY DEF FailoverInv, Types, Moves
<1>2. ClientInv' /\ WireInv' /\ Honest(tag)'
  BY DEF FailoverInv, ClientInv, WireInv, Honest, Failover
<1>3. ASSUME NEW m \in Nodes, m # n PROVE CmdInv(m)' /\ StpgInv(m)' /\ DevInv(m)'
  <2>1. cp'[m] = cp[m] /\ CmdInv(m) /\ StpgInv(m) /\ DevInv(m)
    BY <1>3 DEF FailoverInv, Moves
  <2>2. CmdInv(m)'
    BY <2>1 DEF CmdInv, Owns, Honest, At, Active
  <2>3. DevInv(m)'
    BY <2>1 DEF DevInv, Owns
  <2>4. StpgInv(m)'
    BY <2>1 DEF StpgInv
  <2>5. QED
    BY <2>2, <2>3, <2>4
<1>4. DevInv(n)'
  BY DEF FailoverInv, DevInv, Owns
<1>5. QED
  BY <1>1, <1>2, <1>3, <1>4 DEF FailoverInv

\* At a plain place there is nothing to rely on.
LEMMA PlainPlace ==
    ASSUME NEW n \in Nodes, cp'[n].pc \in Plain
    PROVE  CmdInv(n)'
  BY DEF CmdInv, At, Plain, CpPCs

\* A command goes on with what it has left to do, is answered, or takes up the
\* next descriptor.
LEMMA StpgKept ==
    ASSUME NEW n \in Nodes, StpgInv(n), Carries(n), cp[n].pc # "next",
           cp'[n].pc \notin StpgPlaces \/ cp[n].pc \in StpgPlaces \/ cp[n].op = "stpg"
    PROVE  StpgInv(n)'
  BY DEF StpgInv, Carries
\* An STPG that is about to take its next group has none that must be there.
LEMMA StpgFresh ==
    ASSUME NEW n \in Nodes,
           \/ cp'[n].pc = "next" /\ cp'[n].op = "stpg"
           \/ cp'[n].pc \notin StpgPlaces /\ cp'[n].op # "stpg"
    PROVE  StpgInv(n)'
  BY DEF StpgInv, StpgPlaces

\* A command processor in the middle of a command has one in hand.
LEMMA Busy ==
    ASSUME NEW n \in Nodes, cp[n].pc # "idle"
    PROVE  cp[n] # Idle
  BY IdleRecord

\* The end of rhandler->lock in error.
LEMMA Returned ==
    ASSUME FailoverInv, NEW n \in Nodes, UNCHANGED <<rbdVars, devVars>>, cp[n] # Idle,
           cp[n].pc \in StpgPlaces \ {"next"}, NEW rc \in Rcs \ {"0"}, LockReturns(n, rc)
    PROVE  FailoverInv'
<1>1. /\ Moves(n) /\ Carries(n)
      /\ cp'[n].pc \in {"lost", "reopen"} \/ (cp'[n].pc = "set" /\ cp'[n].rc # "0")
  BY LockReturnsEffect DEF FailoverInv
<1>2. CmdInv(n)'
  BY <1>1 DEF CmdInv, At
<1>3. StpgInv(n)'
  BY StpgKept, <1>1 DEF FailoverInv
<1>4. QED
  BY <1>1, <1>2, <1>3, CmdMove

\* The end of rhandler->get_lock_tag without a tag.
LEMMA TagReturned ==
    ASSUME FailoverInv, NEW n \in Nodes, UNCHANGED <<rbdVars, devVars>>, cp[n] # Idle,
           cp[n].pc # "next", NEW rc \in Rcs \ {"0"}, TagReturns(n, rc)
    PROVE  FailoverInv'
<1>1. Types
  BY DEF FailoverInv
<1>2. Got(n, "sync", rc) \/ Goto(n, "reopen") \/ Goto(n, "lost")
  BY DEF TagReturns, ToSts, Rcs
<1>3. /\ Moves(n) /\ Carries(n)
      /\ \/ cp'[n].pc = "sync" /\ cp'[n].seen = NoTag /\ cp'[n].rc # "0"
         \/ cp'[n].pc \in {"reopen", "lost"}
  BY <1>1, <1>2, GotEffect, GotoEffect DEF CpPCs
<1>4. CmdInv(n)'
  BY <1>3 DEF CmdInv, At, Honest, NoTag, NoClient
<1>5. StpgInv(n)'
  BY StpgKept, <1>3 DEF FailoverInv, StpgPlaces
<1>6. QED
  BY <1>3, <1>4, <1>5, CmdMove

\* The steps of STPG and RTPG that leave the cluster and the device alone.
LEMMA CmdOnlyStep ==
    ASSUME FailoverInv, NEW n \in Nodes,
           \/ StpgStart(n) \/ StpgNext(n) \/ LockWait(n) \/ LockHas(n) \/ LockOwners(n)
           \/ LockTagOwner(n) \/ RtpgStart(n) \/ RtpgMeta(n) \/ RtpgOwner(n) \/ RtpgReport(n)
    PROVE  FailoverInv'
<1>0. Types
  BY DEF FailoverInv
<1>1. CASE StpgStart(n)
  <2>1. PICK list \in Lists : cp' = Set(cp, n, Call("stpg", "next", list[n]))
    BY <1>1 DEF StpgStart
  <2>2. list[n] \in Seq(Descriptors)
    BY ListsAssumption
  <2>3. Moves(n) /\ cp'[n].pc = "next" /\ cp'[n].op = "stpg"
    BY <2>1, <2>2, <1>0, CallEffect DEF CpPCs
  <2>4. QED
    BY <1>1, <2>3, PlainPlace, StpgFresh, CmdMove DEF StpgStart, Takes, Plain, CpPCs
<1>2. CASE StpgNext(n)
  <2> DEFINE t == cp[n].todo
  <2>1. t \in Seq(Descriptors) /\ cp[n].pc = "next"
    BY <1>2, <1>0 DEF Types, CmdRecords, StpgNext, At
  <2>2. StpgInv(n)
    BY DEF FailoverInv
  <2>3. Moves(n) /\ cp'[n].pc \in {"idle", "next", "await", "unlock"} /\ StpgInv(n)'
    <3>1. CASE Answer(n)
      BY <3>1, <1>0, AnswerEffect, StpgFresh DEF StpgPlaces
    <3>2. CASE t # << >> /\ \E q \in {"await", "unlock"} : Goto(n, q)
      <4>1. PICK q \in {"await", "unlock"} : Goto(n, q)
        BY <3>2
      <4>2. Moves(n) /\ Carries(n) /\ cp'[n].pc = q
        BY <4>1, <1>0, GotoEffect DEF CpPCs
      <4>3. QED
        BY <2>1, <2>2, <3>2, <4>2 DEF StpgInv, StpgPlaces, Carries
    <3>3. CASE t # << >> /\ cp' = Set(cp, n, Call("stpg", "next", Tail(t)))
      <4>1. Tail(t) \in Seq(Descriptors)
        BY <2>1, <3>3
      <4>2. QED
        BY <3>3, <4>1, <1>0, CallEffect, StpgFresh DEF CpPCs
    <3>4. QED
      BY <1>2, <3>1, <3>2, <3>3 DEF StpgNext, ExplicitTransition
  <2>4. QED
    BY <1>2, <2>1, <2>3, PlainPlace, Busy, CmdMove DEF StpgNext, Plain, CpPCs
<1>3. CASE LockWait(n)
  <2>1. Moves(n) /\ Carries(n) /\ cp'[n].pc = "has" /\ cp[n].pc = "await"
    BY <1>3, <1>0, GotoEffect DEF LockWait, At, CpPCs
  <2>2. StpgInv(n)'
    BY <2>1, StpgKept DEF FailoverInv, StpgPlaces
  <2>3. QED
    BY <1>3, <2>1, <2>2, PlainPlace, Busy, CmdMove DEF LockWait, At, Plain, CpPCs
<1>4. CASE LockHas(n)
  <2>1. PICK rc \in HasLock(n) :
            CASE rc = "1" -> Goto(n, "tagowner") [] rc = "0" -> Goto(n, "owners")
              [] OTHER -> LockReturns(n, rc)
    BY <1>4 DEF LockHas
  <2>2. image[n] # NoClient /\ cp[n].pc = "has" /\ UNCHANGED <<rbdVars, devVars>>
    BY <1>4 DEF LockHas, Calls, At
  <2>3. CASE rc = "1"
    <3>1. owner = image[n]
      BY <2>3 DEF HasLock, Answers
    <3>2. Moves(n) /\ Carries(n) /\ cp'[n].pc = "tagowner"
      BY <2>1, <2>3, <1>0, GotoEffect DEF CpPCs
    <3>3. CmdInv(n)'
      BY <2>2, <3>1, <3>2 DEF CmdInv, At, Owns, rbdVars
    <3>4. QED
      BY <2>2, <3>2, <3>3, StpgKept, Busy, CmdMove DEF FailoverInv, StpgPlaces
  <2>4. CASE rc = "0"
    <3>1. Moves(n) /\ Carries(n) /\ cp'[n].pc = "owners"
      BY <2>1, <2>4, <1>0, GotoEffect DEF CpPCs
    <3>2. QED
      BY <2>2, <3>1, PlainPlace, StpgKept, Busy, CmdMove DEF FailoverInv, StpgPlaces, Plain, CpPCs
  <2>5. CASE rc \notin {"0", "1"}
    <3>1. LockReturns(n, rc) /\ rc \in Rcs \ {"0"}
      BY <2>1, <2>5 DEF HasLock, Answers, Rcs
    <3>2. QED
      BY <2>2, <3>1, Returned, Busy DEF StpgPlaces
  <2>6. QED
    BY <2>3, <2>4, <2>5
<1>5. CASE LockOwners(n)
  <2>1. PICK rc \in GetOwners(n) :
            CASE rc = "0" -> Saw(n, "break", [tag |-> n, client |-> owner])
              [] rc = "ENOENT" -> Goto(n, "acquire")
              [] OTHER -> LockReturns(n, rc)
    BY <1>5 DEF LockOwners
  <2>2. cp[n].pc = "owners" /\ UNCHANGED <<rbdVars, devVars>>
    BY <1>5 DEF LockOwners, Calls, At
  <2>3. CASE rc = "0"
    <3>1. [tag |-> n, client |-> owner] \in Tags
      BY <2>3, <1>0 DEF GetOwners, Answers, Types, Tags
    <3>2. Moves(n) /\ Carries(n) /\ cp'[n].pc = "break" /\ cp'[n].seen \in Tags
      BY <2>1, <2>3, <3>1, <1>0, SawEffect DEF CpPCs
    <3>3. CmdInv(n)'
      BY <3>2 DEF CmdInv, At
    <3>4. QED
      BY <2>2, <3>2, <3>3, StpgKept, Busy, CmdMove DEF FailoverInv, StpgPlaces
  <2>4. CASE rc = "ENOENT"
    <3>1. Moves(n) /\ Carries(n) /\ cp'[n].pc = "acquire"
      BY <2>1, <2>4, <1>0, GotoEffect DEF CpPCs
    <3>2. QED
      BY <2>2, <3>1, PlainPlace, StpgKept, Busy, CmdMove DEF FailoverInv, StpgPlaces, Plain, CpPCs
  <2>5. CASE rc \notin {"0", "ENOENT"}
    <3>1. LockReturns(n, rc) /\ rc \in Rcs \ {"0"}
      BY <2>1, <2>5 DEF GetOwners, Answers, Rcs
    <3>2. QED
      BY <2>2, <3>1, Returned, Busy DEF StpgPlaces
  <2>6. QED
    BY <2>3, <2>4, <2>5
<1>6. CASE LockTagOwner(n)
  <2>1. PICK rc \in GetOwners(n) :
            IF rc = "0" THEN Saw(n, "tagset", [tag |-> n, client |-> owner]) ELSE LockReturns(n, rc)
    BY <1>6 DEF LockTagOwner
  <2>2. cp[n].pc = "tagowner" /\ UNCHANGED <<rbdVars, devVars>>
    BY <1>6 DEF LockTagOwner, Calls, At
  <2>3. CASE rc = "0"
    <3> DEFINE t == [tag |-> n, client |-> owner]
    <3>1. Owns(n)
      BY <2>2 DEF FailoverInv, CmdInv, At
    <3>2. owner = image[n] /\ owner # NoClient
      BY <2>3, <3>1 DEF GetOwners, Answers, Owns
    <3>3. t \in Tags /\ Honest(t) /\ t.tag = n
      BY <3>2 DEF FailoverInv, Types, ClientInv, Tags, Honest
    <3>4. Moves(n) /\ Carries(n) /\ cp'[n].pc = "tagset" /\ cp'[n].seen = t
      BY <2>1, <2>3, <3>3, <1>0, SawEffect DEF CpPCs
    <3> HIDE DEF t
    <3>5. CmdInv(n)'
      BY <2>2, <3>1, <3>3, <3>4 DEF CmdInv, At, Owns, rbdVars
    <3>6. QED
      BY <2>2, <3>4, <3>5, StpgKept, Busy, CmdMove DEF FailoverInv, StpgPlaces
  <2>4. CASE rc # "0"
    <3>1. LockReturns(n, rc) /\ rc \in Rcs \ {"0"}
      BY <2>1, <2>4 DEF GetOwners, Answers, Rcs
    <3>2. QED
      BY <2>2, <3>1, Returned, Busy DEF StpgPlaces
  <2>5. QED
    BY <2>3, <2>4
<1>7. CASE RtpgStart(n)
  <2>1. << >> \in Seq(Descriptors)
    OBVIOUS
  <2>2. Moves(n) /\ cp'[n].pc = "meta" /\ cp'[n].op = "rtpg"
    BY <1>7, <2>1, <1>0, CallEffect DEF RtpgStart, CpPCs
  <2>3. StpgInv(n)'
    BY <2>2, StpgFresh DEF StpgPlaces
  <2>4. QED
    BY <1>7, <2>2, <2>3, PlainPlace, CmdMove DEF RtpgStart, Takes, Plain, CpPCs
<1>8. CASE RtpgMeta(n)
  <2>1. PICK rc \in MetadataGet(n) :
            IF rc = "0" THEN Saw(n, "tagread", tag) ELSE TagReturns(n, rc)
    BY <1>8 DEF RtpgMeta
  <2>2. cp[n].pc = "meta" /\ UNCHANGED <<rbdVars, devVars>>
    BY <1>8 DEF RtpgMeta, Calls, At
  <2>3. CASE rc = "0"
    <3>1. Moves(n) /\ Carries(n) /\ cp'[n].pc = "tagread" /\ cp'[n].seen = tag
      BY <2>1, <2>3, <1>0, SawEffect DEF CpPCs, Types
    <3>2. CmdInv(n)'
      BY <3>1 DEF FailoverInv, CmdInv, At, Honest
    <3>3. QED
      BY <2>2, <3>1, <3>2, StpgKept, Busy, CmdMove DEF FailoverInv, StpgPlaces
  <2>4. CASE rc # "0"
    <3>1. TagReturns(n, rc) /\ rc \in Rcs \ {"0"}
      BY <2>1, <2>4 DEF MetadataGet, Answers, Rcs
    <3>2. QED
      BY <2>2, <3>1, TagReturned, Busy
  <2>5. QED
    BY <2>3, <2>4
<1>9. CASE RtpgOwner(n)
  <2>1. PICK rc \in Answers(n, TagOfOwner(cp[n].seen)) : TagReturns(n, rc)
    BY <1>9 DEF RtpgOwner
  <2>2. cp[n].pc = "tagread" /\ UNCHANGED <<rbdVars, devVars>>
    BY <1>9 DEF RtpgOwner, Calls, At
  <2>3. CASE rc = "0"
    <3> DEFINE new == [cp[n] EXCEPT !.pc = "sync", !.rc = rc, !.truth = owner.node]
    <3>1. owner # NoClient /\ cp[n].seen.client = owner
      BY <2>3 DEF Answers, TagOfOwner
    <3>2. owner.node \in Nodes /\ Honest(cp[n].seen)
      BY <2>2, <3>1 DEF FailoverInv, CmdInv, Types, Clients
    <3>3. /\ new \in CmdRecords /\ new.pc = "sync" /\ new.seen = cp[n].seen /\ new.rc = "0"
          /\ new.truth = owner.node /\ new.op = cp[n].op /\ new.todo = cp[n].todo
      <4>1. cp[n] \in CmdRecords /\ "sync" \in CpPCs /\ "0" \in Rcs
        BY <1>0 DEF Types, CpPCs, Rcs
      <4>2. QED
        BY <2>3, <3>2, <4>1 DEF CmdRecords
    <3>4. cp' = [cp EXCEPT ![n] = new]
      BY <2>1, <2>3, <1>0 DEF TagReturns, ToSts, Types
    <3> HIDE DEF new
    <3>5. Moves(n) /\ Carries(n) /\ cp'[n] = new /\ cp'[n].pc = "sync"
      BY <3>3, <3>4, <1>0 DEF Moves, Carries, Types
    <3>6. CmdInv(n)'
      BY <3>1, <3>2, <3>3, <3>5 DEF CmdInv, At, Honest
    <3>7. QED
      BY <2>2, <3>5, <3>6, StpgKept, Busy, CmdMove DEF FailoverInv, StpgPlaces
  <2>4. CASE rc # "0"
    <3>1. rc \in Rcs \ {"0"}
      BY <2>4 DEF Answers, TagOfOwner, Rcs
    <3>2. QED
      BY <2>1, <2>2, <3>1, TagReturned, Busy
  <2>5. QED
    BY <2>3, <2>4
<1>10. CASE RtpgReport(n)
  <2>1. Moves(n) /\ cp'[n].pc = "idle" /\ cp'[n].op = "none"
    BY <1>10, <1>0, AnswerEffect DEF RtpgReport
  <2>2. StpgInv(n)'
    BY <2>1, StpgFresh DEF StpgPlaces
  <2>3. QED
    BY <1>10, <2>1, <2>2, PlainPlace, Busy, CmdMove DEF RtpgReport, At, Plain, CpPCs
<1>11. QED
  BY <1>1, <1>2, <1>3, <1>4, <1>5, <1>6, <1>7, <1>8, <1>9, <1>10

-----------------------------------------------------------------------------
(* Steps that change the cluster or the device.                            *)

\* No two nodes share a client.
LEMMA ClientsApart ==
    ASSUME ClientInv, NEW n \in Nodes, NEW m \in Nodes, m # n, image[n] # NoClient
    PROVE  image[m] # image[n]
  BY DEF ClientInv

\* The other nodes keep what they rely on when node n's step leaves their
\* devices alone and takes the lock from none of them but by fencing it.
LEMMA OthersKept ==
    ASSUME FailoverInv, NEW n \in Nodes, black \subseteq black',
           \A m \in Nodes \ {n} :
              /\ image'[m] = image[m] /\ lockState'[m] = lockState[m] /\ cp'[m] = cp[m]
              /\ rec'[m] = rec[m] /\ tpgEnabled'[m] = tpgEnabled[m],
           owner' = owner \/ owner \in black' \/ owner \in {image[n], NoClient}
    PROVE  \A m \in Nodes \ {n} : CmdInv(m)' /\ StpgInv(m)' /\ DevInv(m)'
<1> SUFFICES ASSUME NEW m \in Nodes, m # n PROVE CmdInv(m)' /\ StpgInv(m)' /\ DevInv(m)'
  OBVIOUS
<1>1. /\ image'[m] = image[m] /\ lockState'[m] = lockState[m] /\ cp'[m] = cp[m]
      /\ rec'[m] = rec[m] /\ tpgEnabled'[m] = tpgEnabled[m]
  OBVIOUS
<1>2. Owns(m) => Owns(m)'
  BY <1>1 DEF FailoverInv, ClientInv, Owns
<1>3. CmdInv(m)'
  BY <1>1, <1>2 DEF FailoverInv, CmdInv, Honest, At, Active
<1>4. DevInv(m)'
  BY <1>1, <1>2 DEF FailoverInv, DevInv
<1>5. StpgInv(m)'
  BY <1>1 DEF FailoverInv, StpgInv
<1>6. QED
  BY <1>3, <1>4, <1>5

\* A write enters the cluster for a client that holds the lock.
LEMMA IoStartStep ==
    ASSUME FailoverInv, NEW n \in Nodes, IoStart(n)
    PROVE  FailoverInv'
<1> USE DEF IoStart, RbdSubmit, Set
<1>1. Types'
  BY DEF FailoverInv, Types
<1>2. ClientInv'
  BY DEF FailoverInv, Types, ClientInv
<1>3. Failover' = Failover
  BY DEF Failover, FailoverType
<1>4. Failover = "EXPLICIT" => Owns(n)
  BY DEF FailoverInv, DevInv, AluaCheckState
<1>5. WireInv'
  <2>1. \A m \in Nodes : image[m] = image[n] => m = n
    BY ClientsApart DEF FailoverInv
  <2>2. \A m \in Nodes : image'[m] \in wire' \ black' => io'[m]
    BY <2>1 DEF FailoverInv, Types, WireInv
  <2>3. QED
    BY <1>3, <1>4, <2>2 DEF FailoverInv, WireInv, Owns
<1>6. Honest(tag)' /\ \A m \in Nodes : CmdInv(m)' /\ StpgInv(m)' /\ DevInv(m)'
  BY DEF FailoverInv, CmdInv, StpgInv, DevInv, Honest, Owns, At, Active
<1>7. QED
  BY <1>1, <1>2, <1>5, <1>6 DEF FailoverInv

\* A write is answered, found fenced, or given up by librbd.
LEMMA IoDoneStep ==
    ASSUME FailoverInv, NEW n \in Nodes, IoDone(n)
    PROVE  FailoverInv'
<1>1. /\ cp' = cp /\ type' = type /\ tpgEnabled' = tpgEnabled /\ image' = image /\ conns' = conns
      /\ owner' = owner /\ black' = black /\ tag' = tag /\ io' = [io EXCEPT ![n] = FALSE]
      /\ wire' \subseteq wire /\ image[n] \notin wire' \ black
  BY DEF IoDone, Blacklisted, Timedout, RbdGiveUp, Set, rbdVars
<1>2. /\ lockState' \in [Nodes -> {"UNLOCKED", "LOCKED"}]
      /\ \A m \in Nodes : lockState'[m] = "LOCKED" => lockState[m] = "LOCKED"
  BY DEF FailoverInv, Types, IoDone, Blacklisted, Timedout, Set
<1>3. /\ inRecovery' \in [Nodes -> BOOLEAN]
      /\ rec' \in [Nodes -> {"idle", "disable", "close", "open", "enable"}]
      /\ \A m \in Nodes : rec'[m] = rec[m] \/ rec'[m] = "disable"
  BY DEF FailoverInv, Types, IoDone, Blacklisted, Timedout, ConnLost, AddToRecoveryList, Set
<1>4. Types'
  BY <1>1, <1>2, <1>3 DEF FailoverInv, Types
<1>5. ClientInv' /\ Honest(tag)'
  BY <1>1 DEF FailoverInv, Types, ClientInv, Honest
<1>6. WireInv'
  <2>1. Failover' = Failover
    BY <1>1 DEF Failover, FailoverType
  <2>2. QED
    BY <1>1, <2>1 DEF FailoverInv, Types, WireInv
<1>7. ASSUME NEW m \in Nodes PROVE CmdInv(m)' /\ StpgInv(m)' /\ DevInv(m)'
  <2>1. CmdInv(m)'
    BY <1>1, <1>2 DEF FailoverInv, CmdInv, Honest, Owns, At, Active
  <2>2. DevInv(m)'
    BY <1>1, <1>2, <1>3 DEF FailoverInv, DevInv, Owns
  <2>3. StpgInv(m)'
    BY <1>1 DEF FailoverInv, StpgInv
  <2>4. QED
    BY <2>1, <2>2, <2>3
<1>8. QED
  BY <1>4, <1>5, <1>6, <1>7 DEF FailoverInv

\* tcmu_release_dev_lock: the lock is given back with no write under way.
LEMMA StpgUnlockStep ==
    ASSUME FailoverInv, NEW n \in Nodes, StpgUnlock(n)
    PROVE  FailoverInv'
<1>1. /\ image' = image /\ conns' = conns /\ black' = black /\ tag' = tag /\ wire' = wire
      /\ owner' = owner \/ (owner' = NoClient /\ owner = image[n])
      /\ image[n] \notin wire /\ cp[n].pc = "unlock"
  BY DEF StpgUnlock, RbdUnlock, Done, Calls, At
<1>2. /\ lockState' = [lockState EXCEPT ![n] = "UNLOCKED"] /\ type' = type
      /\ inRecovery' = inRecovery /\ tpgEnabled' = tpgEnabled /\ io' = io /\ rec' = rec
  BY DEF StpgUnlock, Set
<1>3. Moves(n) /\ cp'[n].pc = "next" /\ cp'[n].op = "stpg"
  <2>1. cp[n].todo \in Seq(Descriptors) /\ cp[n].todo # << >>
    BY <1>1 DEF FailoverInv, StpgInv, StpgPlaces, Types, CmdRecords
  <2>2. Tail(cp[n].todo) \in Seq(Descriptors)
    BY <2>1
  <2>3. QED
    BY <2>2, CallEffect DEF StpgUnlock, FailoverInv, CpPCs
<1>4. Types'
  BY <1>1, <1>2, <1>3 DEF FailoverInv, Types, Moves
<1>5. ClientInv' /\ Honest(tag)'
  BY <1>1 DEF FailoverInv, ClientInv, Honest
<1>6. WireInv'
  <2>1. Failover' = Failover
    BY <1>2 DEF Failover, FailoverType
  <2>2. QED
    BY <1>1, <1>2, <2>1 DEF FailoverInv, WireInv
<1>7. CmdInv(n)' /\ StpgInv(n)'
  BY <1>3, PlainPlace, StpgFresh DEF Plain, CpPCs
<1>8. DevInv(n)'
  BY <1>1, <1>2, IdleRecord DEF FailoverInv, Types, DevInv
<1>9. \A m \in Nodes \ {n} : CmdInv(m)' /\ StpgInv(m)' /\ DevInv(m)'
  BY <1>1, <1>2, <1>3, OthersKept DEF FailoverInv, Types, Moves
<1>10. QED
  BY <1>4, <1>5, <1>6, <1>7, <1>8, <1>9 DEF FailoverInv

\* rbd_lock_break: the owner seen is blacklisted with the lock taken from it.
LEMMA LockBreaksStep ==
    ASSUME FailoverInv, NEW n \in Nodes, LockBreaks(n)
    PROVE  FailoverInv'
<1>0. Types /\ image[n] # NoClient /\ cp[n].pc = "break" /\ cp[n].seen \in Tags /\ cp[n] # Idle
  BY Busy DEF FailoverInv, CmdInv, LockBreaks, Calls, At
<1>1. PICK rc \in {"0", "ENOENT", "EBUSY", "ESHUTDOWN", "ETIMEDOUT"} :
         /\ LockBreak(n, cp[n].seen.client, rc)
         /\ IF rc = "0" THEN Goto(n, "acquire") ELSE LockReturns(n, rc)
  BY DEF LockBreaks
<1>2. /\ image' = image /\ conns' = conns /\ tag' = tag /\ wire' = wire
      /\ \/ owner' = owner /\ black' = black
         \/ /\ owner = cp[n].seen.client
            /\ owner' = NoClient /\ black' = black \cup {owner}
  BY <1>1 DEF LockBreak, Done
<1>3. /\ type' = type /\ lockState' = lockState /\ inRecovery' = inRecovery
      /\ tpgEnabled' = tpgEnabled /\ io' = io /\ rec' = rec
  BY DEF LockBreaks, devVars
<1>4. /\ Moves(n) /\ Carries(n)
      /\ cp'[n].pc \in {"acquire", "lost", "reopen"} \/ (cp'[n].pc = "set" /\ cp'[n].rc # "0")
  BY <1>0, <1>1, GotoEffect, LockReturnsEffect DEF CpPCs, Rcs
<1>5. cp[n].seen.client \in Clients
  BY <1>0 DEF Tags
<1>6. Types'
  BY <1>2, <1>3, <1>4, <1>5 DEF FailoverInv, Types, Moves
<1>7. ClientInv' /\ Honest(tag)'
  BY <1>2 DEF FailoverInv, ClientInv, Honest
<1>8. WireInv'
  <2>1. Failover' = Failover
    BY <1>3 DEF Failover, FailoverType
  <2>2. QED
    BY <1>2, <1>3, <2>1 DEF FailoverInv, WireInv
<1>9. CmdInv(n)' /\ StpgInv(n)'
  <2>1. CmdInv(n)'
    BY <1>4 DEF CmdInv, At
  <2>2. QED
    BY <2>1, <1>0, <1>4, StpgKept DEF FailoverInv, StpgPlaces
<1>10. DevInv(n)'
  BY <1>0, <1>2, <1>3 DEF FailoverInv, DevInv, Owns
<1>11. \A m \in Nodes \ {n} : CmdInv(m)' /\ StpgInv(m)' /\ DevInv(m)'
  BY <1>2, <1>3, <1>4, OthersKept DEF FailoverInv, Moves
<1>12. QED
  BY <1>6, <1>7, <1>8, <1>9, <1>10, <1>11 DEF FailoverInv

\* rbd_lock_acquire: a lock nobody has, so no write but of the taker's is left.
LEMMA LockAcquiresStep ==
    ASSUME FailoverInv, NEW n \in Nodes, LockAcquires(n)
    PROVE  FailoverInv'
<1>0. Types /\ image[n] # NoClient /\ cp[n].pc = "acquire" /\ cp[n] # Idle
  BY Busy DEF FailoverInv, LockAcquires, Calls, At
<1>1. PICK rc \in {"0", "EROFS", "ESHUTDOWN", "ETIMEDOUT"} :
         /\ LockAcquire(n, rc)
         /\ IF rc = "0" THEN Goto(n, "tagowner") ELSE LockReturns(n, rc)
  BY DEF LockAcquires
<1>2. /\ image' = image /\ conns' = conns /\ tag' = tag /\ wire' = wire /\ black' = black
      /\ owner' = owner \/ (owner \in {NoClient, image[n]} /\ owner' = image[n])
      /\ rc = "0" => owner' = image[n]
  BY <1>1 DEF LockAcquire, Done, Answers
<1>3. /\ type' = type /\ lockState' = lockState /\ inRecovery' = inRecovery
      /\ tpgEnabled' = tpgEnabled /\ io' = io /\ rec' = rec
  BY DEF LockAcquires, devVars
<1>4. /\ Moves(n) /\ Carries(n)
      /\ \/ cp'[n].pc = "tagowner" /\ owner' = image[n]
         \/ cp'[n].pc \in {"lost", "reopen"} \/ (cp'[n].pc = "set" /\ cp'[n].rc # "0")
  BY <1>0, <1>1, <1>2, GotoEffect, LockReturnsEffect DEF CpPCs, Rcs
<1>5. Types'
  BY <1>2, <1>3, <1>4 DEF FailoverInv, Types, Moves
<1>6. ClientInv' /\ Honest(tag)'
  BY <1>2 DEF FailoverInv, ClientInv, Honest
<1>7. WireInv'
  <2>1. Failover' = Failover
    BY <1>3 DEF Failover, FailoverType
  <2>2. NoClient \notin wire
    BY <1>0, NoClientApart DEF Types
  <2>3. QED
    BY <1>2, <1>3, <2>1, <2>2 DEF FailoverInv, WireInv
<1>8. CmdInv(n)' /\ StpgInv(n)'
  <2>1. CmdInv(n)'
    BY <1>0, <1>2, <1>4 DEF CmdInv, At, Owns
  <2>2. QED
    BY <2>1, <1>0, <1>4, StpgKept DEF FailoverInv, StpgPlaces
<1>9. DevInv(n)'
  BY <1>0, <1>2, <1>3 DEF FailoverInv, DevInv, Owns
<1>10. \A m \in Nodes \ {n} : CmdInv(m)' /\ StpgInv(m)' /\ DevInv(m)'
  BY <1>2, <1>3, <1>4, OthersKept DEF FailoverInv, Moves
<1>11. QED
  BY <1>5, <1>6, <1>7, <1>8, <1>9, <1>10 DEF FailoverInv

\* rbd_metadata_set: the tag goes with the client that was seen to own the lock.
LEMMA LockTagSetStep ==
    ASSUME FailoverInv, NEW n \in Nodes, LockTagSet(n)
    PROVE  FailoverInv'
<1>0. /\ Types /\ cp[n].pc = "tagset" /\ cp[n] # Idle
      /\ Owns(n) /\ cp[n].seen \in Tags /\ Honest(cp[n].seen) /\ cp[n].seen.tag = n
  BY Busy DEF FailoverInv, CmdInv, LockTagSet, Calls, At
<1>1. PICK rc \in Answers(n, "0") :
         MetadataSet(n, n, cp[n].seen.client, rc) /\ LockReturns(n, rc)
  BY DEF LockTagSet
<1>2. /\ image' = image /\ conns' = conns /\ owner' = owner /\ black' = black /\ wire' = wire
      /\ tag' = tag \/ tag' = [tag |-> n, client |-> cp[n].seen.client]
  BY <1>1 DEF MetadataSet, Done
<1>3. /\ type' = type /\ lockState' = lockState /\ inRecovery' = inRecovery
      /\ tpgEnabled' = tpgEnabled /\ io' = io /\ rec' = rec
  BY DEF LockTagSet, devVars
<1>4. /\ Moves(n) /\ Carries(n)
      /\ cp'[n].pc \in {"lost", "reopen", "set"}
  BY <1>0, <1>1, LockReturnsEffect DEF Answers, Rcs
<1>5. cp[n].seen.client \in Clients /\ tag' \in {NoTag} \cup Tags
  BY <1>0, <1>2 DEF Tags, Types
<1>6. Types'
  BY <1>2, <1>3, <1>4, <1>5 DEF FailoverInv, Types, Moves
<1>7. ClientInv'
  BY <1>2 DEF FailoverInv, ClientInv
<1>8. WireInv'
  <2>1. Failover' = Failover
    BY <1>3 DEF Failover, FailoverType
  <2>2. QED
    BY <1>2, <1>3, <2>1 DEF FailoverInv, WireInv
<1>9. CmdInv(n)' /\ StpgInv(n)'
  <2>1. CmdInv(n)'
    BY <1>0, <1>2, <1>4 DEF CmdInv, At, Owns
  <2>2. QED
    BY <2>1, <1>0, <1>4, StpgKept DEF FailoverInv, StpgPlaces
<1>10. DevInv(n)'
  BY <1>0, <1>2, <1>3 DEF FailoverInv, DevInv, Owns
<1>11. \A m \in Nodes \ {n} : CmdInv(m)' /\ StpgInv(m)' /\ DevInv(m)'
  BY <1>2, <1>3, <1>4, OthersKept DEF FailoverInv, Moves
<1>12. QED
  <2>1. Honest(tag)'
    BY <1>0, <1>2 DEF FailoverInv, Honest, Tags
  <2>2. QED
    BY <1>6, <1>7, <1>8, <1>9, <1>10, <1>11, <2>1 DEF FailoverInv

\* The end of tcmu_acquire_dev_lock.
LEMMA LockSetStep ==
    ASSUME FailoverInv, NEW n \in Nodes, LockSet(n)
    PROVE  FailoverInv'
<1>0. Types /\ cp[n].pc = "set" /\ cp[n] # Idle
  BY Busy DEF FailoverInv, LockSet, At
<1>1. /\ image' = image /\ conns' = conns /\ owner' = owner /\ black' = black /\ tag' = tag
      /\ wire' = wire /\ type' = type /\ inRecovery' = inRecovery /\ tpgEnabled' = tpgEnabled
      /\ io' = io /\ rec' = rec
  BY DEF LockSet, rbdVars
<1>2. \/ lockState' = [lockState EXCEPT ![n] = "LOCKED"] /\ Owns(n)
      \/ lockState' = [lockState EXCEPT ![n] = "UNLOCKED"]
  BY <1>0 DEF LockSet, Set, FailoverInv, CmdInv, At
<1>3. /\ Moves(n)
      /\ (cp'[n].pc = "next" /\ cp'[n].op = "stpg") \/ (cp'[n].pc = "idle" /\ cp'[n].op = "none")
  <2>1. CASE cp' = Set(cp, n, Call("stpg", "next", Tail(cp[n].todo)))
    <3>1. cp[n].todo \in Seq(Descriptors) /\ cp[n].todo # << >>
      BY <1>0 DEF FailoverInv, StpgInv, StpgPlaces, Types, CmdRecords
    <3>2. Tail(cp[n].todo) \in Seq(Descriptors)
      BY <3>1
    <3>3. QED
      BY <1>0, <2>1, <3>2, CallEffect DEF CpPCs
  <2>2. CASE Answer(n)
    BY <1>0, <2>2, AnswerEffect
  <2>3. QED
    BY <2>1, <2>2 DEF LockSet
<1>4. Types'
  BY <1>1, <1>2, <1>3 DEF FailoverInv, Types, Moves
<1>5. ClientInv' /\ Honest(tag)' /\ WireInv'
  BY <1>1 DEF FailoverInv, ClientInv, Honest, WireInv, Failover, FailoverType
<1>6. CmdInv(n)' /\ StpgInv(n)'
  BY <1>3, PlainPlace, StpgFresh DEF Plain, CpPCs, StpgPlaces
<1>7. DevInv(n)'
  BY <1>0, <1>1, <1>2 DEF FailoverInv, Types, DevInv, Owns
<1>8. \A m \in Nodes \ {n} : CmdInv(m)' /\ StpgInv(m)' /\ DevInv(m)'
  BY <1>0, <1>1, <1>2, <1>3, OthersKept DEF Moves, Types
<1>9. QED
  BY <1>4, <1>5, <1>6, <1>7, <1>8 DEF FailoverInv

\* tcmu_reopen_dev.
LEMMA ReopenStep ==
    ASSUME FailoverInv, NEW n \in Nodes, Reopen(n)
    PROVE  FailoverInv'
<1>0. Types /\ cp[n].pc = "reopen" /\ cp[n] # Idle
  BY Busy DEF FailoverInv, Reopen, At
<1>1. /\ image' = image /\ conns' = conns /\ owner' = owner /\ black' = black /\ tag' = tag
      /\ wire' = wire /\ type' = type /\ lockState' = lockState /\ tpgEnabled' = tpgEnabled
      /\ io' = io /\ rec' = rec /\ inRecovery' \in [Nodes -> BOOLEAN]
  BY <1>0 DEF Reopen, rbdVars, Set, Types
<1>2. Moves(n) /\ Carries(n) /\ cp'[n].pc \in {"lost", "close"}
  BY <1>0, GotoEffect DEF Reopen, CpPCs
<1>3. Types'
  BY <1>1, <1>2 DEF FailoverInv, Types, Moves
<1>4. ClientInv' /\ Honest(tag)' /\ WireInv'
  BY <1>1 DEF FailoverInv, ClientInv, Honest, WireInv, Failover, FailoverType
<1>5. CmdInv(n)' /\ StpgInv(n)'
  BY <1>0, <1>2, PlainPlace, StpgKept DEF FailoverInv, Plain, CpPCs, StpgPlaces
<1>6. DevInv(n)'
  BY <1>0, <1>1 DEF FailoverInv, DevInv, Owns
<1>7. \A m \in Nodes \ {n} : CmdInv(m)' /\ StpgInv(m)' /\ DevInv(m)'
  BY <1>1, <1>2, OthersKept DEF Moves
<1>8. QED
  BY <1>3, <1>4, <1>5, <1>6, <1>7 DEF FailoverInv

\* rhandler->close, by the command processor or the recovery thread: no write is
\* under way, and librbd gives back no lock but the node's own.
LEMMA CloseEffect ==
    ASSUME FailoverInv, NEW n \in Nodes, RbdClose(n), ~io[n], type' = type, io' = io,
           image[n] # NoClient,
           lockState' = [lockState EXCEPT ![n] = "UNLOCKED"]
    PROVE  /\ image' = [image EXCEPT ![n] = NoClient] /\ image' \in [Nodes -> Clients \cup {NoClient}]
           /\ conns' = conns /\ black' = black /\ tag' = tag /\ wire' = wire
           /\ owner' \in Clients \cup {NoClient}
           /\ owner' = owner \/ owner = image[n]
           /\ lockState' \in [Nodes -> {"UNLOCKED", "LOCKED"}] /\ lockState'[n] = "UNLOCKED"
           /\ ClientInv' /\ WireInv' /\ Honest(tag)'
<1>1. /\ image' = [image EXCEPT ![n] = NoClient] /\ conns' = conns /\ black' = black
      /\ tag' = tag /\ wire' = wire
      /\ owner' = owner \/ (owner' = NoClient /\ owner = image[n] /\ owner \notin black)
  BY DEF RbdClose
<1>2. image[n] \notin wire \ black /\ NoClient \notin wire
  BY NoClientApart DEF FailoverInv, Types, WireInv
<1>3. ClientInv' /\ Honest(tag)'
  BY <1>1 DEF FailoverInv, Types, ClientInv, Honest
<1>4. Failover' = Failover
  BY DEF Failover, FailoverType
<1>5. WireInv'
  BY <1>1, <1>2, <1>4 DEF FailoverInv, Types, WireInv
<1>6. QED
  BY <1>1, <1>3, <1>5 DEF FailoverInv, Types

\* tcmu_reopen_dev closes the image: the client that is gone stays fenced or
\* keeps the lock it had.
LEMMA ReopenCloseStep ==
    ASSUME FailoverInv, NEW n \in Nodes, ReopenClose(n)
    PROVE  FailoverInv'
<1>0. Types /\ cp[n].pc = "close" /\ cp[n] # Idle /\ image[n] # NoClient
  BY Busy DEF FailoverInv, ReopenClose, Calls, At
<1>1. /\ RbdClose(n) /\ ~io[n] /\ type' = type /\ io' = io /\ tpgEnabled' = tpgEnabled
      /\ rec' = rec /\ inRecovery' = inRecovery
      /\ lockState' = [lockState EXCEPT ![n] = "UNLOCKED"]
  BY DEF ReopenClose, Set
<1>2. /\ image' = [image EXCEPT ![n] = NoClient] /\ image' \in [Nodes -> Clients \cup {NoClient}]
      /\ conns' = conns /\ black' = black /\ tag' = tag /\ wire' = wire
      /\ owner' \in Clients \cup {NoClient}
      /\ owner' = owner \/ owner = image[n]
      /\ lockState' \in [Nodes -> {"UNLOCKED", "LOCKED"}] /\ lockState'[n] = "UNLOCKED"
      /\ ClientInv' /\ WireInv' /\ Honest(tag)'
  BY <1>0, <1>1, CloseEffect
<1>3. Moves(n) /\ Carries(n) /\ cp'[n].pc = "open"
  BY <1>0, GotoEffect DEF ReopenClose, CpPCs
<1>4. Types'
  BY <1>0, <1>1, <1>2, <1>3 DEF Types, Moves
<1>5. CmdInv(n)' /\ StpgInv(n)'
  <2>1. CmdInv(n)'
    BY <1>0, <1>2, <1>3 DEF CmdInv, At, Types
  <2>2. QED
    BY <2>1, <1>0, <1>3, StpgKept DEF FailoverInv, StpgPlaces
<1>6. DevInv(n)'
  BY <1>0, <1>1, <1>2 DEF FailoverInv, DevInv
<1>7. \A m \in Nodes \ {n} : CmdInv(m)' /\ StpgInv(m)' /\ DevInv(m)'
  BY <1>0, <1>1, <1>2, <1>3, OthersKept DEF Moves, Types
<1>8. QED
  BY <1>2, <1>4, <1>5, <1>6, <1>7 DEF FailoverInv

\* rhandler->open: a client the cluster has never seen, or none.
LEMMA OpenEffect ==
    ASSUME FailoverInv, NEW n \in Nodes, NEW ok \in BOOLEAN, RbdOpen(n, ok), type' = type,
           \A m \in Nodes \ {n} : io'[m] = io[m]
    PROVE  /\ image' \in [Nodes -> Clients \cup {NoClient}] /\ conns' \in [Nodes -> 1 .. MaxConn]
           /\ owner' = owner /\ black' = black /\ tag' = tag /\ wire' = wire
           /\ ~ok => image'[n] = NoClient
           /\ \A m \in Nodes \ {n} : image'[m] = image[m]
           /\ ClientInv' /\ WireInv' /\ Honest(tag)'
<1>0. Types /\ ClientInv /\ WireInv
  BY DEF FailoverInv
<1>1. owner' = owner /\ black' = black /\ tag' = tag /\ wire' = wire /\ Honest(tag)'
  BY DEF RbdOpen, clusterVars, FailoverInv, Honest
<1>2. Failover' = Failover
  BY DEF Failover, FailoverType
<1>3. CASE ok
  <2> DEFINE new == [node |-> n, nr |-> conns[n] + 1]
  <2>1. conns' = [conns EXCEPT ![n] = @ + 1] /\ conns[n] < MaxConn
    BY <1>3 DEF RbdOpen
  <2>2. conns' \in [Nodes -> 1 .. MaxConn] /\ conns'[n] = conns[n] + 1 /\ conns[n] \in Nat
    BY <1>0, <2>1, RbdAssumption DEF Types
  <2>3. image' = [image EXCEPT ![n] = new]
    BY <1>3, <2>2 DEF RbdOpen
  <2>4. new \in Clients /\ new.node = n /\ new.nr = conns[n] + 1
    BY <2>2 DEF Clients
  <2>5. new \notin wire
    <3>1. new \in wire => new.nr <= conns[new.node]
      BY <1>0 DEF ClientInv
    <3>2. ~(conns[n] + 1 <= conns[n])
      BY <2>2
    <3>3. QED
      BY <2>4, <3>1, <3>2
  <2> HIDE DEF new
  <2>6. image' \in [Nodes -> Clients \cup {NoClient}]
    BY <1>0, <2>3, <2>4 DEF Types
  <2>7. \A m \in Nodes : conns[m] <= conns'[m] /\ conns[m] \in Nat /\ conns'[m] \in Nat
    BY <1>0, <2>1, <2>2, RbdAssumption DEF Types
  <2>8. \A c \in Clients : c.node \in Nodes /\ c.nr \in Nat
    BY RbdAssumption DEF Clients
  <2>9. ClientInv'
    <3>1. \A c \in Clients : c.nr <= conns[c.node] => c.nr <= conns'[c.node]
      BY <2>7, <2>8
    <3>2. \A c \in wire' : c.nr <= conns'[c.node]
      BY <1>0, <1>1, <3>1 DEF ClientInv, Types
    <3>3. ASSUME NEW m \in Nodes, image'[m] # NoClient
          PROVE  image'[m].node = m /\ image'[m].nr <= conns'[m]
      <4>1. CASE m = n
        BY <1>0, <2>2, <2>3, <2>4, <4>1 DEF Types
      <4>2. CASE m # n
        <5>1. image'[m] = image[m] /\ image[m] \in Clients
          BY <1>0, <2>3, <3>3, <4>2 DEF Types
        <5>2. image[m].node = m /\ image[m].nr <= conns[m]
          BY <1>0, <3>3, <5>1 DEF ClientInv
        <5>3. QED
          BY <3>1, <5>1, <5>2
      <4>3. QED
        BY <4>1, <4>2
    <3>4. QED
      BY <3>2, <3>3 DEF ClientInv
  <2>10. WireInv'
    BY <1>0, <1>1, <1>2, <2>3, <2>5 DEF WireInv, Types
  <2>11. QED
    BY <1>0, <1>1, <1>3, <2>2, <2>3, <2>6, <2>9, <2>10 DEF Types
<1>4. CASE ~ok
  <2>1. conns' = conns /\ image' = [image EXCEPT ![n] = NoClient]
    BY <1>4 DEF RbdOpen
  <2>2. NoClient \notin wire
    BY <1>0, NoClientApart DEF Types
  <2>3. ClientInv'
    BY <1>0, <1>1, <2>1 DEF ClientInv, Types
  <2>4. WireInv'
    BY <1>0, <1>1, <1>2, <2>1, <2>2 DEF WireInv, Types
  <2>5. QED
    BY <1>0, <1>1, <2>1, <2>3, <2>4 DEF Types
<1>5. QED
  BY <1>3, <1>4

\* tcmu_reopen_dev opens the image again, as a client nobody has fenced.
LEMMA ReopenOpenStep ==
    ASSUME FailoverInv, NEW n \in Nodes, ReopenOpen(n)
    PROVE  FailoverInv'
<1>0. Types /\ cp[n].pc = "open" /\ cp[n] # Idle /\ image[n] = NoClient /\ lockState[n] # "LOCKED"
  BY Busy DEF FailoverInv, ReopenOpen, At, CmdInv, DevInv, Owns
<1>1. PICK ok \in BOOLEAN :
         /\ RbdOpen(n, ok)
         /\ IF ok /\ ~cp[n].retried
            THEN cp' = [cp EXCEPT ![n].pc = IF cp[n].op = "stpg" THEN "has" ELSE "meta",
                                  ![n].retried = TRUE]
            ELSE Goto(n, "lost")
  BY DEF ReopenOpen
<1>2. /\ type' = type /\ lockState' = lockState /\ tpgEnabled' = tpgEnabled /\ io' = io /\ rec' = rec
      /\ inRecovery' \in [Nodes -> BOOLEAN]
  BY <1>0 DEF ReopenOpen, Set, Types
<1>3. /\ image' \in [Nodes -> Clients \cup {NoClient}] /\ conns' \in [Nodes -> 1 .. MaxConn]
      /\ owner' = owner /\ black' = black /\ tag' = tag /\ wire' = wire
      /\ \A m \in Nodes \ {n} : image'[m] = image[m]
      /\ ClientInv' /\ WireInv' /\ Honest(tag)'
  BY <1>1, <1>2, OpenEffect
<1>4. /\ Moves(n) /\ Carries(n)
      /\ \/ cp'[n].pc = "has" /\ cp[n].op = "stpg"
         \/ cp'[n].pc \in {"meta", "lost"}
  <2>1. CASE ok /\ ~cp[n].retried
    <3> DEFINE q == IF cp[n].op = "stpg" THEN "has" ELSE "meta"
               new == [cp[n] EXCEPT !.pc = q, !.retried = TRUE]
    <3>1. q \in CpPCs /\ cp[n] \in CmdRecords /\ (q = "meta" \/ (q = "has" /\ cp[n].op = "stpg"))
      BY <1>0 DEF CpPCs, Types
    <3>2. cp' = [cp EXCEPT ![n] = new]
      BY <1>0, <1>1, <2>1 DEF Types
    <3> HIDE DEF q
    <3>3. new \in CmdRecords /\ new.pc = q /\ new.op = cp[n].op /\ new.todo = cp[n].todo
      BY <3>1 DEF CmdRecords
    <3> HIDE DEF new
    <3>4. QED
      BY <1>0, <3>1, <3>2, <3>3 DEF Moves, Carries, Types
  <2>2. CASE ~(ok /\ ~cp[n].retried)
    BY <1>0, <1>1, <2>2, GotoEffect DEF CpPCs
  <2>3. QED
    BY <2>1, <2>2
<1>5. Types'
  BY <1>0, <1>2, <1>3, <1>4 DEF Types, Moves
<1>6. CmdInv(n)' /\ StpgInv(n)'
  BY <1>0, <1>4, PlainPlace, StpgKept DEF FailoverInv, Plain, CpPCs, StpgPlaces
<1>7. DevInv(n)'
  BY <1>0, <1>2 DEF FailoverInv, DevInv
<1>8. \A m \in Nodes \ {n} : CmdInv(m)' /\ StpgInv(m)' /\ DevInv(m)'
  BY <1>2, <1>3, <1>4, OthersKept DEF Moves
<1>9. QED
  BY <1>3, <1>5, <1>6, <1>7, <1>8 DEF FailoverInv

\* tcmu_notify_conn_lost leaves a recovery thread that is at work alone.
LEMMA ConnLostEffect ==
    ASSUME Types, NEW n \in Nodes, ConnLost(n)
    PROVE  /\ inRecovery' \in [Nodes -> BOOLEAN]
           /\ rec' \in [Nodes -> {"idle", "disable", "close", "open", "enable"}]
           /\ \A m \in Nodes : rec'[m] = rec[m] \/ (m = n /\ rec'[m] = "disable")
  BY DEF Types, ConnLost, AddToRecoveryList, Set

\* A connection that the command processor finds lost ends its call and has the
\* device recovered.
LEMMA LostStep ==
    ASSUME FailoverInv, NEW n \in Nodes, Lost(n)
    PROVE  FailoverInv'
<1>0. Types /\ cp[n].pc = "lost" /\ cp[n] # Idle
  BY Busy DEF FailoverInv, Lost, At
<1>1. /\ image' = image /\ conns' = conns /\ owner' = owner /\ black' = black /\ tag' = tag
      /\ wire' = wire /\ type' = type /\ lockState' = lockState /\ tpgEnabled' = tpgEnabled
      /\ io' = io
  BY DEF Lost, rbdVars
<1>2. /\ inRecovery' \in [Nodes -> BOOLEAN]
      /\ rec' \in [Nodes -> {"idle", "disable", "close", "open", "enable"}]
      /\ \A m \in Nodes : rec'[m] = rec[m] \/ (m = n /\ rec'[m] = "disable")
  BY <1>0, ConnLostEffect DEF Lost
<1>3. /\ Moves(n)
      /\ \/ Carries(n) /\ cp'[n].pc = "set" /\ cp'[n].rc = "EIO" /\ cp[n].op = "stpg"
         \/ cp'[n].pc = "idle" /\ cp'[n].op = "none"
  <2>1. CASE cp[n].op = "stpg"
    BY <1>0, <2>1, GotEffect DEF Lost, CpPCs, Rcs
  <2>2. CASE cp[n].op # "stpg"
    BY <1>0, <2>2, AnswerEffect DEF Lost
  <2>3. QED
    BY <2>1, <2>2
<1>4. Types'
  BY <1>0, <1>1, <1>2, <1>3 DEF Types, Moves
<1>5. ClientInv' /\ Honest(tag)' /\ WireInv'
  BY <1>1 DEF FailoverInv, ClientInv, Honest, WireInv, Failover, FailoverType
<1>6. CmdInv(n)' /\ StpgInv(n)'
  <2>1. CmdInv(n)'
    BY <1>3 DEF CmdInv, At
  <2>2. StpgInv(n)'
    BY <1>0, <1>3, StpgKept, StpgFresh DEF FailoverInv, StpgPlaces
  <2>3. QED
    BY <2>1, <2>2
<1>7. DevInv(n)'
  BY <1>0, <1>1, <1>2 DEF FailoverInv, DevInv, Owns
<1>8. \A m \in Nodes \ {n} : CmdInv(m)' /\ StpgInv(m)' /\ DevInv(m)'
  BY <1>1, <1>2, <1>3, OthersKept DEF Moves
<1>9. QED
  BY <1>4, <1>5, <1>6, <1>7, <1>8 DEF FailoverInv

\* alua_sync_state.
LEMMA RtpgSyncStep ==
    ASSUME FailoverInv, NEW n \in Nodes, RtpgSync(n)
    PROVE  FailoverInv'
<1>0. Types /\ cp[n].pc = "sync" /\ cp[n] # Idle
  BY Busy DEF FailoverInv, RtpgSync, At
<1>1. /\ image' = image /\ conns' = conns /\ owner' = owner /\ black' = black /\ tag' = tag
      /\ wire' = wire /\ type' = type /\ inRecovery' = inRecovery /\ tpgEnabled' = tpgEnabled
      /\ io' = io /\ rec' = rec
  BY DEF RtpgSync, rbdVars
<1>2. /\ lockState' \in [Nodes -> {"UNLOCKED", "LOCKED"}]
      /\ \A m \in Nodes \ {n} : lockState'[m] = lockState[m]
      /\ lockState'[n] = "LOCKED" => lockState[n] = "LOCKED" /\ n \in Active(n)
  BY <1>0 DEF RtpgSync, Set, Types
<1>3. /\ Moves(n) /\ Carries(n) /\ cp'[n].pc = "report" /\ cp'[n].rc = cp[n].rc
      /\ cp'[n].seen = cp[n].seen /\ cp'[n].truth = cp[n].truth
  <2> DEFINE new == [cp[n] EXCEPT !.pc = "report"]
  <2>1. cp' = [cp EXCEPT ![n] = new] /\ cp[n] \in CmdRecords /\ "report" \in CpPCs
    BY <1>0 DEF RtpgSync, Types, CpPCs
  <2>2. /\ new \in CmdRecords /\ new.pc = "report" /\ new.op = cp[n].op /\ new.todo = cp[n].todo
        /\ new.rc = cp[n].rc /\ new.seen = cp[n].seen /\ new.truth = cp[n].truth
    BY <2>1 DEF CmdRecords
  <2> HIDE DEF new
  <2>3. QED
    BY <1>0, <2>1, <2>2 DEF Moves, Carries, Types
<1>4. Types'
  BY <1>0, <1>1, <1>2, <1>3 DEF Types, Moves
<1>5. ClientInv' /\ Honest(tag)' /\ WireInv'
  BY <1>1 DEF FailoverInv, ClientInv, Honest, WireInv, Failover, FailoverType
<1>6. CmdInv(n)' /\ StpgInv(n)'
  <2>1. CmdInv(n)'
    BY <1>0, <1>2, <1>3 DEF FailoverInv, CmdInv, At, Active, Honest
  <2>2. QED
    BY <2>1, <1>0, <1>3, StpgKept DEF FailoverInv, StpgPlaces
<1>7. DevInv(n)'
  BY <1>0, <1>1, <1>2 DEF FailoverInv, DevInv, Owns
<1>8. \A m \in Nodes \ {n} : CmdInv(m)' /\ StpgInv(m)' /\ DevInv(m)'
  BY <1>1, <1>2, <1>3, OthersKept DEF Moves
<1>9. QED
  BY <1>4, <1>5, <1>6, <1>7, <1>8 DEF FailoverInv

-----------------------------------------------------------------------------
(* The recovery thread, restarts and the cluster.                          *)

\* Recovery disables the target port group.
LEMMA RecDisableStep ==
    ASSUME FailoverInv, NEW n \in Nodes, RecDisable(n)
    PROVE  FailoverInv'
<1>0. Types
  BY DEF FailoverInv
<1>1. /\ image' = image /\ conns' = conns /\ owner' = owner /\ black' = black /\ tag' = tag
      /\ wire' = wire /\ type' = type /\ inRecovery' = inRecovery /\ io' = io
      /\ lockState' = lockState /\ cp' = cp /\ cp[n] = Idle
      /\ tpgEnabled' = [tpgEnabled EXCEPT ![n] = FALSE] /\ rec' = [rec EXCEPT ![n] = "close"]
  BY DEF RecDisable, rbdVars, Set
<1>2. Types'
  BY <1>0, <1>1 DEF Types
<1>3. ClientInv' /\ Honest(tag)' /\ WireInv'
  BY <1>1 DEF FailoverInv, ClientInv, Honest, WireInv, Failover, FailoverType
<1>4. CmdInv(n)' /\ StpgInv(n)'
  BY <1>1 DEF FailoverInv, CmdInv, StpgInv, Honest, Owns, At, Active
<1>5. DevInv(n)'
  BY <1>0, <1>1 DEF FailoverInv, Types, DevInv, Owns
<1>6. \A m \in Nodes \ {n} : CmdInv(m)' /\ StpgInv(m)' /\ DevInv(m)'
  BY <1>0, <1>1, OthersKept DEF Types
<1>7. QED
  BY <1>2, <1>3, <1>4, <1>5, <1>6 DEF FailoverInv

\* Recovery closes the image when no command is left.
LEMMA RecCloseStep ==
    ASSUME FailoverInv, NEW n \in Nodes, RecClose(n)
    PROVE  FailoverInv'
<1>0. Types /\ rec[n] = "close" /\ cp[n] = Idle /\ image[n] # NoClient /\ ~tpgEnabled[n]
  BY DEF FailoverInv, DevInv, RecClose
<1>1. /\ RbdClose(n) /\ ~io[n] /\ type' = type /\ io' = io /\ tpgEnabled' = tpgEnabled
      /\ rec' = [rec EXCEPT ![n] = "open"] /\ inRecovery' = inRecovery /\ cp' = cp
      /\ lockState' = [lockState EXCEPT ![n] = "UNLOCKED"]
  BY DEF RecClose, Set
<1>2. /\ image' = [image EXCEPT ![n] = NoClient] /\ image' \in [Nodes -> Clients \cup {NoClient}]
      /\ conns' = conns /\ black' = black /\ tag' = tag /\ wire' = wire
      /\ owner' \in Clients \cup {NoClient}
      /\ owner' = owner \/ owner = image[n]
      /\ lockState' \in [Nodes -> {"UNLOCKED", "LOCKED"}] /\ lockState'[n] = "UNLOCKED"
      /\ ClientInv' /\ WireInv' /\ Honest(tag)'
  BY <1>0, <1>1, CloseEffect
<1>3. Types'
  BY <1>0, <1>1, <1>2 DEF Types
<1>4. CmdInv(n)' /\ StpgInv(n)'
  BY <1>0, <1>1, IdleRecord, PlainPlace, StpgFresh DEF Plain, CpPCs, StpgPlaces
<1>5. DevInv(n)'
  BY <1>0, <1>1, <1>2 DEF DevInv, Types
<1>6. \A m \in Nodes \ {n} : CmdInv(m)' /\ StpgInv(m)' /\ DevInv(m)'
  BY <1>0, <1>1, <1>2, OthersKept DEF Types
<1>7. QED
  BY <1>2, <1>3, <1>4, <1>5, <1>6 DEF FailoverInv

\* Recovery opens it again.
LEMMA RecOpenStep ==
    ASSUME FailoverInv, NEW n \in Nodes, RecOpen(n)
    PROVE  FailoverInv'
<1>0. /\ Types /\ rec[n] = "open" /\ cp[n] = Idle /\ ~tpgEnabled[n] /\ image[n] = NoClient
      /\ lockState[n] # "LOCKED"
  BY DEF FailoverInv, DevInv, Owns, RecOpen
<1>1. PICK ok \in BOOLEAN :
         /\ RbdOpen(n, ok)
         /\ rec' = Set(rec, n, IF ok THEN "enable" ELSE "open")
         /\ inRecovery' = Set(inRecovery, n, ~ok)
  BY DEF RecOpen
<1>2. type' = type /\ lockState' = lockState /\ tpgEnabled' = tpgEnabled /\ io' = io /\ cp' = cp
  BY DEF RecOpen
<1>3. /\ image' \in [Nodes -> Clients \cup {NoClient}] /\ conns' \in [Nodes -> 1 .. MaxConn]
      /\ owner' = owner /\ black' = black /\ tag' = tag /\ wire' = wire
      /\ ~ok => image'[n] = NoClient
      /\ \A m \in Nodes \ {n} : image'[m] = image[m]
      /\ ClientInv' /\ WireInv' /\ Honest(tag)'
  BY <1>1, <1>2, OpenEffect
<1>4. /\ rec' \in [Nodes -> {"idle", "disable", "close", "open", "enable"}]
      /\ rec'[n] = "open" => ~ok
      /\ \A m \in Nodes \ {n} : rec'[m] = rec[m]
  BY <1>0, <1>1 DEF Set, Types
<1>5. inRecovery' \in [Nodes -> BOOLEAN]
  BY <1>0, <1>1 DEF Set, Types
<1>6. Types'
  BY <1>0, <1>2, <1>3, <1>4, <1>5 DEF Types
<1>7. CmdInv(n)' /\ StpgInv(n)'
  BY <1>0, <1>2, IdleRecord, PlainPlace, StpgFresh DEF Plain, CpPCs, StpgPlaces
<1>8. DevInv(n)'
  BY <1>0, <1>2, <1>3, <1>4 DEF DevInv
<1>9. \A m \in Nodes \ {n} : CmdInv(m)' /\ StpgInv(m)' /\ DevInv(m)'
  BY <1>2, <1>3, <1>4, OthersKept
<1>10. QED
  BY <1>3, <1>6, <1>7, <1>8, <1>9 DEF FailoverInv

\* Recovery enables the target port group.
LEMMA RecEnableStep ==
    ASSUME FailoverInv, NEW n \in Nodes, RecEnable(n)
    PROVE  FailoverInv'
<1>0. Types
  BY DEF FailoverInv
<1>1. /\ image' = image /\ conns' = conns /\ owner' = owner /\ black' = black /\ tag' = tag
      /\ wire' = wire /\ type' = type /\ inRecovery' = inRecovery /\ io' = io
      /\ lockState' = lockState /\ cp' = cp
      /\ tpgEnabled' = [tpgEnabled EXCEPT ![n] = TRUE] /\ rec' = [rec EXCEPT ![n] = "idle"]
  BY DEF RecEnable, rbdVars, Set
<1>2. Types'
  BY <1>0, <1>1 DEF Types
<1>3. ClientInv' /\ Honest(tag)' /\ WireInv'
  BY <1>1 DEF FailoverInv, ClientInv, Honest, WireInv, Failover, FailoverType
<1>4. CmdInv(n)' /\ StpgInv(n)'
  BY <1>1 DEF FailoverInv, CmdInv, StpgInv, Honest, Owns, At, Active
<1>5. DevInv(n)'
  BY <1>0, <1>1 DEF FailoverInv, Types, DevInv, Owns
<1>6. \A m \in Nodes \ {n} : CmdInv(m)' /\ StpgInv(m)' /\ DevInv(m)'
  BY <1>0, <1>1, OthersKept DEF Types
<1>7. QED
  BY <1>2, <1>3, <1>4, <1>5, <1>6 DEF FailoverInv

\* A daemon that restarts opens the image as a new client.
LEMMA RestartStep ==
    ASSUME FailoverInv, NEW n \in Nodes, Restart(n)
    PROVE  FailoverInv'
<1>0. Types
  BY DEF FailoverInv
<1>1. /\ RbdOpen(n, TRUE) /\ type' = type
      /\ lockState' = [lockState EXCEPT ![n] = "UNLOCKED"]
      /\ inRecovery' = [inRecovery EXCEPT ![n] = FALSE]
      /\ rec' = [rec EXCEPT ![n] = "idle"] /\ tpgEnabled' = [tpgEnabled EXCEPT ![n] = TRUE]
      /\ io' = [io EXCEPT ![n] = FALSE] /\ cp' = [cp EXCEPT ![n] = Idle]
  BY DEF Restart, Set
<1>2. \A m \in Nodes \ {n} : io'[m] = io[m]
  BY <1>0, <1>1 DEF Types
<1>3. /\ image' \in [Nodes -> Clients \cup {NoClient}] /\ conns' \in [Nodes -> 1 .. MaxConn]
      /\ owner' = owner /\ black' = black /\ tag' = tag /\ wire' = wire
      /\ \A m \in Nodes \ {n} : image'[m] = image[m]
      /\ ClientInv' /\ WireInv' /\ Honest(tag)'
  BY <1>1, <1>2, OpenEffect
<1>4. Types'
  BY <1>0, <1>1, <1>3, IdleRecord DEF Types
<1>5. cp'[n].pc = "idle" /\ cp'[n].op = "none" /\ lockState'[n] = "UNLOCKED" /\ rec'[n] = "idle"
  BY <1>0, <1>1, IdleRecord DEF Types
<1>6. CmdInv(n)' /\ StpgInv(n)'
  BY <1>5, PlainPlace, StpgFresh DEF Plain, CpPCs, StpgPlaces
<1>7. DevInv(n)'
  BY <1>5 DEF DevInv
<1>8. \A m \in Nodes \ {n} : CmdInv(m)' /\ StpgInv(m)' /\ DevInv(m)'
  BY <1>0, <1>1, <1>3, OthersKept DEF Types
<1>9. QED
  BY <1>3, <1>4, <1>6, <1>7, <1>8 DEF FailoverInv

\* The cluster carries out a write that was given up.
LEMMA LateWriteLandsStep ==
    ASSUME FailoverInv, NEW c \in late, LateWriteLands(c), UNCHANGED <<devVars, cp>>
    PROVE  FailoverInv'
<1>1. /\ image' = image /\ conns' = conns /\ owner' = owner /\ black' = black /\ tag' = tag
      /\ wire' = wire /\ type' = type /\ inRecovery' = inRecovery /\ io' = io
      /\ lockState' = lockState /\ cp' = cp /\ tpgEnabled' = tpgEnabled /\ rec' = rec
  BY DEF LateWriteLands, devVars
<1>2. Types' /\ ClientInv' /\ Honest(tag)' /\ WireInv'
  BY <1>1 DEF FailoverInv, Types, ClientInv, Honest, WireInv, Failover, FailoverType
<1>3. \A m \in Nodes : CmdInv(m)' /\ StpgInv(m)' /\ DevInv(m)'
  BY <1>1 DEF FailoverInv, CmdInv, StpgInv, DevInv, Honest, Owns, At, Active
<1>4. QED
  BY <1>2, <1>3 DEF FailoverInv

\* The cluster carries a write out.
LEMMA WriteLandsStep ==
    ASSUME FailoverInv, NEW c \in wire, WriteLands(c), UNCHANGED <<devVars, cp>>
    PROVE  FailoverInv'
<1>1. /\ image' = image /\ conns' = conns /\ owner' = owner /\ black' = black /\ tag' = tag
      /\ wire' = wire \ {c} /\ type' = type /\ inRecovery' = inRecovery /\ io' = io
      /\ lockState' = lockState /\ cp' = cp /\ tpgEnabled' = tpgEnabled /\ rec' = rec
  BY DEF WriteLands, devVars
<1>2. Types'
  BY <1>1 DEF FailoverInv, Types
<1>3. ClientInv' /\ Honest(tag)' /\ WireInv'
  BY <1>1 DEF FailoverInv, ClientInv, Honest, WireInv, Failover, FailoverType
<1>4. \A m \in Nodes : CmdInv(m)' /\ StpgInv(m)' /\ DevInv(m)'
  BY <1>1 DEF FailoverInv, CmdInv, StpgInv, DevInv, Honest, Owns, At, Active
<1>5. QED
  BY <1>2, <1>3, <1>4 DEF FailoverInv

-----------------------------------------------------------------------------
(* The theorems.                                                           *)

\* Every step keeps the invariant.
LEMMA FailoverStep == FailoverInv /\ [Next]_vars => FailoverInv'
<1> SUFFICES ASSUME FailoverInv, [Next]_vars PROVE FailoverInv'
  OBVIOUS
<1>1. ASSUME NEW n \in Nodes, CmdprocStep(n) PROVE FailoverInv'
  BY <1>1, CmdOnlyStep, StpgUnlockStep, LockBreaksStep, LockAcquiresStep, LockTagSetStep,
     LockSetStep,
     ReopenStep, ReopenCloseStep, ReopenOpenStep, LostStep, RtpgSyncStep DEF CmdprocStep
<1>2. ASSUME NEW n \in Nodes,
             \/ IoStart(n) \/ IoDone(n) \/ StpgStart(n) \/ RtpgStart(n)
             \/ RecDisable(n) \/ RecClose(n) \/ RecOpen(n) \/ RecEnable(n) \/ Restart(n)
      PROVE  FailoverInv'
  BY <1>2, IoStartStep, IoDoneStep, CmdOnlyStep, RecDisableStep, RecCloseStep, RecOpenStep,
     RecEnableStep, RestartStep
<1>3. ASSUME NEW c \in wire, WriteLands(c), UNCHANGED <<devVars, cp>> PROVE FailoverInv'
  BY <1>3, WriteLandsStep
<1>4. ASSUME NEW c \in late, LateWriteLands(c), UNCHANGED <<devVars, cp>> PROVE FailoverInv'
  BY <1>4, LateWriteLandsStep
<1>5. CASE UNCHANGED vars
  <2>1. /\ image' = image /\ conns' = conns /\ owner' = owner /\ black' = black /\ tag' = tag
        /\ wire' = wire /\ type' = type /\ inRecovery' = inRecovery /\ io' = io
        /\ lockState' = lockState /\ cp' = cp /\ tpgEnabled' = tpgEnabled /\ rec' = rec
    BY <1>5 DEF vars, rbdVars
  <2>2. Types' /\ ClientInv' /\ Honest(tag)' /\ WireInv'
    BY <2>1 DEF FailoverInv, Types, ClientInv, Honest, WireInv, Failover, FailoverType
  <2>3. \A m \in Nodes : CmdInv(m)' /\ StpgInv(m)' /\ DevInv(m)'
    BY <2>1 DEF FailoverInv, CmdInv, StpgInv, DevInv, Honest, Owns, At, Active
  <2>4. QED
    BY <2>2, <2>3 DEF FailoverInv
<1>6. QED
  BY <1>1, <1>2, <1>3, <1>4, <1>5 DEF Next

\* A step that leaves the lock and the blacklist alone, gives no write up and
\* forgets none keeps the writes given up where they are.
LEMMA LateKept ==
    ASSUME LateInv, type' = type, late' = late, left' = left,
           \/ owner' = owner /\ black' = black
           \/ owner = NoClient /\ black' = black
           \/ owner' = NoClient /\ black' = black \cup {owner}
    PROVE  LateInv'
<1>1. Failover' = Failover
  BY DEF Failover, FailoverType
<1>2. NoClient \notin late
  BY NoClientApart DEF LateInv
<1>3. QED
  BY <1>1, <1>2 DEF LateInv

\* Whoever gives the lock back is remembered if writes of it were given up.
LEMMA GaveBackStep ==
    ASSUME LateInv, NEW n \in Nodes, GaveBack(n), type' = type, late' = late, black' = black,
           owner' = owner \/ owner = image[n]
    PROVE  LateInv'
<1>1. Failover' = Failover
  BY DEF Failover, FailoverType
<1>2. left \subseteq left' /\ left' \subseteq left \cup late
      /\ (owner' # owner => late \cap {owner} \subseteq left')
  BY DEF GaveBack
<1>3. QED
  BY <1>1, <1>2 DEF LateInv

\* A write in hand that librbd gives up is the owner's.
LEMMA IoDoneLate ==
    ASSUME FailoverInv, LateInv, NEW n \in Nodes, IoDone(n)
    PROVE  LateInv'
<1>1. type' = type /\ owner' = owner /\ black' = black /\ left' = left
      /\ late' \subseteq late \cup wire /\ late \subseteq late'
  BY DEF IoDone, Blacklisted, Timedout, RbdGiveUp, rbdVars
<1>2. Failover' = Failover
  BY <1>1 DEF Failover, FailoverType
<1>3. wire \subseteq Clients /\ (Failover = "EXPLICIT" => \A c \in wire \ black : owner = c)
  BY DEF FailoverInv, Types, WireInv
<1>4. QED
  BY <1>1, <1>2, <1>3 DEF LateInv

\* Every step keeps the writes given up the owner's, fenced or accounted for.
LEMMA LateStep == FailoverInv /\ LateInv /\ [Next]_vars => LateInv'
<1> SUFFICES ASSUME FailoverInv, LateInv, [Next]_vars PROVE LateInv'
  OBVIOUS
<1>1. ASSUME NEW n \in Nodes, StpgUnlock(n) PROVE LateInv'
  <2>1. GaveBack(n) /\ type' = type /\ late' = late /\ black' = black /\ (owner' = owner \/ owner = image[n])
    BY <1>1 DEF StpgUnlock, RbdUnlock, Done
  <2>2. QED
    BY <2>1, GaveBackStep
<1>2. ASSUME NEW n \in Nodes, ReopenClose(n) \/ RecClose(n) PROVE LateInv'
  <2>1. GaveBack(n) /\ type' = type /\ late' = late /\ black' = black /\ (owner' = owner \/ owner = image[n])
    BY <1>2 DEF ReopenClose, RecClose, RbdClose
  <2>2. QED
    BY <2>1, GaveBackStep
<1>3. ASSUME NEW n \in Nodes, LockBreaks(n) PROVE LateInv'
  <2>1. type' = type /\ late' = late /\ left' = left
    BY <1>3 DEF LockBreaks, LockBreak, devVars
  <2>2. \/ owner' = owner /\ black' = black
        \/ owner' = NoClient /\ black' = black \cup {owner}
    BY <1>3 DEF LockBreaks, LockBreak, Done
  <2>3. QED
    BY <2>1, <2>2, LateKept
<1>4. ASSUME NEW n \in Nodes, LockAcquires(n) PROVE LateInv'
  <2>1. type' = type /\ late' = late /\ left' = left /\ black' = black
    BY <1>4 DEF LockAcquires, LockAcquire, devVars
  <2>2. owner' = owner \/ owner = NoClient
    BY <1>4 DEF LockAcquires, LockAcquire, Done
  <2>3. QED
    BY <2>1, <2>2, LateKept
<1>5. ASSUME NEW n \in Nodes,
             \/ LockTagSet(n) \/ IoStart(n) \/ ReopenOpen(n) \/ RecOpen(n) \/ Restart(n)
      PROVE  LateInv'
  <2>1. type' = type /\ late' = late /\ left' = left /\ black' = black /\ owner' = owner
    BY <1>5 DEF LockTagSet, MetadataSet, IoStart, RbdSubmit, ReopenOpen, RecOpen, Restart, RbdOpen,
                clusterVars, devVars
  <2>2. QED
    BY <2>1, LateKept
<1>6. ASSUME NEW n \in Nodes,
             \/ StpgStart(n) \/ StpgNext(n) \/ LockWait(n) \/ LockHas(n) \/ LockOwners(n)
             \/ LockTagOwner(n) \/ LockSet(n) \/ Reopen(n) \/ Lost(n) \/ RtpgStart(n) \/ RtpgMeta(n)
             \/ RtpgOwner(n) \/ RtpgSync(n) \/ RtpgReport(n) \/ RecDisable(n) \/ RecEnable(n)
      PROVE  LateInv'
  <2>1. UNCHANGED rbdVars /\ type' = type
    BY <1>6 DEF StpgStart, StpgNext, LockWait, LockHas, LockOwners, LockTagOwner, LockSet, Reopen,
                Lost, RtpgStart, RtpgMeta, RtpgOwner, RtpgSync, RtpgReport, RecDisable, RecEnable, devVars
  <2>2. QED
    BY <2>1, LateKept DEF rbdVars
<1>7. ASSUME NEW n \in Nodes, IoDone(n) PROVE LateInv'
  BY <1>7, IoDoneLate
<1>8. ASSUME NEW c \in wire, WriteLands(c), UNCHANGED <<devVars, cp>> PROVE LateInv'
  BY <1>8, LateKept DEF WriteLands, devVars
<1>9. ASSUME NEW c \in late, LateWriteLands(c), UNCHANGED <<devVars, cp>> PROVE LateInv'
  <2>1. type' = type /\ owner' = owner /\ black' = black /\ late' = late \ {c} /\ left' = left \ {c}
    BY <1>9 DEF LateWriteLands, devVars
  <2>2. Failover' = Failover
    BY <2>1 DEF Failover, FailoverType
  <2>3. QED
    BY <2>1, <2>2 DEF LateInv
<1>10. CASE UNCHANGED vars
  BY <1>10, LateKept DEF vars, rbdVars
<1>11. QED
  BY <1>1, <1>2, <1>3, <1>4, <1>5, <1>6, <1>7, <1>8, <1>9, <1>10 DEF Next, CmdprocStep

\* The invariant holds when every node has opened its image.
LEMMA FailoverInit == Init => FailoverInv
<1> SUFFICES ASSUME Init PROVE FailoverInv
  OBVIOUS
<1> USE DEF Init, RbdInit
<1>1. Types
  <2>1. \A n \in Nodes : [node |-> n, nr |-> 1] \in Clients
    BY RbdAssumption DEF Clients
  <2>2. QED
    BY <2>1, IdleRecord, RbdAssumption DEF Types
<1>2. ClientInv /\ WireInv
  BY DEF ClientInv, WireInv
<1>3. Honest(tag)
  BY DEF Honest, NoTag, NoClient
<1>4. \A n \in Nodes : CmdInv(n) /\ StpgInv(n) /\ DevInv(n)
  BY IdleRecord DEF CmdInv, StpgInv, StpgPlaces, DevInv, At
<1>5. QED
  BY <1>1, <1>2, <1>3, <1>4 DEF FailoverInv

\* No write has been given up then.
LEMMA LateInit == Init => LateInv
  BY DEF Init, RbdInit, LateInv

\* Both invariants hold of every behaviour.
LEMMA FailoverAlways == Spec => [](FailoverInv /\ LateInv)
<1>1. Init => FailoverInv /\ LateInv
  BY FailoverInit, LateInit
<1>2. FailoverInv /\ LateInv /\ [Next]_vars => FailoverInv' /\ LateInv'
  BY FailoverStep, LateStep
<1>3. QED
  BY <1>1, <1>2, PTL DEF Spec

\* A node whose device says LOCKED holds the image's lock or is blacklisted,
\* whatever other nodes, recoveries, timeouts and restarts did to the lock.
THEOREM LockedIsOwnedOrFenced == Spec => []LockedOwnsOrFenced
<1>1. FailoverInv /\ LateInv => LockedOwnsOrFenced
  <2> SUFFICES ASSUME FailoverInv, LateInv PROVE LockedOwnsOrFenced
    OBVIOUS
  <2>1. TypeOK
    BY DEF FailoverInv, LateInv, Types, TypeOK, CmdRecords, Tags
  <2>2. QED
    BY <2>1 DEF FailoverInv, DevInv, Owns, LockedOwnsOrFenced
<1>2. QED
  BY <1>1, FailoverAlways, PTL

\* REPORT TARGET PORT GROUPS names no group active but that of the node that
\* held the lock when the tag was checked, and a node that reports another
\* group than its own takes no more writes.
THEOREM ReportIsTrue == Spec => []ReportsTruth
<1>1. FailoverInv => ReportsTruth
  BY DEF FailoverInv, CmdInv, ReportsTruth, At, Active
<1>2. QED
  BY <1>1, FailoverAlways, PTL

\* No write that the cluster may still carry out is that of a client without the
\* lock while another one holds it: the late writes of a node that was cut off,
\* restarted or told to stand by are kept out, those that librbd had given up
\* among them if the node did not itself give the lock back with them about.
THEOREM StaleWritesFenced == Spec => []NoStaleWrite
<1>1. FailoverInv /\ LateInv => NoStaleWrite
  BY DEF FailoverInv, WireInv, LateInv, NoStaleWrite
<1>2. QED
  BY <1>1, FailoverAlways, PTL

=============================================================================
