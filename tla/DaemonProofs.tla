---------------------------- MODULE DaemonProofs ----------------------------
(***************************************************************************)
(* Invariance proofs for Daemon, for all sets of devices, handlers and     *)
(* calls and all bounds: between events the devices that are served are    *)
(* open and running, and no handler that was freed can be reached.  And    *)
(* for LogRing, the daemon's log, for a ring of any size and any number of *)
(* messages.                                                               *)
(***************************************************************************)
EXTENDS Daemon, LogRing, SequenceTheorems, FiniteSetTheorems, TLAPS

-----------------------------------------------------------------------------
(* The inductive invariant, the devices.                                   *)

ActPCs == {"find", "block", "open", "added", "take", "close", "unblock", "reconfig", "done"}
Acts == [pc : ActPCs, op : {"scan", "netlink", "close"}, d : Devices, ok : BOOLEAN]
Requests == {"add", "remove", "reconfig"}
Messages == [cmd : Requests, d : Devices]
Blocks == {"no", "yes", "stuck"}
Kernels == [present : BOOLEAN, blocked : Blocks, fds : 0 .. 1]

Distinct(seq) == \A i, j \in DOMAIN seq : seq[i] = seq[j] => i = j
In(d, seq) == \E i \in DOMAIN seq : seq[i] = d

DevTypes ==
    /\ phase \in {"down", "netlink", "scan", "run", "close"} /\ todo \in Seq(Devices) /\ served \in Seq(Devices)
    /\ act \in Acts \cup {NoAct}
    /\ kern \in [Devices -> Kernels]
    /\ pend \in [Devices -> Requests \cup {"none", "lost"}] /\ nlq \in Seq(Messages)

\* Each message on the socket, and the one in hand, is what its device's owner
\* waits for.
NetlinkInv ==
    /\ \A i \in DOMAIN nlq : pend[nlq[i].d] = nlq[i].cmd
    /\ \A i, j \in DOMAIN nlq : nlq[i].d = nlq[j].d => i = j
    /\ act.op = "netlink" =>
         /\ pend[act.d] # "none" /\ \A i \in DOMAIN nlq : nlq[i].d # act.d
         /\ act.pc \in {"find", "open", "added"} => pend[act.d] = "add"
         /\ act.pc # "block"

\* An open file belongs to a device that is served, or to one being set up or
\* taken down, never to both.
OpenInv ==
    /\ Distinct(served)
    /\ act.pc \in {"added", "close"} => ~In(act.d, served)
    /\ \A d \in Devices :
         kern[d].fds = 1 <=> In(d, served) \/ (act.d = d /\ act.pc \in {"added", "close"})

\* While close_devices runs, what is left to close is served.
CloseInv ==
    /\ act.op = "close" => phase = "close"
    /\ act.pc = "take" => act.op \in {"netlink", "close"}
    /\ phase = "close" =>
         /\ Distinct(todo) /\ \A i \in DOMAIN todo : In(todo[i], served)
         /\ act.op \in {"none", "close"}
         /\ act.op = "close" =>
              /\ ~In(act.d, todo)
              /\ act.pc \in {"block", "take"} => In(act.d, served)

\* A device that is served, or that the kernel waits to see added, is blocked
\* only while it is being set up or taken down, or if it could not be unblocked.
BlockedInv ==
    \A d \in Devices :
      /\ kern[d].blocked # "no" => kern[d].present
      /\ kern[d].blocked = "yes" /\ (In(d, served) \/ pend[d] = "add") =>
             /\ act.d = d /\ act.op \in {"scan", "close"}
             /\ act.pc \in {"open", "added", "take", "close", "unblock"}

DeviceInv == DevTypes /\ NetlinkInv /\ OpenInv /\ CloseInv /\ BlockedInv

-----------------------------------------------------------------------------
(* The inductive invariant, D-Bus.                                         *)

Events == [ev : {"call", "up", "down"}, c : Calls]
CallStates == {"unused", "sent", "watching", "gone"}
CallRecords ==
    [sub : Subtypes \cup {"none"}, st : CallStates, inv : BOOLEAN, freed : BOOLEAN,
     reply : {"none", "TRUE", "FALSE"}]

BusTypes ==
    /\ con \in [Consumers -> [own : BOOLEAN, svc : BOOLEAN, wait : Calls \cup {NoHandler}]]
    /\ call \in [Calls -> CallRecords]
    /\ reg \subseteq Builtin \cup Calls /\ exported \in [Subtypes -> Builtin \cup Calls \cup {NoHandler}]
    /\ busq \in Seq(Events)

\* A call that waits on the bus was not looked at yet, and waits once.
QueueInv ==
    \A i \in DOMAIN busq : busq[i].ev = "call" =>
      /\ call[busq[i].c].st = "sent"
      /\ \A j \in DOMAIN busq : busq[j].ev = "call" /\ busq[j].c = busq[i].c => i = j

\* A call's handler is registered or exported while its name is watched, and
\* exported for its own subtype; it is freed when nobody watches any more.
HandlerInv ==
    /\ \A c \in Calls : c \in reg => call[c].st = "watching"
    /\ \A s \in Subtypes :
         exported[s] \in Calls => call[exported[s]].st = "watching" /\ call[exported[s]].sub = s
    /\ \A c \in Calls : call[c].freed => call[c].st = "gone"
    /\ \A g, h \in reg : Subtype(g) = Subtype(h) => g = h
    /\ phase \in {"down", "netlink", "scan"} => reg \subseteq Builtin

BusInv == BusTypes /\ QueueInv /\ HandlerInv

-----------------------------------------------------------------------------
(* Sequences.                                                              *)

\* A device at the end of a list.
LEMMA AppendEffect ==
    ASSUME NEW S, NEW seq \in Seq(S), NEW e \in S
    PROVE  /\ Append(seq, e) \in Seq(S)
           /\ \A d : In(d, Append(seq, e)) <=> In(d, seq) \/ d = e
           /\ Distinct(seq) /\ ~In(e, seq) => Distinct(Append(seq, e))
<1>1. /\ Append(seq, e) \in Seq(S) /\ DOMAIN Append(seq, e) = 1 .. Len(seq) + 1
      /\ \A i \in 1 .. Len(seq) : Append(seq, e)[i] = seq[i]
      /\ Append(seq, e)[Len(seq) + 1] = e /\ DOMAIN seq = 1 .. Len(seq) /\ Len(seq) \in Nat
  OBVIOUS
<1>2. QED
  BY <1>1 DEF In, Distinct

\* A list without its head.
LEMMA TailEffect ==
    ASSUME NEW S, NEW seq \in Seq(S), seq # << >>
    PROVE  /\ Tail(seq) \in Seq(S) /\ Head(seq) \in S /\ In(Head(seq), seq)
           /\ \A i \in DOMAIN Tail(seq) : i + 1 \in DOMAIN seq /\ Tail(seq)[i] = seq[i + 1]
           /\ \A d : In(d, Tail(seq)) => In(d, seq)
           /\ Distinct(seq) => Distinct(Tail(seq)) /\ ~In(Head(seq), Tail(seq))
<1>1. /\ Tail(seq) \in Seq(S) /\ DOMAIN Tail(seq) = 1 .. Len(seq) - 1 /\ Len(seq) \in Nat \ {0}
      /\ \A i \in 1 .. Len(seq) - 1 : Tail(seq)[i] = seq[i + 1]
      /\ DOMAIN seq = 1 .. Len(seq) /\ Head(seq) = seq[1] /\ Head(seq) \in S
  BY HeadTailProperties, EmptySeq, LenProperties
<1>2. /\ In(Head(seq), seq)
      /\ \A i \in DOMAIN Tail(seq) : i + 1 \in DOMAIN seq /\ Tail(seq)[i] = seq[i + 1]
  BY <1>1 DEF In
<1>3. \A d : In(d, Tail(seq)) => In(d, seq)
  BY <1>2 DEF In
<1>4. Distinct(seq) => Distinct(Tail(seq)) /\ ~In(Head(seq), Tail(seq))
  BY <1>1, <1>2 DEF In, Distinct
<1>5. QED
  BY <1>1, <1>2, <1>3, <1>4

\* A list from its end to its start.
LEMMA ReverseEffect ==
    ASSUME NEW S, NEW seq \in Seq(S)
    PROVE  /\ Reverse(seq) \in Seq(S)
           /\ \A i \in DOMAIN Reverse(seq) : In(Reverse(seq)[i], seq)
           /\ Distinct(seq) => Distinct(Reverse(seq))
<1>1. /\ Len(seq) \in Nat /\ DOMAIN seq = 1 .. Len(seq) /\ DOMAIN Reverse(seq) = 1 .. Len(seq)
      /\ \A i \in 1 .. Len(seq) : /\ (Len(seq) - i) + 1 \in 1 .. Len(seq)
                                  /\ Reverse(seq)[i] = seq[(Len(seq) - i) + 1]
  BY DEF Reverse
<1>2. Reverse(seq) \in Seq(S)
  <2>1. \A i \in 1 .. Len(seq) : Reverse(seq)[i] \in S
    BY <1>1
  <2>2. Reverse(seq) \in [1 .. Len(seq) -> S]
    BY <2>1 DEF Reverse
  <2>3. QED
    BY <1>1, <2>2, SeqDef
<1>3. QED
  BY <1>1, <1>2 DEF In, Distinct

\* A list without its i-th device.
LEMMA RemoveAtEffect ==
    ASSUME NEW S, NEW seq \in Seq(S), NEW k \in DOMAIN seq, Distinct(seq)
    PROVE  /\ RemoveAt(seq, k) \in Seq(S) /\ Distinct(RemoveAt(seq, k))
           /\ \A d : In(d, RemoveAt(seq, k)) <=> In(d, seq) /\ d # seq[k]
<1>1. Len(seq) \in Nat /\ DOMAIN seq = 1 .. Len(seq) /\ k \in 1 .. Len(seq)
  OBVIOUS
<1> DEFINE a == SubSeq(seq, 1, k - 1)
           b == SubSeq(seq, k + 1, Len(seq))
<1>2. /\ a \in Seq(S) /\ Len(a) = k - 1 /\ \A i \in 1 .. k - 1 : a[i] = seq[i]
  <2>1. \A i \in 1 .. k - 1 : seq[i] \in S
    BY <1>1
  <2>2. QED
    BY <1>1, <2>1, SubSeqProperties
<1>3. /\ b \in Seq(S) /\ Len(b) = Len(seq) - k /\ \A i \in 1 .. Len(seq) - k : b[i] = seq[k + i]
  <2>1. \A i \in k + 1 .. Len(seq) : seq[i] \in S
    BY <1>1
  <2>2. /\ b \in Seq(S) /\ Len(b) = IF k + 1 <= Len(seq) THEN Len(seq) - (k + 1) + 1 ELSE 0
        /\ \A i \in 1 .. Len(seq) - (k + 1) + 1 : b[i] = seq[k + 1 + i - 1]
    BY <1>1, <2>1, SubSeqProperties
  <2>3. QED
    BY <1>1, <2>2
<1> HIDE DEF a, b
<1> DEFINE r == a \o b
<1>4. /\ r \in Seq(S) /\ DOMAIN r = 1 .. Len(seq) - 1
      /\ \A i \in 1 .. Len(seq) - 1 : r[i] = IF i < k THEN seq[i] ELSE seq[i + 1]
  <2>1. /\ r \in Seq(S) /\ Len(r) = Len(a) + Len(b)
        /\ \A i \in 1 .. Len(a) + Len(b) : r[i] = IF i <= Len(a) THEN a[i] ELSE b[i - Len(a)]
    BY <1>2, <1>3, ConcatProperties
  <2>2. Len(r) = Len(seq) - 1 /\ DOMAIN r = 1 .. Len(r)
    BY <1>1, <1>2, <1>3, <2>1
  <2> HIDE DEF r
  <2>3. ASSUME NEW i \in 1 .. Len(seq) - 1
        PROVE  r[i] = IF i < k THEN seq[i] ELSE seq[i + 1]
    <3>1. CASE i < k
      BY <1>1, <1>2, <1>3, <2>1, <3>1
    <3>2. CASE i >= k
      <4>1. r[i] = b[i - (k - 1)] /\ i - (k - 1) \in 1 .. Len(seq) - k
        BY <1>1, <1>2, <1>3, <2>1, <3>2, SMTT(30)
      <4>2. k + (i - (k - 1)) = i + 1
        BY <1>1
      <4>3. QED
        BY <1>1, <1>3, <3>2, <4>1, <4>2
    <3>3. QED
      BY <1>1, <3>1, <3>2
  <2>4. QED
    BY <2>1, <2>2, <2>3
<1>5. RemoveAt(seq, k) = r
  BY DEF RemoveAt, a, b
<1> HIDE DEF r
<1>6. Distinct(r)
  <2> SUFFICES ASSUME NEW i \in DOMAIN r, NEW j \in DOMAIN r, r[i] = r[j] PROVE i = j
    BY DEF Distinct
  <2> DEFINE at(x) == IF x < k THEN x ELSE x + 1
  <2>1. at(i) \in DOMAIN seq /\ at(j) \in DOMAIN seq /\ r[i] = seq[at(i)] /\ r[j] = seq[at(j)]
    BY <1>1, <1>4
  <2>2. at(i) = at(j)
    BY <2>1 DEF Distinct
  <2>3. QED
    BY <1>1, <1>4, <2>2
<1>7. ASSUME NEW d PROVE In(d, r) <=> In(d, seq) /\ d # seq[k]
  <2>1. ASSUME In(d, r) PROVE In(d, seq) /\ d # seq[k]
    <3>1. PICK i \in DOMAIN r : r[i] = d
      BY <2>1 DEF In
    <3>2. PICK j \in DOMAIN seq : j # k /\ seq[j] = d
      BY <1>1, <1>4, <3>1
    <3>3. QED
      BY <1>1, <3>2 DEF In, Distinct
  <2>2. ASSUME In(d, seq), d # seq[k] PROVE In(d, r)
    <3>1. PICK i \in DOMAIN seq : seq[i] = d
      BY <2>2 DEF In
    <3>2. CASE i < k
      BY <1>1, <1>4, <3>1, <3>2 DEF In
    <3>3. CASE i > k
      <4>1. i - 1 \in DOMAIN r /\ r[i - 1] = seq[i]
        BY <1>1, <1>4, <3>1, <3>3
      <4>2. QED
        BY <3>1, <4>1 DEF In
    <3>4. QED
      BY <1>1, <2>2, <3>1, <3>2, <3>3
  <2>3. QED
    BY <2>1, <2>2
<1>8. QED
  BY <1>4, <1>5, <1>6, <1>7

\* The list has the device, as the library says it.
LEMMA ContainsIn ==
    ASSUME NEW S, NEW seq \in Seq(S), NEW d
    PROVE  Contains(seq, d) <=> In(d, seq)
<1>1. DOMAIN seq = 1 .. Len(seq)
  OBVIOUS
<1>2. QED
  BY <1>1 DEF Contains, In

\* The elements of a finite set in some order.
LEMMA SetToSeqType ==
    ASSUME NEW S, IsFiniteSet(S)
    PROVE  SetToSeq(S) \in [1 .. Cardinality(S) -> S] /\ Cardinality(S) \in Nat
<1>1. Cardinality(S) \in Nat
  BY FS_CardinalityType
<1>2. PICK f : f \in Bijection(1 .. Cardinality(S), S)
  BY FS_CardinalityType, FS_NatBijection DEF ExistsBijection
<1>3. f \in [1 .. Cardinality(S) -> S] /\ IsInjective(f)
  BY <1>2 DEF Bijection, Injection, IsInjective
<1>4. QED
  BY <1>1, <1>3 DEF SetToSeq

-----------------------------------------------------------------------------
(* What the device steps do.                                               *)

\* The main loop is at work on a device.
LEMMA AtWork ==
    ASSUME DevTypes, NEW pc \in ActPCs, ActAt(pc)
    PROVE  act \in Acts /\ act.d \in Devices /\ act.op \in {"scan", "netlink", "close"} /\ act.ok \in BOOLEAN
  BY DEF DevTypes, Acts, ActPCs, ActAt, NoAct

\* Nothing is in hand.
LEMMA NotAtWork == Idle => act.pc = "idle" /\ act.op = "none" /\ act = NoAct
  BY DEF Idle, NoAct

\* The next place of the main loop.
LEMMA ThenEffect ==
    ASSUME act \in Acts, NEW pc \in ActPCs, Then(pc)
    PROVE  act' \in Acts /\ act'.pc = pc /\ act'.op = act.op /\ act'.d = act.d /\ act'.ok = act.ok
  BY DEF Acts, Then

\* The same, on an error.
LEMMA FailsEffect ==
    ASSUME act \in Acts, NEW pc \in ActPCs, Fails(pc)
    PROVE  act' \in Acts /\ act'.pc = pc /\ act'.op = act.op /\ act'.d = act.d /\ act'.ok = FALSE
  BY DEF Acts, Fails

\* One device of the kernel changes.
LEMMA KernelEffect ==
    ASSUME DevTypes, NEW d \in Devices, NEW k \in Kernels, kern' = [kern EXCEPT ![d] = k]
    PROVE  kern' \in [Devices -> Kernels] /\ kern'[d] = k /\ \A e \in Devices : e # d => kern'[e] = kern[e]
  BY DEF DevTypes

\* Another number of open files.
LEMMA FdsEffect ==
    ASSUME DevTypes, NEW d \in Devices, NEW n \in 0 .. 1, kern' = [kern EXCEPT ![d].fds = n]
    PROVE  /\ kern' \in [Devices -> Kernels] /\ kern'[d].fds = n
           /\ \A e \in Devices : /\ kern'[e].present = kern[e].present /\ kern'[e].blocked = kern[e].blocked
                                 /\ e # d => kern'[e].fds = kern[e].fds
<1>1. kern[d] \in Kernels
  BY DEF DevTypes
<1> DEFINE k == [kern[d] EXCEPT !.fds = n]
<1>2. k \in Kernels /\ k.fds = n /\ k.present = kern[d].present /\ k.blocked = kern[d].blocked
  BY <1>1 DEF Kernels
<1>3. kern' = [kern EXCEPT ![d] = k]
  OBVIOUS
<1> HIDE DEF k
<1>4. QED
  BY <1>2, <1>3, KernelEffect

\* The same for the block of a device.
LEMMA BlockedEffect ==
    ASSUME DevTypes, NEW d \in Devices, NEW b \in Blocks, kern' = [kern EXCEPT ![d].blocked = b]
    PROVE  /\ kern' \in [Devices -> Kernels] /\ kern'[d].blocked = b
           /\ \A e \in Devices : /\ kern'[e].present = kern[e].present /\ kern'[e].fds = kern[e].fds
                                 /\ e # d => kern'[e].blocked = kern[e].blocked
<1>1. kern[d] \in Kernels
  BY DEF DevTypes
<1> DEFINE k == [kern[d] EXCEPT !.blocked = b]
<1>2. k \in Kernels /\ k.blocked = b /\ k.present = kern[d].present /\ k.fds = kern[d].fds
  BY <1>1 DEF Kernels
<1>3. kern' = [kern EXCEPT ![d] = k]
  OBVIOUS
<1> HIDE DEF k
<1>4. QED
  BY <1>2, <1>3, KernelEffect

\* The kernel's device goes away.
LEMMA GoneEffect ==
    ASSUME DevTypes, NEW d \in Devices, kern' = [kern EXCEPT ![d].present = FALSE, ![d].blocked = "no"]
    PROVE  /\ kern' \in [Devices -> Kernels] /\ kern'[d].blocked = "no"
           /\ \A e \in Devices : /\ kern'[e].fds = kern[e].fds
                                 /\ e # d => kern'[e] = kern[e]
<1>1. kern[d] \in Kernels
  BY DEF DevTypes
<1> DEFINE k == [kern[d] EXCEPT !.present = FALSE, !.blocked = "no"]
<1>2. k \in Kernels /\ k.blocked = "no" /\ k.fds = kern[d].fds
  BY <1>1 DEF Kernels, Blocks
<1>3. kern' = [kern EXCEPT ![d] = k]
  BY DEF DevTypes
<1> HIDE DEF k
<1>4. QED
  BY <1>2, <1>3, KernelEffect

\* What is not about a device leaves the devices as they are.
LEMMA DeviceFrame == DeviceInv /\ UNCHANGED <<phase, devVars>> => DeviceInv'
  BY DEF DeviceInv, DevTypes, NetlinkInv, OpenInv, CloseInv, BlockedInv, devVars, Distinct, In

-----------------------------------------------------------------------------
(* Every step keeps the devices in order.                                  *)

\* The kernel asks, of a daemon that is there or is not.
LEMMA KernelAsksStep ==
    ASSUME DeviceInv, NEW d \in Devices, NEW cmd \in Requests, KernelAsks(d, cmd)
    PROVE  DeviceInv'
<1>0. DevTypes /\ NetlinkInv /\ OpenInv /\ CloseInv /\ BlockedInv
  BY DEF DeviceInv
<1>1. /\ UNCHANGED <<phase, todo, act, served>> /\ pend[d] = "none"
      /\ CASE cmd = "add" -> ~kern[d].present /\ kern' = [kern EXCEPT ![d].present = TRUE]
           [] cmd = "remove" /\ phase = "down" ->
                kern[d].present /\ kern' = [kern EXCEPT ![d].present = FALSE, ![d].blocked = "no"]
           [] OTHER -> kern[d].present /\ UNCHANGED kern
      /\ IF phase = "down" THEN UNCHANGED <<pend, nlq>>
         ELSE pend' = [pend EXCEPT ![d] = cmd] /\ nlq' = Append(nlq, [cmd |-> cmd, d |-> d])
  BY DEF KernelAsks
<1>2. /\ kern' \in [Devices -> Kernels]
      /\ \A e \in Devices : /\ kern'[e].fds = kern[e].fds
                            /\ kern'[e].blocked # "no" => kern'[e].present
                            /\ kern'[e].blocked = "yes" => kern[e].blocked = "yes"
      /\ cmd = "add" => kern'[d].blocked = "no"
  <2>1. CASE cmd = "add"
    <3>1. kern[d] \in Kernels /\ ~kern[d].present /\ kern[d].blocked = "no"
      BY <1>0, <1>1, <2>1 DEF DevTypes, BlockedInv
    <3> DEFINE k == [kern[d] EXCEPT !.present = TRUE]
    <3>2. k \in Kernels /\ k.blocked = "no" /\ k.fds = kern[d].fds
      BY <3>1 DEF Kernels
    <3>3. kern' = [kern EXCEPT ![d] = k]
      BY <1>1, <2>1
    <3> HIDE DEF k
    <3>4. QED
      BY <1>0, <3>2, <3>3, KernelEffect DEF BlockedInv
  <2>2. CASE cmd = "remove" /\ phase = "down"
    BY <1>0, <1>1, <2>2, GoneEffect DEF BlockedInv
  <2>3. CASE cmd # "add" /\ ~(cmd = "remove" /\ phase = "down")
    BY <1>0, <1>1, <2>3 DEF DevTypes, BlockedInv
  <2>4. QED
    BY <2>1, <2>2, <2>3
<1>3. /\ pend' \in [Devices -> Requests \cup {"none", "lost"}] /\ nlq' \in Seq(Messages)
      /\ \A e \in Devices : pend'[e] = "add" => pend[e] = "add" \/ (e = d /\ cmd = "add")
      /\ \A e \in Devices : pend[e] # "none" => pend'[e] = pend[e]
  <2>1. [cmd |-> cmd, d |-> d] \in Messages
    BY DEF Messages
  <2>2. CASE phase = "down"
    BY <1>0, <1>1, <2>2 DEF DevTypes
  <2>3. CASE phase # "down"
    <3>1. pend' = [pend EXCEPT ![d] = cmd] /\ nlq' = Append(nlq, [cmd |-> cmd, d |-> d])
      BY <1>1, <2>3
    <3>2. nlq' \in Seq(Messages)
      BY <1>0, <2>1, <3>1, AppendEffect DEF DevTypes
    <3>3. QED
      BY <1>0, <1>1, <3>1, <3>2 DEF DevTypes
  <2>4. QED
    BY <2>2, <2>3
<1>4. NetlinkInv'
  <2>1. CASE phase = "down"
    BY <1>0, <1>1, <2>1 DEF NetlinkInv
  <2>2. CASE phase # "down"
    <3> DEFINE m == [cmd |-> cmd, d |-> d]
    <3>1. m \in Messages /\ m.cmd = cmd /\ m.d = d
      BY DEF Messages
    <3>2. nlq' = Append(nlq, m) /\ pend' = [pend EXCEPT ![d] = cmd]
      BY <1>1, <2>2
    <3> HIDE DEF m
    <3>3. /\ DOMAIN nlq' = 1 .. Len(nlq) + 1 /\ DOMAIN nlq = 1 .. Len(nlq) /\ Len(nlq) \in Nat
          /\ \A i \in 1 .. Len(nlq) : nlq'[i] = nlq[i] /\ nlq[i] \in Messages
          /\ nlq'[Len(nlq) + 1] = m
      BY <1>0, <3>1, <3>2 DEF DevTypes
    <3>4. \A i \in 1 .. Len(nlq) : nlq[i].d \in Devices /\ nlq[i].d # d /\ pend[nlq[i].d] = nlq[i].cmd
      <4>1. \A i \in 1 .. Len(nlq) : nlq[i].d \in Devices /\ nlq[i].cmd # "none"
        BY <3>3 DEF Messages, Requests
      <4>2. QED
        BY <1>0, <1>1, <3>3, <4>1 DEF NetlinkInv
    <3>5. \A i \in DOMAIN nlq' : pend'[nlq'[i].d] = nlq'[i].cmd
      BY <1>0, <3>1, <3>2, <3>3, <3>4 DEF DevTypes
    <3>6. \A i, j \in DOMAIN nlq' : nlq'[i].d = nlq'[j].d => i = j
      BY <1>0, <3>1, <3>3, <3>4 DEF NetlinkInv
    <3>7. act.op = "netlink" => act.d \in Devices /\ act.d # d
      BY <1>0, <1>1 DEF NetlinkInv, DevTypes, Acts, NoAct
    <3>8. QED
      BY <1>0, <1>1, <1>3, <3>1, <3>3, <3>5, <3>6, <3>7 DEF NetlinkInv
  <2>3. QED
    BY <2>1, <2>2
<1>5. OpenInv' /\ CloseInv'
  BY <1>0, <1>1, <1>2 DEF OpenInv, CloseInv, Distinct, In
<1>6. BlockedInv'
  BY <1>0, <1>1, <1>2, <1>3 DEF BlockedInv, In
<1>7. QED
  BY <1>0, <1>1, <1>2, <1>3, <1>4, <1>5, <1>6 DEF DeviceInv, DevTypes

\* The main loop takes up a device from the list of those to open or to close.
LEMMA NextStep ==
    ASSUME DeviceInv, ScanNext \/ CloseNext
    PROVE  DeviceInv'
<1>0. /\ DevTypes /\ NetlinkInv /\ OpenInv /\ CloseInv /\ BlockedInv
      /\ act.pc = "idle" /\ act.op = "none"
  BY NotAtWork DEF DeviceInv, ScanNext, CloseNext
<1>1. /\ todo # << >> /\ todo' = Tail(todo) /\ UNCHANGED <<phase, served, kern, pend, nlq>>
      /\ \/ /\ phase = "scan"
            /\ act' = [pc |-> "find", op |-> "scan", d |-> Head(todo), ok |-> TRUE]
         \/ /\ phase = "close"
            /\ act' = [pc |-> "block", op |-> "close", d |-> Head(todo), ok |-> TRUE]
  BY DEF ScanNext, CloseNext
<1>2. /\ todo' \in Seq(Devices) /\ Head(todo) \in Devices /\ In(Head(todo), todo)
      /\ \A e : In(e, todo') => In(e, todo)
      /\ Distinct(todo) => Distinct(todo') /\ ~In(Head(todo), todo')
  BY <1>0, <1>1, TailEffect DEF DevTypes
<1>3. /\ act' \in Acts /\ act'.d = Head(todo)
      /\ \/ phase = "scan" /\ act'.op = "scan" /\ act'.pc = "find"
         \/ phase = "close" /\ act'.op = "close" /\ act'.pc = "block"
  <2>1. CASE phase = "scan"
    <3>1. act' = [pc |-> "find", op |-> "scan", d |-> Head(todo), ok |-> TRUE]
      BY <1>1, <2>1
    <3>2. act' \in Acts
      BY <1>2, <3>1 DEF Acts, ActPCs
    <3>3. QED
      BY <2>1, <3>1, <3>2
  <2>2. CASE phase = "close"
    <3>1. act' = [pc |-> "block", op |-> "close", d |-> Head(todo), ok |-> TRUE]
      BY <1>1, <2>2
    <3>2. act' \in Acts
      BY <1>2, <3>1 DEF Acts, ActPCs
    <3>3. QED
      BY <2>2, <3>1, <3>2
  <2>3. QED
    BY <1>1, <2>1, <2>2
<1>4. NetlinkInv' /\ OpenInv' /\ BlockedInv'
  BY <1>0, <1>1, <1>3 DEF NetlinkInv, OpenInv, BlockedInv, In, Distinct
<1>5. CloseInv'
  <2>1. CASE phase = "scan"
    BY <1>0, <1>1, <1>3, <2>1 DEF CloseInv
  <2>2. CASE phase = "close"
    <3>1. \A e : In(e, todo) => In(e, served)
      BY <1>0, <2>2 DEF CloseInv, In
    <3>2. \A i \in DOMAIN todo' : In(todo'[i], served)
      BY <1>2, <3>1 DEF In
    <3>3. Distinct(todo') /\ ~In(Head(todo), todo') /\ In(Head(todo), served)
      BY <1>0, <1>2, <2>2, <3>1 DEF CloseInv
    <3>4. QED
      BY <1>1, <1>3, <2>2, <3>2, <3>3 DEF CloseInv, In
  <2>3. QED
    BY <1>1, <2>1, <2>2
<1>6. QED
  BY <1>0, <1>1, <1>2, <1>3, <1>4, <1>5 DEF DeviceInv, DevTypes

\* Start-up, the search for devices and the end of the main loop.
LEMMA PhaseStep ==
    ASSUME DeviceInv, Start \/ ScanDir \/ Run \/ Quit
    PROVE  DeviceInv'
<1>0. DevTypes /\ NetlinkInv /\ OpenInv /\ CloseInv /\ BlockedInv
  BY DEF DeviceInv
<1>1. /\ UNCHANGED <<act, served, kern, pend, nlq>> /\ phase' \in {"netlink", "scan", "run", "close"}
      /\ act.op = "close" => phase = "close"
      /\ phase' # phase /\ phase # "close"
      /\ phase' = "close" => todo' = Reverse(served) /\ Idle
      /\ phase' \notin {"scan", "close"} => todo' = todo
      /\ phase' = "scan" => todo' = SetToSeq({d \in Devices : kern[d].present})
  BY <1>0 DEF Start, ScanDir, Run, Quit, devVars, Initialize, CloseInv
<1>2. todo' \in Seq(Devices)
  <2>1. CASE phase' = "close"
    BY <1>0, <1>1, <2>1, ReverseEffect DEF DevTypes
  <2>2. CASE phase' = "scan"
    <3> DEFINE S == {d \in Devices : kern[d].present}
    <3>1. IsFiniteSet(S) /\ S \subseteq Devices
      BY DaemonAssumption, FS_Subset
    <3>2. SetToSeq(S) \in [1 .. Cardinality(S) -> S] /\ Cardinality(S) \in Nat
      BY <3>1, SetToSeqType
    <3>3. SetToSeq(S) \in Seq(S)
      BY <3>2, SeqDef
    <3>4. SetToSeq(S) \in Seq(Devices)
      BY <3>1, <3>3, SeqMonotonic
    <3>5. QED
      BY <1>1, <2>2, <3>4
  <2>3. CASE phase' \notin {"scan", "close"}
    BY <1>0, <1>1, <2>3 DEF DevTypes
  <2>4. QED
    BY <2>1, <2>2, <2>3
<1>3. NetlinkInv' /\ OpenInv' /\ BlockedInv'
  BY <1>0, <1>1 DEF NetlinkInv, OpenInv, BlockedInv, In, Distinct
<1>4. CloseInv'
  <2>1. CASE phase' = "close"
    <3>1. /\ \A i \in DOMAIN todo' : In(todo'[i], served)
          /\ Distinct(todo') /\ act.op = "none" /\ act.pc = "idle" /\ act' = act /\ served' = served
      BY <1>0, <1>1, <2>1, ReverseEffect, NotAtWork DEF DevTypes, OpenInv
    <3>2. QED
      BY <2>1, <3>1 DEF CloseInv, In
  <2>2. CASE phase' # "close"
    BY <1>0, <1>1, <2>2 DEF CloseInv
  <2>3. QED
    BY <2>1, <2>2
<1>5. QED
  BY <1>0, <1>1, <1>2, <1>3, <1>4 DEF DeviceInv, DevTypes

\* The end of the daemon: nothing is served, open or asked for.
LEMMA GoneStep ==
    ASSUME DeviceInv, Gone
    PROVE  DeviceInv'
<1>0. DevTypes /\ BlockedInv
  BY DEF DeviceInv
<1>1. /\ phase' = "down" /\ todo' = << >> /\ act' = NoAct /\ served' = << >> /\ nlq' = << >>
      /\ kern' = [d \in Devices |-> [kern[d] EXCEPT !.fds = 0]] /\ pend' = [d \in Devices |-> "none"]
  BY DEF Gone
<1>2. \A d \in Devices : /\ kern'[d] \in Kernels /\ kern'[d].fds = 0
                         /\ kern'[d].blocked = kern[d].blocked /\ kern'[d].present = kern[d].present
  <2> SUFFICES ASSUME NEW d \in Devices
               PROVE  /\ kern'[d] \in Kernels /\ kern'[d].fds = 0
                      /\ kern'[d].blocked = kern[d].blocked /\ kern'[d].present = kern[d].present
    OBVIOUS
  <2>1. kern[d] \in Kernels /\ kern'[d] = [kern[d] EXCEPT !.fds = 0]
    BY <1>0, <1>1 DEF DevTypes
  <2>2. QED
    BY <2>1 DEF Kernels
<1>3. kern' \in [Devices -> Kernels]
  <2>1. kern' = [d \in Devices |-> kern'[d]]
    BY <1>1
  <2>2. QED
    BY <1>2, <2>1
<1>4. act'.pc = "idle" /\ act'.op = "none" /\ (\A e : ~In(e, served')) /\ DOMAIN nlq' = {} /\ Distinct(served')
  BY <1>1 DEF NoAct, In, Distinct
<1>5. DevTypes'
  BY <1>1, <1>3, EmptySeq DEF DevTypes
<1>6. QED
  BY <1>0, <1>1, <1>2, <1>4, <1>5 DEF DeviceInv, NetlinkInv, OpenInv, CloseInv, BlockedInv

\* handle_netlink takes a message.
LEMMA NetlinkStep ==
    ASSUME DeviceInv, Netlink
    PROVE  DeviceInv'
<1> DEFINE m == Head(nlq)
           q == CASE m.cmd = "add" -> "find" [] m.cmd = "remove" -> "take" [] OTHER -> "reconfig"
<1>0. /\ DevTypes /\ NetlinkInv /\ OpenInv /\ CloseInv /\ BlockedInv
      /\ act.pc = "idle" /\ act.op = "none"
  BY NotAtWork DEF DeviceInv, Netlink
<1>1. /\ phase = "run" /\ nlq # << >> /\ nlq' = Tail(nlq)
      /\ act' = [pc |-> q, op |-> "netlink", d |-> m.d, ok |-> TRUE]
      /\ UNCHANGED <<phase, todo, served, kern, pend>>
  BY DEF Netlink
<1>2. /\ nlq' \in Seq(Messages) /\ m \in Messages /\ m = nlq[1] /\ 1 \in DOMAIN nlq
      /\ \A i \in DOMAIN nlq' : i + 1 \in DOMAIN nlq /\ nlq'[i] = nlq[i + 1] /\ i \in Nat \ {0}
  <2>1. /\ nlq' \in Seq(Messages) /\ m \in Messages
        /\ \A i \in DOMAIN nlq' : i + 1 \in DOMAIN nlq /\ nlq'[i] = nlq[i + 1]
    BY <1>0, <1>1, TailEffect DEF DevTypes
  <2>2. m = nlq[1] /\ 1 \in DOMAIN nlq /\ DOMAIN nlq' = 1 .. Len(nlq') /\ Len(nlq') \in Nat
    BY <1>0, <1>1, <2>1, EmptySeq, LenProperties DEF DevTypes
  <2>3. QED
    BY <2>1, <2>2
<1>3. m.d \in Devices /\ m.cmd \in Requests /\ pend[m.d] = m.cmd /\ m.cmd # "none"
  BY <1>0, <1>2 DEF Messages, NetlinkInv, Requests
<1>4. q \in ActPCs /\ (q = "find" => m.cmd = "add") /\ q \in {"find", "take", "reconfig"}
  BY DEF ActPCs
<1>5. act' \in Acts /\ act'.pc = q /\ act'.op = "netlink" /\ act'.d = m.d
  BY <1>1, <1>3, <1>4 DEF Acts
<1> HIDE DEF m, q
<1>6. NetlinkInv'
  <2>1. \A i, j \in DOMAIN nlq' : nlq'[i].d = nlq'[j].d => i = j
    <3> SUFFICES ASSUME NEW i \in DOMAIN nlq', NEW j \in DOMAIN nlq', nlq'[i].d = nlq'[j].d
                 PROVE  i = j
      OBVIOUS
    <3>1. i + 1 = j + 1
      BY <1>0, <1>2 DEF NetlinkInv
    <3>2. QED
      BY <1>2, <3>1
  <2>2. \A i \in DOMAIN nlq' : nlq'[i].d # m.d
    <3> SUFFICES ASSUME NEW i \in DOMAIN nlq', nlq'[i].d = m.d PROVE FALSE
      OBVIOUS
    <3>1. i + 1 = 1
      BY <1>0, <1>2 DEF NetlinkInv
    <3>2. QED
      BY <1>2, <3>1
  <2>3. \A i \in DOMAIN nlq' : pend'[nlq'[i].d] = nlq'[i].cmd
    BY <1>0, <1>1, <1>2 DEF NetlinkInv
  <2>4. QED
    BY <1>1, <1>3, <1>4, <1>5, <2>1, <2>2, <2>3 DEF NetlinkInv
<1>7. OpenInv' /\ CloseInv' /\ BlockedInv'
  BY <1>0, <1>1, <1>4, <1>5 DEF OpenInv, CloseInv, BlockedInv, In, Distinct
<1>8. QED
  BY <1>0, <1>1, <1>2, <1>5, <1>6, <1>7 DEF DeviceInv, DevTypes

\* Steps that look at a device, or block it.
LEMMA FindStep ==
    ASSUME DeviceInv, Find \/ Reconfig
    PROVE  DeviceInv'
<1>0. DevTypes /\ NetlinkInv /\ OpenInv /\ CloseInv /\ BlockedInv /\ act.pc \in {"find", "reconfig"}
  BY DEF DeviceInv, Find, Reconfig, ActAt
<1>1. act \in Acts /\ UNCHANGED <<phase, todo, served, kern, pend, nlq>>
  BY <1>0, AtWork DEF Find, Reconfig, Same, ActPCs, ActAt
<1>2. /\ act' \in Acts /\ act'.op = act.op /\ act'.d = act.d
      /\ \/ act'.pc = "done"
         \/ act'.pc = "block" /\ act.pc = "find" /\ act.op = "scan"
         \/ act'.pc = "open" /\ act.pc = "find" /\ act.op # "scan"
  <2>1. CASE Find
    <3>1. CASE Then(IF act.op = "scan" THEN "block" ELSE "open")
      <4>1. CASE act.op = "scan"
        BY <1>1, <2>1, <3>1, <4>1, ThenEffect DEF ActPCs, Find, ActAt
      <4>2. CASE act.op # "scan"
        BY <1>1, <2>1, <3>1, <4>2, ThenEffect DEF ActPCs, Find, ActAt
      <4>3. QED
        BY <4>1, <4>2
    <3>2. CASE Fails("done")
      BY <1>1, <3>2, FailsEffect DEF ActPCs
    <3>3. QED
      BY <2>1, <3>1, <3>2 DEF Find
  <2>2. CASE Reconfig
    BY <1>1, <2>2, ThenEffect, FailsEffect DEF Reconfig, ActPCs
  <2>3. QED
    BY <2>1, <2>2
<1>3. act.op \in {"scan", "netlink", "close"}
  BY <1>1 DEF Acts
<1>4. NetlinkInv'
  BY <1>0, <1>1, <1>2 DEF NetlinkInv
<1>5. OpenInv' /\ BlockedInv'
  BY <1>0, <1>1, <1>2, <1>3 DEF OpenInv, BlockedInv, In, Distinct
<1>6. CloseInv'
  BY <1>0, <1>1, <1>2, <1>3 DEF CloseInv, In, Distinct
<1>7. QED
  BY <1>0, <1>1, <1>2, <1>4, <1>5, <1>6 DEF DeviceInv, DevTypes

\* A device is blocked or unblocked.
LEMMA BlockStep ==
    ASSUME DeviceInv, Block \/ Unblock
    PROVE  DeviceInv'
<1>0. DevTypes /\ NetlinkInv /\ OpenInv /\ CloseInv /\ BlockedInv /\ act.pc \in {"block", "unblock"}
  BY DEF DeviceInv, Block, Unblock, ActAt
<1>1. /\ act \in Acts /\ act.d \in Devices /\ act.op \in {"scan", "netlink", "close"}
      /\ UNCHANGED <<phase, todo, served, pend, nlq>>
  BY <1>0, AtWork DEF Block, Unblock, Same, ActPCs, ActAt
<1>2. /\ act' \in Acts /\ act'.op = act.op /\ act'.d = act.d
      /\ \/ act.pc = "unblock" /\ act'.pc = "done"
         \/ act.pc = "block" /\ act'.pc = "open" /\ act.op = "scan"
         \/ act.pc = "block" /\ act'.pc = "take" /\ act.op # "scan"
  <2>1. CASE Block
    <3>1. CASE act.op = "scan"
      BY <1>1, <2>1, <3>1, ThenEffect DEF ActPCs, Block, ActAt
    <3>2. CASE act.op # "scan"
      BY <1>1, <2>1, <3>2, ThenEffect DEF ActPCs, Block, ActAt
    <3>3. QED
      BY <3>1, <3>2
  <2>2. CASE Unblock
    BY <1>1, <2>2, ThenEffect DEF ActPCs, Unblock, ActAt
  <2>3. QED
    BY <2>1, <2>2
<1>3. /\ kern' \in [Devices -> Kernels]
      /\ \A e \in Devices : /\ kern'[e].present = kern[e].present /\ kern'[e].fds = kern[e].fds
                            /\ e # act.d => kern'[e].blocked = kern[e].blocked
      /\ kern'[act.d].blocked # "no" => kern[act.d].present
      /\ act.pc = "unblock" /\ act.op # "netlink" => kern'[act.d].blocked # "yes"
      /\ act.pc = "unblock" /\ act.op = "netlink" => kern' = kern
  <2>1. CASE Block
    <3> DEFINE b == IF kern[act.d].present THEN "yes" ELSE "no"
    <3>1. act.pc = "block" /\ (kern' = kern \/ kern' = [kern EXCEPT ![act.d].blocked = b])
      BY <2>1 DEF Block, ActAt
    <3>2. b \in Blocks /\ (b # "no" => kern[act.d].present)
      BY DEF Blocks
    <3> HIDE DEF b
    <3>3. CASE kern' = kern
      BY <1>0, <1>1, <3>1, <3>3 DEF DevTypes, BlockedInv
    <3>4. CASE kern' = [kern EXCEPT ![act.d].blocked = b]
      BY <1>0, <1>1, <3>1, <3>2, <3>4, BlockedEffect
    <3>5. QED
      BY <3>1, <3>3, <3>4
  <2>2. CASE Unblock
    <3>1. act.pc = "unblock"
      BY <2>2 DEF Unblock, ActAt
    <3>2. CASE act.op = "netlink"
      BY <1>0, <1>1, <2>2, <3>1, <3>2 DEF Unblock, DevTypes, BlockedInv
    <3>3. CASE act.op # "netlink"
      <4>1. \/ kern' = [kern EXCEPT ![act.d].blocked = "no"]
            \/ kern[act.d].blocked # "no" /\ kern' = [kern EXCEPT ![act.d].blocked = "stuck"]
        BY <2>2, <3>3 DEF Unblock
      <4>2. "no" \in Blocks /\ "stuck" \in Blocks
        BY DEF Blocks
      <4>3. CASE kern' = [kern EXCEPT ![act.d].blocked = "no"]
        BY <1>0, <1>1, <3>1, <3>3, <4>2, <4>3, BlockedEffect
      <4>4. CASE kern[act.d].blocked # "no" /\ kern' = [kern EXCEPT ![act.d].blocked = "stuck"]
        <5>1. kern[act.d].present
          BY <1>0, <1>1, <4>4 DEF BlockedInv
        <5>2. QED
          BY <1>0, <1>1, <3>1, <3>3, <4>2, <4>4, <5>1, BlockedEffect
      <4>5. QED
        BY <4>1, <4>3, <4>4
    <3>4. QED
      BY <3>2, <3>3
  <2>3. QED
    BY <2>1, <2>2
<1>4. NetlinkInv'
  BY <1>0, <1>1, <1>2 DEF NetlinkInv
<1>5. OpenInv'
  BY <1>0, <1>1, <1>2, <1>3 DEF OpenInv, In, Distinct
<1>6. CloseInv'
  BY <1>0, <1>1, <1>2 DEF CloseInv, In, Distinct
<1>7. BlockedInv'
  <2>0. \A e \in Devices : kern'[e].blocked # "no" => kern'[e].present
    BY <1>0, <1>1, <1>3 DEF BlockedInv
  <2> SUFFICES ASSUME NEW e \in Devices, kern'[e].blocked = "yes"
               PROVE  In(e, served') \/ pend'[e] = "add" =>
                        /\ act'.d = e /\ act'.op \in {"scan", "close"}
                        /\ act'.pc \in {"open", "added", "take", "close", "unblock"}
    BY <2>0 DEF BlockedInv
  <2>1. CASE e # act.d
    BY <1>0, <1>1, <1>3, <2>1 DEF BlockedInv
  <2>2. CASE e = act.d /\ act.pc = "block"
    <3>1. act.op = "netlink" => FALSE
      BY <1>0, <2>2 DEF NetlinkInv
    <3>2. QED
      BY <1>1, <1>2, <2>2, <3>1
  <2>3. CASE e = act.d /\ act.pc = "unblock"
    BY <1>0, <1>1, <1>3, <2>3 DEF BlockedInv
  <2>4. QED
    BY <1>0, <2>1, <2>2, <2>3
<1>8. QED
  BY <1>0, <1>1, <1>2, <1>3, <1>4, <1>5, <1>6, <1>7 DEF DeviceInv, DevTypes

\* The uio file is opened or closed.
LEMMA UioStep ==
    ASSUME DeviceInv, OpenUio \/ CloseUio
    PROVE  DeviceInv'
<1>0. DevTypes /\ NetlinkInv /\ OpenInv /\ CloseInv /\ BlockedInv /\ act.pc \in {"open", "close"}
  BY DEF DeviceInv, OpenUio, CloseUio, ActAt
<1>1. /\ act \in Acts /\ act.d \in Devices /\ act.op \in {"scan", "netlink", "close"}
      /\ UNCHANGED <<phase, todo, served, pend, nlq>>
  BY <1>0, AtWork DEF OpenUio, CloseUio, Same, ActPCs, ActAt
<1>2. /\ act' \in Acts /\ act'.op = act.op /\ act'.d = act.d
      /\ kern' \in [Devices -> Kernels]
      /\ \A e \in Devices : /\ kern'[e].present = kern[e].present /\ kern'[e].blocked = kern[e].blocked
                            /\ e # act.d => kern'[e].fds = kern[e].fds
      /\ \/ act.pc = "open" /\ act'.pc = "unblock" /\ kern' = kern
         \/ act.pc = "open" /\ act'.pc = "added" /\ kern[act.d].fds = 0 /\ kern'[act.d].fds = 1
         \/ act.pc = "close" /\ act'.pc = "unblock" /\ kern'[act.d].fds = 0
  <2>1. CASE OpenUio
    <3>1. act.pc = "open"
      BY <2>1 DEF OpenUio, ActAt
    <3>2. CASE kern[act.d].fds = 0 /\ kern' = [kern EXCEPT ![act.d].fds = 1] /\ Then("added")
      <4>1. act' \in Acts /\ act'.op = act.op /\ act'.d = act.d /\ act'.pc = "added"
        BY <1>1, <3>2, ThenEffect DEF ActPCs
      <4>2. 1 \in 0 .. 1 /\ kern' = [kern EXCEPT ![act.d].fds = 1]
        BY <3>2
      <4>3. /\ kern' \in [Devices -> Kernels] /\ kern'[act.d].fds = 1
            /\ \A e \in Devices : /\ kern'[e].present = kern[e].present /\ kern'[e].blocked = kern[e].blocked
                                  /\ e # act.d => kern'[e].fds = kern[e].fds
        BY <1>0, <1>1, <4>2, FdsEffect
      <4>4. QED
        BY <1>1, <3>1, <3>2, <4>1, <4>3
    <3>3. CASE Fails("unblock") /\ UNCHANGED kern
      <4>1. act' \in Acts /\ act'.op = act.op /\ act'.d = act.d /\ act'.pc = "unblock"
        BY <1>1, <3>3, FailsEffect DEF ActPCs
      <4>2. QED
        BY <1>0, <1>1, <3>1, <3>3, <4>1 DEF DevTypes
    <3>4. QED
      BY <2>1, <3>2, <3>3 DEF OpenUio
  <2>2. CASE CloseUio
    <3>1. /\ act' \in Acts /\ act'.op = act.op /\ act'.d = act.d /\ act'.pc = "unblock"
          /\ act.pc = "close" /\ kern' = [kern EXCEPT ![act.d].fds = 0]
      BY <1>1, <2>2, ThenEffect DEF ActPCs, CloseUio, ActAt
    <3>2. 0 \in 0 .. 1 /\ kern' = [kern EXCEPT ![act.d].fds = 0]
      BY <3>1
    <3>3. /\ kern' \in [Devices -> Kernels] /\ kern'[act.d].fds = 0
          /\ \A e \in Devices : /\ kern'[e].present = kern[e].present /\ kern'[e].blocked = kern[e].blocked
                                /\ e # act.d => kern'[e].fds = kern[e].fds
      BY <1>0, <1>1, <3>2, FdsEffect
    <3>4. QED
      BY <1>1, <3>1, <3>3
  <2>3. QED
    BY <2>1, <2>2
<1>3. NetlinkInv'
  BY <1>0, <1>1, <1>2 DEF NetlinkInv
<1>4. OpenInv'
  <2>1. Distinct(served') /\ \A e : In(e, served') <=> In(e, served)
    BY <1>0, <1>1 DEF OpenInv, Distinct, In
  <2>2. act'.pc = "added" => ~In(act.d, served)
    BY <1>0, <1>1, <1>2 DEF OpenInv
  <2>3. \A e \in Devices : e # act.d => (kern'[e].fds = 1 <=> In(e, served))
    BY <1>0, <1>2 DEF OpenInv
  <2>4. kern'[act.d].fds = 1 <=> In(act.d, served) \/ act'.pc = "added"
    BY <1>0, <1>1, <1>2 DEF OpenInv
  <2>5. QED
    BY <1>1, <1>2, <2>1, <2>2, <2>3, <2>4 DEF OpenInv
<1>5. CloseInv'
  BY <1>0, <1>1, <1>2 DEF CloseInv, In, Distinct
<1>6. BlockedInv'
  BY <1>0, <1>1, <1>2 DEF BlockedInv, In
<1>7. QED
  BY <1>0, <1>1, <1>2, <1>3, <1>4, <1>5, <1>6 DEF DeviceInv, DevTypes

\* The device joins those that are served.
LEMMA AddedStep ==
    ASSUME DeviceInv, Added
    PROVE  DeviceInv'
<1>0. DevTypes /\ NetlinkInv /\ OpenInv /\ CloseInv /\ BlockedInv /\ act.pc = "added"
  BY DEF DeviceInv, Added, ActAt
<1>1. /\ act \in Acts /\ act.d \in Devices /\ act.op \in {"scan", "netlink", "close"}
      /\ UNCHANGED <<phase, todo, kern, pend, nlq>>
  BY <1>0, AtWork DEF Added, Same, ActPCs, ActAt
<1>2. /\ act' \in Acts /\ act'.op = act.op /\ act'.d = act.d
      /\ \/ served' = Append(served, act.d) /\ act'.pc = "unblock"
         \/ served' = served /\ act'.pc = "close"
  <2>1. CASE served' = Append(served, act.d) /\ Then("unblock")
    BY <1>1, <2>1, ThenEffect DEF ActPCs
  <2>2. CASE UNCHANGED served /\ Fails("close")
    BY <1>1, <2>2, FailsEffect DEF ActPCs
  <2>3. QED
    BY <2>1, <2>2 DEF Added
<1>3. /\ served' \in Seq(Devices) /\ Distinct(served') /\ ~In(act.d, served)
      /\ \A e : In(e, served') <=> In(e, served) \/ (e = act.d /\ act'.pc = "unblock")
  <2>1. served \in Seq(Devices) /\ Distinct(served) /\ ~In(act.d, served)
    BY <1>0 DEF OpenInv, DevTypes
  <2>2. CASE served' = Append(served, act.d) /\ act'.pc = "unblock"
    BY <1>1, <2>1, <2>2, AppendEffect
  <2>3. CASE served' = served /\ act'.pc = "close"
    BY <2>1, <2>3
  <2>4. QED
    BY <1>2, <2>2, <2>3
<1>4. NetlinkInv'
  BY <1>0, <1>1, <1>2 DEF NetlinkInv
<1>5. OpenInv'
  BY <1>0, <1>1, <1>2, <1>3 DEF OpenInv
<1>6. CloseInv'
  BY <1>0, <1>1, <1>2, <1>3 DEF CloseInv
<1>7. BlockedInv'
  <2>1. act.op = "netlink" => kern[act.d].blocked # "yes"
    BY <1>0, <1>1 DEF NetlinkInv, BlockedInv
  <2>2. QED
    BY <1>0, <1>1, <1>2, <1>3, <2>1 DEF BlockedInv
<1>8. QED
  BY <1>0, <1>1, <1>2, <1>3, <1>4, <1>5, <1>6, <1>7 DEF DeviceInv, DevTypes

\* The device leaves those that are served.
LEMMA TakeStep ==
    ASSUME DeviceInv, Take
    PROVE  DeviceInv'
<1>0. DevTypes /\ NetlinkInv /\ OpenInv /\ CloseInv /\ BlockedInv /\ act.pc = "take"
  BY DEF DeviceInv, Take, ActAt
<1>1. /\ act \in Acts /\ act.d \in Devices /\ act.op \in {"scan", "netlink", "close"}
      /\ UNCHANGED <<phase, todo, kern, pend, nlq>>
  BY <1>0, AtWork DEF Take, Same, ActPCs, ActAt
<1>2. Contains(served, act.d) <=> In(act.d, served)
  <2>1. served \in Seq(Devices)
    BY <1>0 DEF DevTypes
  <2>2. QED
    BY <2>1, ContainsIn
<1>3. /\ act' \in Acts /\ act'.op = act.op /\ act'.d = act.d
      /\ IF In(act.d, served) THEN act'.pc = "close" ELSE act'.pc = "done"
  BY <1>1, <1>2, ThenEffect DEF Take, ActPCs
<1>4. /\ served' \in Seq(Devices) /\ Distinct(served')
      /\ \A e : In(e, served') <=> In(e, served) /\ e # act.d
  <2>1. served \in Seq(Devices) /\ Distinct(served)
    BY <1>0 DEF OpenInv, DevTypes
  <2>2. CASE In(act.d, served)
    <3> DEFINE First(i) == served[i] = act.d /\ \A j \in 1 .. i - 1 : served[j] # act.d
               k == CHOOSE i \in DOMAIN served : First(i)
    <3>1. PICK i \in DOMAIN served : served[i] = act.d
      BY <2>2 DEF In
    <3>2. DOMAIN served = 1 .. Len(served) /\ Len(served) \in Nat
      BY <2>1
    <3>3. First(i)
      <4> SUFFICES ASSUME NEW j \in 1 .. i - 1, served[j] = act.d PROVE FALSE
        BY <3>1
      <4>1. j \in DOMAIN served /\ j # i
        BY <3>1, <3>2
      <4>2. QED
        BY <2>1, <3>1, <4>1 DEF Distinct
    <3>4. k \in DOMAIN served /\ served[k] = act.d
      BY <3>1, <3>3
    <3>5. served' = RemoveAt(served, k)
      BY <1>2, <2>2 DEF Take
    <3> HIDE DEF k, First
    <3>6. QED
      BY <2>1, <3>4, <3>5, RemoveAtEffect
  <2>3. CASE ~In(act.d, served)
    <3>1. served' = served
      BY <1>2, <2>3 DEF Take
    <3>2. QED
      BY <2>1, <2>3, <3>1
  <2>4. QED
    BY <2>2, <2>3
<1>5. NetlinkInv'
  BY <1>0, <1>1, <1>3 DEF NetlinkInv
<1>6. OpenInv'
  BY <1>0, <1>1, <1>3, <1>4 DEF OpenInv
<1>7. CloseInv'
  <2>1. CASE phase = "close"
    <3>1. /\ act.op = "close" /\ ~In(act.d, todo) /\ Distinct(todo)
          /\ \A i \in DOMAIN todo : In(todo[i], served)
      BY <1>0, <1>1, <2>1 DEF CloseInv
    <3>2. \A i \in DOMAIN todo : todo[i] # act.d
      BY <3>1 DEF In
    <3>3. QED
      BY <1>1, <1>3, <1>4, <2>1, <3>1, <3>2 DEF CloseInv
  <2>2. CASE phase # "close"
    BY <1>0, <1>1, <1>3, <2>2 DEF CloseInv
  <2>3. QED
    BY <2>1, <2>2
<1>8. BlockedInv'
  <2>1. ~In(act.d, served) => act.op = "netlink"
    BY <1>0, <1>1 DEF CloseInv
  <2>2. QED
    BY <1>0, <1>1, <1>3, <1>4, <2>1 DEF BlockedInv
<1>9. QED
  BY <1>0, <1>1, <1>3, <1>4, <1>5, <1>6, <1>7, <1>8 DEF DeviceInv, DevTypes

\* The reply to the kernel, and the end of the work on a device.
LEMMA DoneStep ==
    ASSUME DeviceInv, Done
    PROVE  DeviceInv'
<1>0. DevTypes /\ NetlinkInv /\ OpenInv /\ CloseInv /\ BlockedInv /\ act.pc = "done"
  BY DEF DeviceInv, Done, ActAt
<1>1. /\ act \in Acts /\ act.d \in Devices /\ act.op \in {"scan", "netlink", "close"}
      /\ UNCHANGED <<phase, todo, served, nlq>> /\ act' = NoAct
  BY <1>0, AtWork DEF Done, Same, ActPCs, ActAt
<1>2. act'.pc = "idle" /\ act'.op = "none"
  BY <1>1 DEF NoAct
<1>3. /\ kern' \in [Devices -> Kernels] /\ pend' \in [Devices -> Requests \cup {"none", "lost"}]
      /\ \A e \in Devices : /\ kern'[e].fds = kern[e].fds
                            /\ kern'[e].blocked # "no" => kern'[e].present
                            /\ kern'[e].blocked = "yes" => kern[e].blocked = "yes"
                            /\ pend'[e] = "add" => pend[e] = "add"
      /\ \A e \in Devices : act.op # "netlink" \/ e # act.d => pend'[e] = pend[e]
  <2>1. CASE act.op = "netlink"
    <3>1. /\ pend' = [pend EXCEPT ![act.d] = "none"] \/ pend' = [pend EXCEPT ![act.d] = "lost"]
          /\ \/ kern' = [kern EXCEPT ![act.d].present = FALSE, ![act.d].blocked = "no"]
             \/ kern' = kern
      BY <2>1 DEF Done, Replied
    <3>2. /\ kern' \in [Devices -> Kernels]
          /\ \A e \in Devices : /\ kern'[e].fds = kern[e].fds
                                /\ kern'[e].blocked # "no" => kern'[e].present
                                /\ kern'[e].blocked = "yes" => kern[e].blocked = "yes"
      <4>1. CASE kern' = [kern EXCEPT ![act.d].present = FALSE, ![act.d].blocked = "no"]
        BY <1>0, <1>1, <4>1, GoneEffect DEF BlockedInv
      <4>2. CASE kern' = kern
        BY <1>0, <4>2 DEF BlockedInv, DevTypes
      <4>3. QED
        BY <3>1, <4>1, <4>2
    <3>3. QED
      BY <1>0, <1>1, <2>1, <3>1, <3>2 DEF DevTypes
  <2>2. CASE act.op # "netlink"
    BY <1>0, <2>2 DEF Done, DevTypes, BlockedInv
  <2>3. QED
    BY <2>1, <2>2
<1>4. NetlinkInv'
  <2>1. ASSUME NEW i \in DOMAIN nlq PROVE nlq[i].d \in Devices
    <3>1. nlq[i] \in Messages
      BY <1>0, <2>1 DEF DevTypes
    <3>2. QED
      BY <3>1 DEF Messages
  <2>2. QED
    BY <1>0, <1>1, <1>2, <1>3, <2>1 DEF NetlinkInv
<1>5. OpenInv'
  BY <1>0, <1>1, <1>2, <1>3 DEF OpenInv, In, Distinct
<1>6. CloseInv'
  BY <1>0, <1>1, <1>2 DEF CloseInv, In, Distinct
<1>7. BlockedInv'
  BY <1>0, <1>1, <1>2, <1>3 DEF BlockedInv, In
<1>8. QED
  BY <1>0, <1>1, <1>3, <1>4, <1>5, <1>6, <1>7 DEF DeviceInv, DevTypes

\* Every step keeps the devices in order.
LEMMA DeviceStepInv == DeviceInv /\ [Next]_vars => DeviceInv'
<1> SUFFICES ASSUME DeviceInv, [Next]_vars PROVE DeviceInv'
  OBVIOUS
<1>1. ASSUME NEW d \in Devices, NEW cmd \in {"add", "remove", "reconfig"}, KernelAsks(d, cmd)
      PROVE  DeviceInv'
  BY <1>1, KernelAsksStep DEF Requests
<1>2. CASE Start \/ ScanDir \/ Run \/ Quit
  BY <1>2, PhaseStep
<1>3. CASE ScanNext \/ CloseNext
  BY <1>3, NextStep
<1>4. CASE Exit \/ Crash
  BY <1>4, GoneStep DEF Exit, Crash
<1>5. CASE Netlink
  BY <1>5, NetlinkStep
<1>6. CASE DeviceStep
  <2>1. CASE Find \/ Reconfig
    BY <2>1, FindStep
  <2>2. CASE Block \/ Unblock
    BY <2>2, BlockStep
  <2>3. CASE OpenUio \/ CloseUio
    BY <2>3, UioStep
  <2>4. CASE Added
    BY <2>4, AddedStep
  <2>5. CASE Take
    BY <2>5, TakeStep
  <2>6. CASE Done
    BY <2>6, DoneStep
  <2>7. QED
    BY <1>6, <2>1, <2>2, <2>3, <2>4, <2>5, <2>6 DEF DeviceStep
<1>7. CASE BusStep
  BY <1>7, DeviceFrame DEF BusStep, OnRegister, OnAppeared, OnVanished
<1>8. ASSUME NEW s \in Consumers, NameAcquired(s) \/ NameLost(s) \/ ServiceAppeared(s)
      PROVE  DeviceInv'
  BY <1>8, DeviceFrame DEF NameAcquired, NameLost, ServiceAppeared
<1>9. ASSUME NEW s \in Subtypes, StrayCall(s)
      PROVE  DeviceInv'
  BY <1>9, DeviceFrame DEF StrayCall
<1>10. CASE UNCHANGED vars
  BY <1>10, DeviceFrame DEF vars
<1>11. QED
  BY <1>1, <1>2, <1>3, <1>4, <1>5, <1>6, <1>7, <1>8, <1>9, <1>10 DEF Next


-----------------------------------------------------------------------------
(* What the steps on the bus do.                                           *)

\* What the watchers of a name are told is no call.
LEMMA TellType ==
    ASSUME NEW s, NEW what \in {"up", "down"}
    PROVE  Tell(s, what) \in Seq(Events) /\ \A i \in DOMAIN Tell(s, what) : Tell(s, what)[i].ev = what
<1> DEFINE W == Watchers(s)
           n == Cardinality(W)
           q == SetToSeq(W)
<1>1. W \subseteq Calls /\ IsFiniteSet(W)
  BY DaemonAssumption, FS_Subset DEF Watchers
<1>2. q \in [1 .. n -> W] /\ n \in Nat
  BY <1>1, SetToSeqType
<1>3. Tell(s, what) = [i \in 1 .. n |-> [ev |-> what, c |-> q[i]]]
  BY DEF Tell
<1> HIDE DEF W, n, q
<1>4. \A i \in 1 .. n : q[i] \in Calls
  BY <1>1, <1>2
<1>5. \A i \in 1 .. n : [ev |-> what, c |-> q[i]] \in Events
  BY <1>4 DEF Events
<1>6. [i \in 1 .. n |-> [ev |-> what, c |-> q[i]]] \in [1 .. n -> Events]
  BY <1>5
<1>7. Tell(s, what) \in Seq(Events)
  BY <1>2, <1>3, <1>6, SeqDef
<1>8. QED
  BY <1>3, <1>7

\* Events behind the others.
LEMMA ConcatEvents ==
    ASSUME NEW q \in Seq(Events), NEW t \in Seq(Events)
    PROVE  /\ q \o t \in Seq(Events) /\ DOMAIN (q \o t) = 1 .. Len(q) + Len(t)
           /\ DOMAIN q = 1 .. Len(q) /\ DOMAIN t = 1 .. Len(t) /\ Len(q) \in Nat /\ Len(t) \in Nat
           /\ \A i \in 1 .. Len(q) : (q \o t)[i] = q[i]
           /\ \A i \in Len(q) + 1 .. Len(q) + Len(t) : i - Len(q) \in 1 .. Len(t) /\ (q \o t)[i] = t[i - Len(q)]
  BY ConcatProperties, LenProperties

\* The calls on the bus, each once and none of them looked at (QueueInv for a
\* queue and a state of the calls).
Queued(q, st) ==
    \A i \in DOMAIN q : q[i].ev = "call" =>
      /\ st[q[i].c].st = "sent"
      /\ \A j \in DOMAIN q : q[j].ev = "call" /\ q[j].c = q[i].c => i = j

\* News of a name go to the end of the queue.
LEMMA TellKeepsQueue ==
    ASSUME NEW q \in Seq(Events), NEW st, Queued(q, st), NEW s, NEW what \in {"up", "down"}
    PROVE  q \o Tell(s, what) \in Seq(Events) /\ Queued(q \o Tell(s, what), st)
           /\ \A i \in DOMAIN (q \o Tell(s, what)) : (q \o Tell(s, what))[i].ev = "call" =>
                \E j \in DOMAIN q : (q \o Tell(s, what))[i] = q[j]
<1> DEFINE t == Tell(s, what)
           r == q \o t
<1>1. t \in Seq(Events) /\ \A i \in DOMAIN t : t[i].ev # "call"
  BY TellType
<1> HIDE DEF t
<1>2. /\ r \in Seq(Events) /\ DOMAIN r = 1 .. Len(q) + Len(t)
      /\ DOMAIN q = 1 .. Len(q) /\ DOMAIN t = 1 .. Len(t) /\ Len(q) \in Nat /\ Len(t) \in Nat
      /\ \A i \in 1 .. Len(q) : r[i] = q[i]
      /\ \A i \in Len(q) + 1 .. Len(q) + Len(t) : i - Len(q) \in 1 .. Len(t) /\ r[i] = t[i - Len(q)]
  BY <1>1, ConcatEvents
<1> HIDE DEF r
<1>3. \A i \in DOMAIN r : r[i].ev = "call" => i \in DOMAIN q /\ r[i] = q[i]
  <2> SUFFICES ASSUME NEW i \in DOMAIN r, r[i].ev = "call" PROVE i \in DOMAIN q /\ r[i] = q[i]
    OBVIOUS
  <2>1. CASE i > Len(q)
    <3>1. i - Len(q) \in DOMAIN t /\ r[i] = t[i - Len(q)]
      BY <1>2, <2>1
    <3>2. QED
      BY <1>1, <3>1
  <2>2. CASE i <= Len(q)
    BY <1>2, <2>2
  <2>3. QED
    BY <1>2, <2>1, <2>2
<1>4. Queued(r, st)
  BY <1>3 DEF Queued
<1>5. QED
  BY <1>2, <1>3, <1>4 DEF r, t

\* A new call goes to the end of the queue.
LEMMA CallKeepsQueue ==
    ASSUME NEW q \in Seq(Events), NEW st, Queued(q, st), NEW c \in Calls, NEW st2,
           st2[c].st = "sent", st[c].st # "sent", \A d \in Calls : d # c => st2[d].st = st[d].st
    PROVE  /\ Append(q, [ev |-> "call", c |-> c]) \in Seq(Events)
           /\ Queued(Append(q, [ev |-> "call", c |-> c]), st2)
<1> DEFINE e == [ev |-> "call", c |-> c]
           r == Append(q, e)
<1>1. e \in Events /\ e.ev = "call" /\ e.c = c
  BY DEF Events
<1>2. \A i \in DOMAIN q : q[i].c \in Calls
  <2> SUFFICES ASSUME NEW i \in DOMAIN q PROVE q[i].c \in Calls
    OBVIOUS
  <2>1. q[i] \in Events
    OBVIOUS
  <2>2. QED
    BY <2>1 DEF Events
<1> HIDE DEF e
<1>3. /\ r \in Seq(Events) /\ DOMAIN r = 1 .. Len(q) + 1 /\ Len(q) \in Nat /\ DOMAIN q = 1 .. Len(q)
      /\ r[Len(q) + 1] = e /\ \A i \in 1 .. Len(q) : r[i] = q[i]
  BY <1>1
<1> HIDE DEF r
<1>4. \A i \in DOMAIN q : q[i].ev = "call" => q[i].c # c /\ st2[q[i].c].st = "sent"
  BY <1>2 DEF Queued
<1>5. ASSUME NEW i \in DOMAIN r, r[i].ev = "call"
      PROVE  /\ st2[r[i].c].st = "sent"
             /\ \A j \in DOMAIN r : r[j].ev = "call" /\ r[j].c = r[i].c => i = j
  <2>1. CASE i = Len(q) + 1
    <3>1. r[i] = e
      BY <1>3, <2>1
    <3>2. ASSUME NEW j \in DOMAIN r, r[j].ev = "call", r[j].c = r[i].c PROVE i = j
      <4>1. CASE j \in DOMAIN q
        BY <1>1, <1>3, <1>4, <3>1, <3>2, <4>1
      <4>2. QED
        BY <1>3, <2>1, <4>1
    <3>3. QED
      BY <1>1, <3>1, <3>2
  <2>2. CASE i \in DOMAIN q
    <3>1. r[i] = q[i]
      BY <1>3, <2>2
    <3>2. ASSUME NEW j \in DOMAIN r, r[j].ev = "call", r[j].c = r[i].c PROVE i = j
      <4>1. CASE j \in DOMAIN q
        BY <1>3, <1>5, <2>2, <3>1, <3>2, <4>1 DEF Queued
      <4>2. CASE j = Len(q) + 1
        BY <1>1, <1>3, <1>4, <1>5, <2>2, <3>1, <3>2, <4>2
      <4>3. QED
        BY <1>3, <4>1, <4>2
    <3>3. QED
      BY <1>4, <1>5, <2>2, <3>1, <3>2
  <2>3. QED
    BY <1>3, <2>1, <2>2
<1>6. Queued(r, st2)
  BY <1>5 DEF Queued
<1>7. QED
  BY <1>3, <1>6 DEF r, e

\* The first event leaves the queue; what it was about may change its state.
LEMMA TailKeepsQueue ==
    ASSUME NEW q \in Seq(Events), NEW st, Queued(q, st), q # << >>, NEW st2,
           \A d \in Calls : d # Head(q).c => st2[d].st = st[d].st,
           Head(q).ev # "call" => st[Head(q).c].st # "sent" \/ st2[Head(q).c].st = st[Head(q).c].st
    PROVE  /\ Tail(q) \in Seq(Events) /\ Queued(Tail(q), st2)
           /\ Head(q) \in Events /\ Head(q).c \in Calls
           /\ Head(q).ev = "call" => st[Head(q).c].st = "sent"
<1>1. /\ Tail(q) \in Seq(Events) /\ Head(q) \in Events /\ Head(q) = q[1] /\ 1 \in DOMAIN q
      /\ \A i \in DOMAIN Tail(q) : i \in Nat \ {0} /\ i + 1 \in DOMAIN q /\ Tail(q)[i] = q[i + 1]
  BY HeadTailProperties, EmptySeq, LenProperties
<1>2. \A i \in DOMAIN q : q[i].c \in Calls
  <2> SUFFICES ASSUME NEW i \in DOMAIN q PROVE q[i].c \in Calls
    OBVIOUS
  <2>1. q[i] \in Events
    OBVIOUS
  <2>2. QED
    BY <2>1 DEF Events
<1> DEFINE t == Tail(q)
           h == Head(q)
<1> HIDE DEF t, h
<1>3. Head(q).ev = "call" => st[Head(q).c].st = "sent"
  BY <1>1 DEF Queued
<1>4. ASSUME NEW i \in DOMAIN Tail(q), Tail(q)[i].ev = "call"
      PROVE  /\ st2[Tail(q)[i].c].st = "sent"
             /\ \A j \in DOMAIN Tail(q) : Tail(q)[j].ev = "call" /\ Tail(q)[j].c = Tail(q)[i].c => i = j
  <2>1. /\ i \in Nat /\ i + 1 \in DOMAIN q /\ i + 1 # 1 /\ Tail(q)[i] = q[i + 1]
        /\ q[i + 1].ev = "call" /\ q[i + 1].c \in Calls
    BY <1>1, <1>2, <1>4
  <2>2. st[q[i + 1].c].st = "sent"
    BY <2>1 DEF Queued
  <2>3. st2[q[i + 1].c].st = "sent"
    <3>1. CASE q[i + 1].c = Head(q).c
      <4>1. Head(q).ev # "call"
        BY <1>1, <2>1, <3>1 DEF Queued
      <4>2. QED
        BY <2>2, <3>1, <4>1
    <3>2. CASE q[i + 1].c # Head(q).c
      BY <2>1, <2>2, <3>2
    <3>3. QED
      BY <3>1, <3>2
  <2>4. ASSUME NEW j \in DOMAIN Tail(q), Tail(q)[j].ev = "call", Tail(q)[j].c = Tail(q)[i].c
        PROVE  i = j
    <3>1. j \in Nat /\ j + 1 \in DOMAIN q /\ Tail(q)[j] = q[j + 1]
      BY <1>1, <2>4
    <3>2. i + 1 = j + 1
      BY <2>1, <2>4, <3>1 DEF Queued
    <3>3. QED
      BY <2>1, <3>1, <3>2
  <2>5. QED
    BY <2>1, <2>3, <2>4
<1>5. QED
  BY <1>1, <1>2, <1>3, <1>4 DEF Queued

\* An event that is no call goes to the end of the queue.
LEMMA NewsKeepsQueue ==
    ASSUME NEW q \in Seq(Events), NEW st, Queued(q, st), NEW e \in Events, e.ev # "call"
    PROVE  Append(q, e) \in Seq(Events) /\ Queued(Append(q, e), st)
<1> DEFINE r == Append(q, e)
<1>1. /\ r \in Seq(Events) /\ DOMAIN r = 1 .. Len(q) + 1 /\ Len(q) \in Nat /\ DOMAIN q = 1 .. Len(q)
      /\ r[Len(q) + 1] = e /\ \A i \in 1 .. Len(q) : r[i] = q[i]
  OBVIOUS
<1> HIDE DEF r
<1>2. \A i \in DOMAIN r : r[i].ev = "call" => i \in DOMAIN q /\ r[i] = q[i]
  BY <1>1
<1>3. Queued(r, st)
  BY <1>2 DEF Queued
<1>4. QED
  BY <1>1, <1>3 DEF r

\* One call changes.
LEMMA CallEffect ==
    ASSUME BusTypes, NEW c \in Calls, NEW k \in CallRecords, call' = [call EXCEPT ![c] = k]
    PROVE  call' \in [Calls -> CallRecords] /\ call'[c] = k /\ \A d \in Calls : d # c => call'[d] = call[d]
  BY DEF BusTypes

\* A call is sent: one that was not used before.
LEMMA SendEffect ==
    ASSUME BusTypes, NEW s \in Subtypes, Send(s, NextCall)
    PROVE  /\ NextCall \in Calls /\ call[NextCall].st = "unused" /\ call' \in [Calls -> CallRecords]
           /\ call'[NextCall].st = "sent" /\ call'[NextCall].freed = FALSE
           /\ \A d \in Calls : d # NextCall => call'[d] = call[d]
<1>1. NextCall \in Fresh
  BY DEF Send, NextCall
<1>2. NextCall \in Calls /\ call[NextCall].st = "unused"
  BY <1>1 DEF Fresh
<1> DEFINE k == [Unused EXCEPT !.sub = s, !.st = "sent", !.inv = TRUE]
<1>3. k \in CallRecords /\ k.st = "sent" /\ k.freed = FALSE
  BY DEF Unused, CallRecords, CallStates
<1>4. call' = [call EXCEPT ![NextCall] = k]
  BY DEF Send
<1> HIDE DEF k
<1>5. QED
  BY <1>2, <1>3, <1>4, CallEffect

\* The answer reaches whoever waits for it.
LEMMA AnsweredType ==
    ASSUME BusTypes, NEW c
    PROVE  Answered(c) \in [Consumers -> [own : BOOLEAN, svc : BOOLEAN, wait : Calls \cup {NoHandler}]]
<1> DEFINE C == [own : BOOLEAN, svc : BOOLEAN, wait : Calls \cup {NoHandler}]
<1>1. ASSUME NEW s \in Consumers PROVE Answered(c)[s] \in C
  <2>1. con[s] \in C
    BY DEF BusTypes
  <2>2. [con[s] EXCEPT !.wait = NoHandler] \in C
    BY <2>1
  <2>3. QED
    BY <2>1, <2>2 DEF Answered
<1>2. QED
  BY <1>1 DEF Answered

\* The handlers stay as they are while a call is new, or was not looked at.
LEMMA HandlerFrame ==
    ASSUME BusTypes, HandlerInv, NEW c \in Calls, call[c].st \in {"unused", "sent"},
           \A d \in Calls : d # c => call'[d] = call[d],
           call'[c].freed => call'[c].st = "gone", UNCHANGED <<phase, reg, exported>>
    PROVE  HandlerInv'
<1>1. c \notin reg /\ \A s \in Subtypes : exported[s] # c
  BY DEF HandlerInv
<1>2. \A h \in reg : Subtype(h)' = Subtype(h)
  BY <1>1 DEF Subtype, BusTypes
<1>3. \A d \in Calls : d \in reg' => call'[d].st = "watching"
  BY <1>1 DEF HandlerInv
<1>4. \A s \in Subtypes :
        exported'[s] \in Calls => call'[exported'[s]].st = "watching" /\ call'[exported'[s]].sub = s
  BY <1>1 DEF HandlerInv
<1>5. \A d \in Calls : call'[d].freed => call'[d].st = "gone"
  BY DEF HandlerInv
<1>6. \A g, h \in reg' : Subtype(g)' = Subtype(h)' => g = h
  BY <1>2 DEF HandlerInv
<1>7. phase' \in {"down", "netlink", "scan"} => reg' \subseteq Builtin
  BY DEF HandlerInv
<1>8. QED
  BY <1>3, <1>4, <1>5, <1>6, <1>7 DEF HandlerInv, Subtypes

\* What is not about the bus leaves the handlers as they are.
LEMMA BusFrame == BusInv /\ UNCHANGED <<phase, busVars>> => BusInv'
<1> SUFFICES ASSUME BusInv, UNCHANGED <<phase, busVars>> PROVE BusInv'
  OBVIOUS
<1>1. UNCHANGED <<phase, con, call, reg, exported, busq>>
  BY DEF busVars
<1>2. \A h : Subtype(h)' = Subtype(h)
  BY <1>1 DEF Subtype
<1>3. BusTypes' /\ QueueInv'
  BY <1>1 DEF BusInv, BusTypes, QueueInv
<1>4. HandlerInv'
  BY <1>1, <1>2 DEF BusInv, HandlerInv
<1>5. QED
  BY <1>3, <1>4 DEF BusInv

-----------------------------------------------------------------------------
(* Every step keeps the handlers in order.                                 *)

\* The calls on the bus, as they are now and after a step.
LEMMA QueueInvQueued == (QueueInv <=> Queued(busq, call)) /\ (QueueInv' <=> Queued(busq', call'))
  BY DEF QueueInv, Queued

\* The daemon starts, with the handlers of the directory.
LEMMA StartBus ==
    ASSUME BusInv, Start
    PROVE  BusInv'
<1>1. /\ phase' = "netlink" /\ reg' = Builtin /\ UNCHANGED <<con, call, exported, busq>>
  BY DEF Start, OpenHandlers, Initialize
<1>2. BusTypes /\ QueueInv /\ HandlerInv /\ phase = "down"
  BY DEF BusInv, Start
<1>3. BusTypes' /\ QueueInv'
  BY <1>1, <1>2 DEF BusTypes, QueueInv
<1>4. \A h \in Builtin : Subtype(h)' = h
  BY <1>1 DEF Subtype
<1>5. \A c \in Calls : c \notin reg'
  BY <1>1, DaemonAssumption
<1>6. HandlerInv'
  BY <1>1, <1>2, <1>4, <1>5 DEF HandlerInv
<1>7. QED
  BY <1>3, <1>6 DEF BusInv

\* The daemon moves on, and exports the handlers of the directory or none.
LEMMA PhaseBus ==
    ASSUME BusInv, ScanDir \/ Run \/ Quit
    PROVE  BusInv'
<1>1. UNCHANGED <<con, call, reg, busq>> /\ BusTypes /\ QueueInv /\ HandlerInv
  BY DEF ScanDir, Run, Quit, busVars, BusInv
<1>2. \/ phase = "netlink" /\ phase' = "scan" /\ exported' = exported
      \/ phase = "scan" /\ phase' = "run" /\ exported' = [s \in Subtypes |-> IF s \in reg THEN s ELSE NoHandler]
      \/ phase = "run" /\ phase' = "close" /\ exported' = [s \in Subtypes |-> NoHandler]
  BY DEF ScanDir, Run, Quit, busVars
<1>3. /\ exported' \in [Subtypes -> Builtin \cup Calls \cup {NoHandler}]
      /\ \A s \in Subtypes : exported'[s] \in Calls => exported'[s] = exported[s]
  <2>1. CASE phase = "netlink" /\ exported' = exported
    BY <1>1, <2>1 DEF BusTypes
  <2>2. CASE phase = "scan" /\ exported' = [s \in Subtypes |-> IF s \in reg THEN s ELSE NoHandler]
    <3>1. reg \subseteq Builtin
      BY <1>1, <2>2 DEF HandlerInv
    <3>2. \A s \in Subtypes : exported'[s] \in Builtin \cup {NoHandler}
      BY <2>2, <3>1
    <3>3. QED
      BY <2>2, <3>2, DaemonAssumption
  <2>3. CASE exported' = [s \in Subtypes |-> NoHandler]
    BY <2>3, DaemonAssumption
  <2>4. QED
    BY <1>2, <2>1, <2>2, <2>3
<1>4. BusTypes' /\ QueueInv'
  BY <1>1, <1>3 DEF BusTypes, QueueInv
<1>5. \A h : Subtype(h)' = Subtype(h)
  BY <1>1 DEF Subtype
<1>6. phase' = "scan" => reg \subseteq Builtin
  BY <1>1, <1>2 DEF HandlerInv
<1>7. HandlerInv'
  BY <1>1, <1>2, <1>3, <1>5, <1>6 DEF HandlerInv
<1>8. QED
  BY <1>4, <1>7 DEF BusInv

\* The end of the daemon: no handler and no call is left.
LEMMA GoneBus ==
    ASSUME BusInv, Gone
    PROVE  BusInv'
<1>1. /\ phase' = "down" /\ reg' = {} /\ exported' = [s \in Subtypes |-> NoHandler] /\ busq' = << >>
      /\ con' = [s \in Consumers |-> [con[s] EXCEPT !.svc = FALSE, !.wait = NoHandler]]
      /\ call' = [c \in Calls |-> Unused]
  BY DEF Gone
<1> DEFINE C == [own : BOOLEAN, svc : BOOLEAN, wait : Calls \cup {NoHandler}]
<1>2. con' \in [Consumers -> C]
  <2>1. ASSUME NEW s \in Consumers PROVE [con[s] EXCEPT !.svc = FALSE, !.wait = NoHandler] \in C
    <3>1. con[s] \in C
      BY DEF BusInv, BusTypes
    <3>2. QED
      BY <3>1
  <2>2. QED
    BY <1>1, <2>1
<1>3. Unused \in CallRecords /\ Unused.freed = FALSE
  BY DEF Unused, CallRecords, CallStates
<1>4. BusTypes'
  BY <1>1, <1>2, <1>3, EmptySeq DEF BusTypes
<1>5. QueueInv'
  <2>1. busq' = << >>
    BY <1>1
  <2>2. DOMAIN busq' = {}
    BY <2>1
  <2>3. QED
    BY <2>2 DEF QueueInv
<1>6. HandlerInv'
  BY <1>1, <1>3, DaemonAssumption DEF HandlerInv
<1>7. QED
  BY <1>4, <1>5, <1>6 DEF BusInv

\* A consumer gets its name or loses it.
LEMMA NameBus ==
    ASSUME BusInv, NEW s \in Consumers, NameAcquired(s) \/ NameLost(s)
    PROVE  BusInv'
<1>1. BusTypes /\ QueueInv /\ HandlerInv /\ Queued(busq, call) /\ UNCHANGED <<phase, reg, exported>> /\ s \in Subtypes
  BY QueueInvQueued DEF BusInv, NameAcquired, NameLost, Subtypes
<1> DEFINE C == [own : BOOLEAN, svc : BOOLEAN, wait : Calls \cup {NoHandler}]
<1>2. busq \in Seq(Events) /\ con \in [Consumers -> C] /\ con[s] \in C
  BY <1>1 DEF BusTypes
<1>3. CASE NameAcquired(s) /\ con[s].svc
  <2>1. /\ Send(s, NextCall) /\ con' = [con EXCEPT ![s].own = TRUE, ![s].wait = NextCall]
        /\ busq' = busq \o Tell(s, "up") \o <<[ev |-> "call", c |-> NextCall]>>
    BY <1>3 DEF NameAcquired
  <2>2. /\ NextCall \in Calls /\ call[NextCall].st = "unused" /\ call' \in [Calls -> CallRecords]
        /\ call'[NextCall].st = "sent" /\ call'[NextCall].freed = FALSE
        /\ \A d \in Calls : d # NextCall => call'[d] = call[d]
    BY <1>1, <2>1, SendEffect
  <2> DEFINE q == busq \o Tell(s, "up")
             e == [ev |-> "call", c |-> NextCall]
  <2>3. q \in Seq(Events) /\ Queued(q, call)
    BY <1>1, <1>2, TellKeepsQueue
  <2>4. e \in Events
    BY <2>2 DEF Events
  <2>5. busq' = q \o <<e>>
    BY <2>1
  <2> HIDE DEF q
  <2>6. busq' = Append(q, e)
    <3> HIDE DEF e
    <3>1. QED
      BY <2>3, <2>4, <2>5, AppendIsConcat
  <2>7. busq' \in Seq(Events) /\ Queued(busq', call')
    BY <2>2, <2>3, <2>6, CallKeepsQueue
  <2>8. con' \in [Consumers -> C]
    <3>1. [con[s] EXCEPT !.own = TRUE, !.wait = NextCall] \in C
      BY <1>2, <2>2
    <3>2. con' = [con EXCEPT ![s] = [con[s] EXCEPT !.own = TRUE, !.wait = NextCall]]
      BY <1>2, <2>1
    <3> HIDE DEF C
    <3>3. QED
      BY <1>2, <3>1, <3>2
  <2>9. HandlerInv'
    BY <1>1, <2>2, HandlerFrame
  <2>10. QED
    BY <1>1, <2>2, <2>7, <2>8, <2>9, QueueInvQueued DEF BusInv, BusTypes
<1>4. CASE (NameAcquired(s) /\ ~con[s].svc) \/ NameLost(s)
  <2>1. PICK what \in {"up", "down"} : UNCHANGED call /\ busq' = busq \o Tell(s, what)
    BY <1>4 DEF NameAcquired, NameLost
  <2>2. con' = [con EXCEPT ![s].own = TRUE] \/ con' = [con EXCEPT ![s].own = FALSE, ![s].wait = NoHandler]
    BY <1>4 DEF NameAcquired, NameLost
  <2>3. con' \in [Consumers -> C]
    <3>1. [con[s] EXCEPT !.own = TRUE] \in C /\ [con[s] EXCEPT !.own = FALSE, !.wait = NoHandler] \in C
      BY <1>2
    <3>2. \/ con' = [con EXCEPT ![s] = [con[s] EXCEPT !.own = TRUE]]
          \/ con' = [con EXCEPT ![s] = [con[s] EXCEPT !.own = FALSE, !.wait = NoHandler]]
      BY <1>2, <2>2
    <3> HIDE DEF C
    <3>3. QED
      BY <1>2, <3>1, <3>2
  <2>4. busq' \in Seq(Events) /\ Queued(busq', call')
    BY <1>1, <1>2, <2>1, TellKeepsQueue
  <2>5. \A h : Subtype(h)' = Subtype(h)
    BY <2>1 DEF Subtype
  <2>6. HandlerInv'
    BY <1>1, <2>1, <2>5 DEF HandlerInv
  <2>7. QED
    BY <1>1, <2>1, <2>3, <2>4, <2>6, QueueInvQueued DEF BusInv, BusTypes
<1>5. QED
  BY <1>3, <1>4

\* The service shows up, or a call comes from a process without the name.
LEMMA SentBus ==
    ASSUME BusInv, NEW s \in Subtypes, (s \in Consumers /\ ServiceAppeared(s)) \/ StrayCall(s)
    PROVE  BusInv'
<1>1. BusTypes /\ QueueInv /\ HandlerInv /\ Queued(busq, call) /\ UNCHANGED <<phase, reg, exported>>
  BY QueueInvQueued DEF BusInv, ServiceAppeared, StrayCall
<1> DEFINE C == [own : BOOLEAN, svc : BOOLEAN, wait : Calls \cup {NoHandler}]
<1>2. busq \in Seq(Events) /\ con \in [Consumers -> C]
  BY <1>1 DEF BusTypes
<1>3. CASE Send(s, NextCall) /\ busq' = Append(busq, [ev |-> "call", c |-> NextCall])
  <2>1. /\ NextCall \in Calls /\ call[NextCall].st = "unused" /\ call' \in [Calls -> CallRecords]
        /\ call'[NextCall].st = "sent" /\ call'[NextCall].freed = FALSE
        /\ \A d \in Calls : d # NextCall => call'[d] = call[d]
    BY <1>1, <1>3, SendEffect
  <2>2. busq' \in Seq(Events) /\ Queued(busq', call')
    BY <1>1, <1>2, <1>3, <2>1, CallKeepsQueue
  <2>3. con' \in [Consumers -> C]
    <3>1. CASE UNCHANGED con
      BY <1>2, <3>1
    <3>2. CASE s \in Consumers /\ con' = [con EXCEPT ![s].svc = TRUE, ![s].wait = NextCall]
      <4>1. con[s] \in C
        BY <1>2, <3>2
      <4>2. [con[s] EXCEPT !.svc = TRUE, !.wait = NextCall] \in C
        BY <2>1, <4>1
      <4>3. con' = [con EXCEPT ![s] = [con[s] EXCEPT !.svc = TRUE, !.wait = NextCall]]
        BY <1>2, <3>2
      <4> HIDE DEF C
      <4>4. QED
        BY <1>2, <4>2, <4>3
    <3>3. CASE s \in Consumers /\ con' = [con EXCEPT ![s].svc = TRUE]
      <4>1. con[s] \in C
        BY <1>2, <3>3
      <4>2. [con[s] EXCEPT !.svc = TRUE] \in C
        BY <4>1
      <4> HIDE DEF C
      <4>3. QED
        BY <1>2, <3>3, <4>2
    <3>4. QED
      BY <3>1, <3>2, <3>3 DEF ServiceAppeared, StrayCall
  <2>4. HandlerInv'
    BY <1>1, <2>1, HandlerFrame
  <2>5. QED
    BY <1>1, <2>1, <2>2, <2>3, <2>4, QueueInvQueued DEF BusInv, BusTypes
<1>4. CASE s \in Consumers /\ con' = [con EXCEPT ![s].svc = TRUE] /\ UNCHANGED <<call, busq>>
  <2>1. con' \in [Consumers -> C]
    <3>1. con[s] \in C
      BY <1>2, <1>4, Zenon
    <3>2. [con[s] EXCEPT !.svc = TRUE] \in C
      BY <3>1
    <3> HIDE DEF C
    <3>3. QED
      BY <1>2, <1>4, <3>2
  <2>2. UNCHANGED <<call, busq>>
    BY <1>4
  <2>3. \A h : Subtype(h)' = Subtype(h)
    BY <2>2 DEF Subtype
  <2>4. HandlerInv'
    BY <1>1, <2>2, <2>3 DEF HandlerInv
  <2>5. QED
    BY <1>1, <2>1, <2>2, <2>4 DEF BusInv, BusTypes, QueueInv
<1>5. QED
  BY <1>3, <1>4 DEF ServiceAppeared, StrayCall

\* A call is looked at: its handler is watched for, or the call refused.
LEMMA RegisterBus ==
    ASSUME BusInv, OnRegister
    PROVE  BusInv'
<1> DEFINE c == Head(busq).c
<1>1. /\ BusTypes /\ QueueInv /\ HandlerInv /\ Queued(busq, call) /\ busq \in Seq(Events)
      /\ UNCHANGED <<phase, reg, exported>> /\ busq # << >> /\ Head(busq).ev = "call"
  BY QueueInvQueued DEF BusInv, OnRegister, Event, BusTypes
<1>2. /\ Tail(busq) \in Seq(Events) /\ Head(busq) \in Events /\ c \in Calls /\ call[c].st = "sent"
  BY <1>1, TailKeepsQueue
<1>3. call[c] \in CallRecords
  BY <1>1, <1>2 DEF BusTypes
<1>4. CASE /\ call' = [call EXCEPT ![c].st = "watching"] /\ UNCHANGED con
           /\ busq' = Append(Tail(busq), [c |-> c, ev |->
                        IF call[c].sub \in Consumers /\ con[call[c].sub].own THEN "up" ELSE "down"])
  <2> DEFINE k == [call[c] EXCEPT !.st = "watching"]
             e == [c |-> c, ev |-> IF call[c].sub \in Consumers /\ con[call[c].sub].own THEN "up" ELSE "down"]
  <2>1. k \in CallRecords /\ k.st = "watching" /\ k.freed = call[c].freed
    BY <1>3 DEF CallRecords, CallStates
  <2>2. call' = [call EXCEPT ![c] = k]
    BY <1>4
  <2> HIDE DEF k
  <2>3. call' \in [Calls -> CallRecords] /\ call'[c] = k /\ \A d \in Calls : d # c => call'[d] = call[d]
    BY <1>1, <1>2, <2>1, <2>2, CallEffect
  <2>4. e \in Events /\ e.ev # "call"
    BY <1>2 DEF Events
  <2>5. busq' = Append(Tail(busq), e)
    BY <1>4
  <2> HIDE DEF e, c
  <2>6. Queued(Tail(busq), call')
    BY <1>1, <2>3, TailKeepsQueue DEF c
  <2>7. busq' \in Seq(Events) /\ Queued(busq', call')
    BY <1>2, <2>4, <2>5, <2>6, NewsKeepsQueue
  <2>8. call[c].freed = FALSE
    <3>1. call[c].freed \in BOOLEAN
      BY <1>3 DEF CallRecords
    <3>2. ~call[c].freed
      BY <1>1, <1>2 DEF HandlerInv
    <3>3. QED
      BY <3>1, <3>2
  <2>9. HandlerInv'
    BY <1>1, <1>2, <2>1, <2>3, <2>8, HandlerFrame
  <2>10. QED
    BY <1>1, <1>4, <2>3, <2>7, <2>9, QueueInvQueued DEF BusInv, BusTypes
<1>5. CASE /\ call' = [call EXCEPT ![c].st = "gone", ![c].inv = FALSE, ![c].freed = TRUE, ![c].reply = "FALSE"]
           /\ con' = Answered(c) /\ busq' = Tail(busq)
  <2> DEFINE k == [call[c] EXCEPT !.st = "gone", !.inv = FALSE, !.freed = TRUE, !.reply = "FALSE"]
  <2>1. k \in CallRecords /\ k.st = "gone"
    BY <1>3 DEF CallRecords, CallStates
  <2>2. call' = [call EXCEPT ![c] = k]
    BY <1>1, <1>5 DEF BusTypes
  <2> HIDE DEF k, c
  <2>3. call' \in [Calls -> CallRecords] /\ call'[c] = k /\ \A d \in Calls : d # c => call'[d] = call[d]
    BY <1>1, <1>2, <2>1, <2>2, CallEffect
  <2>4. Queued(busq', call')
    BY <1>1, <1>5, <2>3, TailKeepsQueue DEF c
  <2>5. con' \in [Consumers -> [own : BOOLEAN, svc : BOOLEAN, wait : Calls \cup {NoHandler}]]
    BY <1>1, <1>5, AnsweredType
  <2>6. HandlerInv'
    BY <1>1, <1>2, <2>1, <2>3, HandlerFrame
  <2>7. busq' \in Seq(Events) /\ UNCHANGED <<reg, exported>>
    BY <1>1, <1>2, <1>5
  <2>8. QED
    BY <1>1, <2>3, <2>4, <2>5, <2>6, <2>7, QueueInvQueued, SMTT(30) DEF BusInv, BusTypes
<1>6. QED
  BY <1>4, <1>5 DEF OnRegister

\* The name of a handler is there: the handler is registered unless its subtype
\* is taken, and exported.
LEMMA AppearedBus ==
    ASSUME BusInv, OnAppeared
    PROVE  BusInv'
<1> DEFINE c == Head(busq).c
<1>1. /\ BusTypes /\ QueueInv /\ HandlerInv /\ Queued(busq, call) /\ busq \in Seq(Events)
      /\ phase = "run" /\ phase' = phase /\ busq # << >> /\ Head(busq).ev = "up" /\ busq' = Tail(busq)
  BY QueueInvQueued DEF BusInv, OnAppeared, Event, BusTypes
<1>2. Tail(busq) \in Seq(Events) /\ Head(busq) \in Events /\ c \in Calls
  BY <1>1, TailKeepsQueue
<1>3. call[c] \in CallRecords
  BY <1>1, <1>2 DEF BusTypes
<1>4. CASE call[c].st = "watching" /\ call[c].inv
  <2>0. /\ reg' = Register(c) /\ exported' = [exported EXCEPT ![call[c].sub] = c]
        /\ call' = [call EXCEPT ![c].inv = FALSE, ![c].reply = "TRUE"] /\ con' = Answered(c)
    BY <1>4 DEF OnAppeared
  <2> DEFINE k == [call[c] EXCEPT !.inv = FALSE, !.reply = "TRUE"]
  <2>1. k \in CallRecords /\ k.st = call[c].st /\ k.freed = call[c].freed /\ k.sub = call[c].sub
    BY <1>3 DEF CallRecords, CallStates
  <2>2. call' = [call EXCEPT ![c] = k]
    BY <1>1, <2>0 DEF BusTypes
  <2> HIDE DEF k, c
  <2>3. call' \in [Calls -> CallRecords] /\ call'[c] = k /\ \A d \in Calls : d # c => call'[d] = call[d]
    BY <1>1, <1>2, <2>1, <2>2, CallEffect
  <2>4. \A d \in Calls : call'[d].st = call[d].st /\ call'[d].sub = call[d].sub /\ call'[d].freed = call[d].freed
    BY <2>1, <2>3
  <2>5. Queued(busq', call')
    BY <1>1, <1>2, <2>4, TailKeepsQueue DEF c
  <2>6. con' \in [Consumers -> [own : BOOLEAN, svc : BOOLEAN, wait : Calls \cup {NoHandler}]]
    BY <1>1, <2>0, AnsweredType
  <2>7. /\ exported' \in [Subtypes -> Builtin \cup Calls \cup {NoHandler}]
        /\ \A s \in Subtypes : exported'[s] = exported[s] \/ (exported'[s] = c /\ s = call[c].sub)
    BY <1>1, <1>2, <2>0 DEF BusTypes
  <2>8. /\ reg' \subseteq reg \cup {c} /\ reg' \subseteq Builtin \cup Calls
        /\ c \in reg \/ c \notin reg' \/ \A h \in reg : Subtype(h) # call[c].sub
    BY <1>1, <1>2, <2>0 DEF Register, BusTypes
  <2>9. \A h \in reg \cup {c} : Subtype(h)' = Subtype(h)
    BY <1>1, <1>2, <2>4 DEF Subtype, BusTypes
  <2>10. Subtype(c) = call[c].sub
    BY <1>2, DaemonAssumption DEF Subtype
  <2>11. HandlerInv'
    <3>1. \A d \in Calls : d \in reg' => call'[d].st = "watching"
      BY <1>1, <1>4, <2>4, <2>8 DEF HandlerInv
    <3>2. \A s \in Subtypes :
            exported'[s] \in Calls => call'[exported'[s]].st = "watching" /\ call'[exported'[s]].sub = s
      BY <1>1, <1>4, <2>4, <2>7 DEF HandlerInv
    <3>3. \A d \in Calls : call'[d].freed => call'[d].st = "gone"
      BY <1>1, <2>4 DEF HandlerInv
    <3>4. \A g, h \in reg' : Subtype(g)' = Subtype(h)' => g = h
      BY <1>1, <2>8, <2>9, <2>10 DEF HandlerInv
    <3>5. QED
      BY <1>1, <3>1, <3>2, <3>3, <3>4 DEF HandlerInv, Subtypes
  <2>12. QED
    BY <1>1, <1>2, <2>3, <2>5, <2>6, <2>7, <2>8, <2>11, QueueInvQueued DEF BusInv, BusTypes
<1>5. CASE ~(call[c].st = "watching" /\ call[c].inv)
  <2>0. UNCHANGED <<reg, exported, call, con>>
    BY <1>5 DEF OnAppeared
  <2> HIDE DEF c
  <2>1. Queued(busq', call')
    BY <1>1, <2>0, TailKeepsQueue
  <2>2. \A h : Subtype(h)' = Subtype(h)
    BY <2>0 DEF Subtype
  <2>3. HandlerInv'
    BY <1>1, <2>0, <2>2 DEF HandlerInv
  <2>4. QED
    BY <1>1, <1>2, <2>0, <2>1, <2>3, QueueInvQueued DEF BusInv, BusTypes
<1>6. QED
  BY <1>4, <1>5

\* The name of a handler is gone, and with it the handler and its object.
LEMMA VanishedBus ==
    ASSUME BusInv, OnVanished
    PROVE  BusInv'
<1> DEFINE c == Head(busq).c
<1>1. /\ BusTypes /\ QueueInv /\ HandlerInv /\ Queued(busq, call) /\ busq \in Seq(Events)
      /\ phase = "run" /\ phase' = phase /\ busq # << >> /\ Head(busq).ev = "down" /\ busq' = Tail(busq)
  BY QueueInvQueued DEF BusInv, OnVanished, Event, BusTypes
<1>2. Tail(busq) \in Seq(Events) /\ Head(busq) \in Events /\ c \in Calls
  BY <1>1, TailKeepsQueue
<1>3. call[c] \in CallRecords
  BY <1>1, <1>2 DEF BusTypes
<1>4. CASE call[c].st = "watching"
  <2>0. /\ reg' = reg \ {c} /\ exported' = [exported EXCEPT ![call[c].sub] = NoHandler] /\ con' = Answered(c)
        /\ call' = [call EXCEPT ![c].st = "gone", ![c].inv = FALSE, ![c].freed = Freed(c),
                                ![c].reply = IF call[c].inv THEN "FALSE" ELSE @]
    BY <1>4, Zenon DEF OnVanished, Unregister
  <2> DEFINE k == [call[c] EXCEPT !.st = "gone", !.inv = FALSE, !.freed = Freed(c),
                                  !.reply = IF call[c].inv THEN "FALSE" ELSE @]
  <2>1. k \in CallRecords /\ k.st = "gone" /\ k.sub = call[c].sub
    <3>1. Freed(c) \in BOOLEAN
      BY DEF Freed
    <3>2. QED
      BY <1>3, <3>1, ZenonT(60) DEF CallRecords, CallStates
  <2>2. call' = [call EXCEPT ![c] = k]
    BY <1>1, <2>0 DEF BusTypes
  <2> HIDE DEF k, c
  <2>3. call' \in [Calls -> CallRecords] /\ call'[c] = k /\ \A d \in Calls : d # c => call'[d] = call[d]
    BY <1>1, <1>2, <2>1, <2>2, CallEffect
  <2>4. Queued(busq', call')
    BY <1>1, <1>4, <2>3, TailKeepsQueue DEF c
  <2>5. con' \in [Consumers -> [own : BOOLEAN, svc : BOOLEAN, wait : Calls \cup {NoHandler}]]
    BY <1>1, <2>0, AnsweredType
  <2>6. /\ exported' \in [Subtypes -> Builtin \cup Calls \cup {NoHandler}]
        /\ \A s \in Subtypes : exported'[s] = NoHandler \/ (exported'[s] = exported[s] /\ s # call[c].sub)
    BY <1>1, <2>0 DEF BusTypes
  <2>7. \A s \in Subtypes : exported'[s] \in Calls => exported'[s] = exported[s] /\ exported[s] # c
    BY <1>1, <1>2, <2>6, DaemonAssumption DEF HandlerInv
  <2>8. \A h \in reg' : Subtype(h)' = Subtype(h)
    BY <1>1, <2>0, <2>3 DEF Subtype, BusTypes
  <2>9. HandlerInv'
    <3>1. \A d \in Calls : d \in reg' => call'[d].st = "watching"
      BY <1>1, <2>0, <2>3 DEF HandlerInv
    <3>2. \A s \in Subtypes :
            exported'[s] \in Calls => call'[exported'[s]].st = "watching" /\ call'[exported'[s]].sub = s
      BY <1>1, <2>3, <2>7 DEF HandlerInv
    <3>3. \A d \in Calls : call'[d].freed => call'[d].st = "gone"
      BY <1>1, <2>1, <2>3 DEF HandlerInv
    <3>4. \A g, h \in reg' : Subtype(g)' = Subtype(h)' => g = h
      BY <1>1, <2>0, <2>8 DEF HandlerInv
    <3>5. QED
      BY <1>1, <3>1, <3>2, <3>3, <3>4 DEF HandlerInv, Subtypes
  <2>10. reg' \subseteq Builtin \cup Calls
    BY <1>1, <2>0 DEF BusTypes
  <2>11. QED
    BY <1>1, <1>2, <2>3, <2>4, <2>5, <2>6, <2>9, <2>10, QueueInvQueued DEF BusInv, BusTypes
<1>5. CASE call[c].st # "watching"
  <2>0. UNCHANGED <<reg, exported, call, con>>
    BY <1>5 DEF OnVanished
  <2> HIDE DEF c
  <2>1. Queued(busq', call')
    BY <1>1, <2>0, TailKeepsQueue
  <2>2. \A h : Subtype(h)' = Subtype(h)
    BY <2>0 DEF Subtype
  <2>3. HandlerInv'
    BY <1>1, <2>0, <2>2 DEF HandlerInv
  <2>4. QED
    BY <1>1, <1>2, <2>0, <2>1, <2>3, QueueInvQueued DEF BusInv, BusTypes
<1>6. QED
  BY <1>4, <1>5

\* Every step keeps the handlers in order.
LEMMA BusStepInv == BusInv /\ [Next]_vars => BusInv'
<1> SUFFICES ASSUME BusInv, [Next]_vars PROVE BusInv'
  OBVIOUS
<1>1. ASSUME NEW d \in Devices, NEW cmd \in {"add", "remove", "reconfig"}, KernelAsks(d, cmd)
      PROVE  BusInv'
  BY <1>1, BusFrame DEF KernelAsks
<1>2. CASE Start
  BY <1>2, StartBus
<1>3. CASE ScanDir \/ Run \/ Quit
  BY <1>3, PhaseBus
<1>4. CASE ScanNext \/ CloseNext \/ Netlink
  BY <1>4, BusFrame DEF ScanNext, CloseNext, Netlink
<1>5. CASE Exit \/ Crash
  BY <1>5, GoneBus DEF Exit, Crash
<1>6. CASE DeviceStep
  BY <1>6, BusFrame
     DEF DeviceStep, Find, Block, OpenUio, Added, Take, CloseUio, Unblock, Reconfig, Done, Same
<1>7. CASE BusStep
  BY <1>7, RegisterBus, AppearedBus, VanishedBus DEF BusStep
<1>8. ASSUME NEW s \in Consumers, NameAcquired(s) \/ NameLost(s) \/ ServiceAppeared(s)
      PROVE  BusInv'
  BY <1>8, NameBus, SentBus DEF Subtypes
<1>9. ASSUME NEW s \in Subtypes, StrayCall(s)
      PROVE  BusInv'
  BY <1>9, SentBus
<1>10. CASE UNCHANGED vars
  BY <1>10, BusFrame DEF vars
<1>11. QED
  BY <1>1, <1>2, <1>3, <1>4, <1>5, <1>6, <1>7, <1>8, <1>9, <1>10 DEF Next

-----------------------------------------------------------------------------
(* The theorems.                                                           *)

\* Nothing is served, open or registered before the first daemon starts.
LEMMA InitInv == Init => DeviceInv /\ BusInv
<1> SUFFICES ASSUME Init PROVE DeviceInv /\ BusInv
  OBVIOUS
<1>1. /\ phase = "down" /\ todo = << >> /\ act = NoAct /\ served = << >> /\ nlq = << >> /\ busq = << >>
      /\ pend = [d \in Devices |-> "none"] /\ call = [c \in Calls |-> Unused] /\ reg = {}
      /\ exported = [s \in Subtypes |-> NoHandler]
      /\ con = [s \in Consumers |-> [own |-> FALSE, svc |-> FALSE, wait |-> NoHandler]]
  BY DEF Init
<1>2. /\ act.pc = "idle" /\ act.op = "none" /\ DOMAIN served = {} /\ DOMAIN nlq = {} /\ DOMAIN busq = {}
  BY <1>1 DEF NoAct
<1>3. kern \in [Devices -> Kernels] /\ \A d \in Devices : kern[d].fds = 0 /\ kern[d].blocked = "no"
  <2> DEFINE K == {[present |-> b, blocked |-> "no", fds |-> 0] : b \in BOOLEAN}
  <2>1. ASSUME NEW k \in K PROVE k \in Kernels /\ k.fds = 0 /\ k.blocked = "no"
    <3>1. PICK b \in BOOLEAN : k = [present |-> b, blocked |-> "no", fds |-> 0]
      OBVIOUS
    <3>2. 0 \in 0 .. 1
      OBVIOUS
    <3>3. k.fds = 0 /\ k.blocked = "no"
      BY <3>1
    <3>4. k \in Kernels
      BY <3>1, <3>2 DEF Kernels, Blocks
    <3>5. QED
      BY <3>3, <3>4
  <2>2. kern \in [Devices -> K]
    BY DEF Init
  <2> HIDE DEF K
  <2>3. QED
    BY <2>1, <2>2
<1>4. DevTypes
  BY <1>1, <1>3, EmptySeq DEF DevTypes
<1>5. NetlinkInv /\ OpenInv /\ CloseInv /\ BlockedInv
  BY <1>1, <1>2, <1>3 DEF NetlinkInv, OpenInv, CloseInv, BlockedInv, In, Distinct
<1>6. Unused \in CallRecords /\ Unused.freed = FALSE
  BY DEF Unused, CallRecords, CallStates
<1>7. BusTypes
  BY <1>1, <1>6, EmptySeq DEF BusTypes
<1>8. QueueInv /\ HandlerInv
  BY <1>1, <1>2, <1>6, DaemonAssumption DEF QueueInv, HandlerInv
<1>9. QED
  BY <1>4, <1>5, <1>7, <1>8 DEF DeviceInv, BusInv

\* The invariants give the values of the state.
LEMMA TypesFromInv == DeviceInv /\ BusInv => TypeOK
<1> SUFFICES ASSUME DeviceInv, BusInv PROVE TypeOK
  OBVIOUS
<1>1. DevTypes /\ NetlinkInv /\ BusTypes
  BY DEF DeviceInv, BusInv
<1>2. act = NoAct \/ (/\ act.d \in Devices /\ act.op \in {"scan", "netlink", "close"} /\ act.ok \in BOOLEAN
                      /\ act.op = "netlink" => pend[act.d] # "none")
  <2>1. CASE act \in Acts
    <3>1. act.d \in Devices /\ act.op \in {"scan", "netlink", "close"} /\ act.ok \in BOOLEAN
      BY <2>1 DEF Acts
    <3>2. QED
      BY <1>1, <3>1 DEF NetlinkInv
  <2>2. QED
    BY <1>1, <2>1 DEF DevTypes
<1>3. \A c \in Calls : call[c].st \in CallStates
  <2> SUFFICES ASSUME NEW c \in Calls PROVE call[c].st \in CallStates
    OBVIOUS
  <2>1. call[c] \in CallRecords
    BY <1>1 DEF BusTypes
  <2>2. QED
    BY <2>1 DEF CallRecords
<1>4. pend \in [Devices -> {"none", "add", "remove", "reconfig", "lost"}]
  <2>1. Requests \cup {"none", "lost"} = {"none", "add", "remove", "reconfig", "lost"}
    BY DEF Requests
  <2>2. QED
    BY <1>1, <2>1 DEF DevTypes
<1>5. QED
  BY <1>1, <1>2, <1>3, <1>4 DEF TypeOK, DevTypes, BusTypes, Kernels, Blocks, CallStates

\* A device that is served is served once.
LEMMA ServedOnce ==
    ASSUME NEW seq, NEW d, Distinct(seq)
    PROVE  Cardinality({i \in DOMAIN seq : seq[i] = d}) = IF In(d, seq) THEN 1 ELSE 0
<1>1. CASE In(d, seq)
  <2>1. PICK i \in DOMAIN seq : seq[i] = d
    BY <1>1 DEF In
  <2>2. {j \in DOMAIN seq : seq[j] = d} = {i}
    BY <2>1 DEF Distinct
  <2>3. QED
    BY <1>1, <2>2, FS_Singleton
<1>2. CASE ~In(d, seq)
  <2>1. {j \in DOMAIN seq : seq[j] = d} = {}
    BY <1>2 DEF In
  <2>2. QED
    BY <1>2, <2>1, FS_EmptySet
<1>3. QED
  BY <1>1, <1>2

\* Between events the open uio files are those of the devices that are served,
\* one each, and none of these was left blocked unless unblocking it failed:
\* add_device and remove_device undo what they did when they fail half way,
\* whatever the kernel announces, and a daemon that ends leaves nothing open.
THEOREM DevicesTheorem == Spec => []DevicesOpenAndRunning
<1>1. Init => DeviceInv /\ BusInv
  BY InitInv
<1>2. DeviceInv /\ BusInv /\ [Next]_vars => (DeviceInv /\ BusInv)'
  BY DeviceStepInv, BusStepInv
<1>3. DeviceInv /\ BusInv => DevicesOpenAndRunning
  <2> SUFFICES ASSUME DeviceInv, BusInv PROVE DevicesOpenAndRunning
    OBVIOUS
  <2>1. TypeOK
    BY TypesFromInv
  <2>2. DevTypes /\ OpenInv /\ BlockedInv
    BY DEF DeviceInv
  <2>3. ASSUME Idle, NEW d \in Devices
        PROVE  /\ kern[d].fds = Cardinality({i \in DOMAIN served : served[i] = d})
               /\ Contains(served, d) => kern[d].blocked # "yes"
    <3>1. act.pc = "idle" /\ act.op = "none"
      BY <2>3, NotAtWork
    <3>2. kern[d].fds \in 0 .. 1
      <4>1. kern[d] \in Kernels
        BY <2>2, <2>3 DEF DevTypes
      <4>2. QED
        BY <4>1 DEF Kernels
    <3>3. kern[d].fds = 1 <=> In(d, served)
      BY <2>2, <2>3, <3>1 DEF OpenInv
    <3>4. kern[d].fds = IF In(d, served) THEN 1 ELSE 0
      BY <3>2, <3>3
    <3>5. Cardinality({i \in DOMAIN served : served[i] = d}) = IF In(d, served) THEN 1 ELSE 0
      BY <2>2, ServedOnce DEF OpenInv
    <3>6. Contains(served, d) <=> In(d, served)
      <4>1. served \in Seq(Devices)
        BY <2>2 DEF DevTypes
      <4>2. QED
        BY <4>1, ContainsIn
    <3>7. Contains(served, d) => kern[d].blocked # "yes"
      BY <2>2, <2>3, <3>1, <3>6 DEF BlockedInv
    <3>8. QED
      BY <3>4, <3>5, <3>7
  <2>4. QED
    BY <2>1, <2>3 DEF DevicesOpenAndRunning
<1>4. QED
  BY <1>1, <1>2, <1>3, PTL DEF Spec

\* No handler that tcmur_unregister_dbus_handler freed is registered or is
\* reached through its D-Bus object, and no two registered handlers have the
\* same subtype, whatever the order of calls and of names that come and go.
THEOREM HandlersTheorem == Spec => []HandlersAlive
<1>1. Init => BusInv
  BY InitInv
<1>2. BusInv /\ [Next]_vars => BusInv'
  BY BusStepInv
<1>3. BusInv => HandlersAlive
  BY DEF BusInv, HandlerInv, HandlersAlive
<1>4. QED
  BY <1>1, <1>2, <1>3, PTL DEF Spec

-----------------------------------------------------------------------------
(* The log.                                                                *)

\* How many messages the ring holds, and how far a slot is from the oldest:
\* the remainders of LogRing, taken apart at the wrap.
Held   == IF tail <= head THEN head - tail ELSE head + LogEntrys - tail
Age(s) == IF tail <= s THEN s - tail ELSE s + LogEntrys - tail

\* The ring holds the last messages logged, in order and without a gap; so what
\* lies between head and tail is newer than all that left the ring.
RingHolds ==
    /\ Held <= logged
    /\ \A s \in Slots : Age(s) < Held => buf[s] = logged - Held + 1 + Age(s)

\* What left the ring left it oldest first: the message in the log thread's hand
\* is newer than those sent, and all are older than what the ring holds.
LeftInOrder ==
    /\ hand <= logged - Held
    /\ dropped \subseteq 1 .. logged - Held
    /\ \A i \in DOMAIN sent : sent[i] <= logged - Held /\ (hand # 0 => sent[i] < hand)

\* The log thread has a message in its hand during an output only, and is there
\* once tcmu_setup_log has created it.
HandInOutput ==
    /\ tpc = "output" => hand # 0
    /\ tpc \notin {"output", "gone"} => hand = 0
    /\ mpc = "create" => tpc = "none"

LogInv ==
    /\ LogTypeOK /\ RingHolds /\ LeftInOrder /\ HandInOutput /\ SentInOrder
    /\ Len(sent) + (IF hand = 0 THEN 0 ELSE 1) + Held + Cardinality(dropped) = logged

\* The remainder taken by RING_SIZE arithmetic steps to the next slot and wraps
\* at the end.
LEMMA NextSlot ==
  ASSUME NEW i \in Slots
  PROVE  RbNext(i) = IF i = LogEntrys - 1 THEN 0 ELSE i + 1
BY LogAssumption DEF RbNext, Slots

\* Used is the number of messages held.
LEMMA UsedIsHeld ==
  ASSUME head \in Slots, tail \in Slots
  PROVE  Used = Held
BY LogAssumption DEF Used, Held, Slots

\* A full ring holds all slots but one.
LEMMA FullHolds ==
  ASSUME head \in Slots, tail \in Slots
  PROVE  /\ RbIsFull <=> Held = LogEntrys - 1
         /\ RbIsEmpty <=> Held = 0
         /\ Held \in 0 .. LogEntrys - 1
<1>1. (head + 1) % LogEntrys = IF head = LogEntrys - 1 THEN 0 ELSE head + 1
  BY NextSlot DEF RbNext
<1>2. QED
  BY <1>1, LogAssumption DEF RbIsFull, RbIsEmpty, Held, Slots

\* Messages that were dropped are finitely many, so they can be counted.
LEMMA DroppedFinite == LogTypeOK => IsFiniteSet(dropped) /\ Cardinality(dropped) \in Nat
<1> SUFFICES ASSUME LogTypeOK PROVE IsFiniteSet(dropped)
  BY FS_CardinalityType
<1>1. IsFiniteSet(1 .. MaxLogged)
  BY LogAssumption, FS_Interval
<1>2. QED
  BY <1>1, FS_Subset DEF LogTypeOK

\* The messages sent and in hand are numbers.
LEMMA SentType ==
  LogTypeOK => Len(sent) \in Nat /\ hand \in Int /\ \A i \in DOMAIN sent : sent[i] \in Int
<1> SUFFICES ASSUME LogTypeOK PROVE Len(sent) \in Nat /\ hand \in Int /\ \A i \in DOMAIN sent : sent[i] \in Int
  OBVIOUS
<1>1. sent \in Seq(1 .. MaxLogged) /\ hand \in 0 .. MaxLogged
  BY DEF LogTypeOK
<1>2. \A i \in DOMAIN sent : sent[i] \in 1 .. MaxLogged
  <2>1. ASSUME NEW S, NEW q \in Seq(S) PROVE \A i \in DOMAIN q : q[i] \in S
    BY <2>1
  <2>2. QED
    BY <1>1, <2>1
<1>3. QED
  BY <1>1, <1>2, LogAssumption

\* The invariant holds of the empty ring.
LEMMA LogInitInv == LogInit => LogInv
<1> SUFFICES ASSUME LogInit PROVE LogInv
  OBVIOUS
<1>1. LogTypeOK
  <2>1. 0 \in Slots /\ 0 \in 0 .. MaxLogged
    BY LogAssumption DEF Slots
  <2>2. buf \in [Slots -> 0 .. MaxLogged]
    BY <2>1 DEF LogInit
  <2>3. sent \in Seq(1 .. MaxLogged)
    BY DEF LogInit
  <2>4. QED
    BY <2>1, <2>2, <2>3 DEF LogInit, LogTypeOK
<1>2. Held = 0
  BY DEF LogInit, Held
<1>3. Cardinality(dropped) = 0
  BY FS_EmptySet DEF LogInit
<1>4. RingHolds
  BY <1>2, LogAssumption DEF LogInit, RingHolds, Age, Slots
<1>5. LeftInOrder /\ HandInOutput /\ SentInOrder
  BY <1>2 DEF LogInit, LeftInOrder, HandInOutput, SentInOrder
<1>6. QED
  BY <1>1, <1>2, <1>3, <1>4, <1>5 DEF LogInv, LogInit

\* Logging: the new message is the newest of the ring, and the one that gives
\* way in a full ring was the oldest.
LEMMA LogStep == LogInv /\ Log => LogInv'
<1> SUFFICES ASSUME LogInv, Log PROVE LogInv'
  OBVIOUS
<1>1. LogTypeOK /\ Cardinality(dropped) \in Nat /\ IsFiniteSet(dropped)
  BY DroppedFinite DEF LogInv
<1>2. head \in Slots /\ tail \in Slots /\ logged \in Nat /\ logged < MaxLogged /\ logged' = logged + 1
  BY <1>1, LogAssumption DEF LogTypeOK, Log
<1>3. /\ head' = IF head = LogEntrys - 1 THEN 0 ELSE head + 1
      /\ RbNext(tail) = IF tail = LogEntrys - 1 THEN 0 ELSE tail + 1
  BY <1>2, NextSlot DEF Log, RbUpdateHead
<1>4. Held \in 0 .. LogEntrys - 1 /\ (RbIsFull <=> Held = LogEntrys - 1)
  BY <1>2, FullHolds
<1>5. Age(head) = Held /\ Age(tail) = 0
  BY <1>2, LogAssumption DEF Age, Held, Slots
<1>6. /\ buf' = [buf EXCEPT ![head] = logged + 1] /\ UNCHANGED <<hand, sent, mpc, active, initialized>>
      /\ tpc' = tpc \/ (tpc = "wait" /\ tpc' = "woken")
  BY DEF Log
<1>7. buf \in [Slots -> 0 .. MaxLogged] /\ buf' \in [Slots -> 0 .. MaxLogged]
  BY <1>1, <1>2, <1>6, LogAssumption DEF LogTypeOK
<1>8. Len(sent) \in Nat /\ hand \in Int /\ \A i \in DOMAIN sent : sent[i] \in Int
  BY <1>1, SentType
<1>9. HandInOutput' /\ SentInOrder'
  BY <1>6 DEF Log, LogInv, HandInOutput, SentInOrder
<1>10. CASE ~RbIsFull
  <2>1. tail' = tail /\ dropped' = dropped
    BY <1>10 DEF Log, RbUpdateHead
  <2>2. Held' = Held + 1
    BY <1>2, <1>3, <1>4, <1>10, <2>1, LogAssumption DEF Held, Slots
  <2>3. LogTypeOK'
    BY <1>1, <1>2, <1>3, <1>6, <1>7, <2>1, LogAssumption DEF LogTypeOK, Slots
  <2>4. RingHolds'
    <3>1. Held' <= logged'
      BY <1>2, <1>4, <2>2 DEF LogInv, RingHolds
    <3>2. ASSUME NEW s \in Slots, Age(s)' < Held' PROVE buf'[s] = logged' - Held' + 1 + Age(s)'
      <4>1. Age(s)' = Age(s) /\ Age(s) \in Int
        BY <2>1, <1>2, LogAssumption DEF Age, Slots
      <4>2. CASE s = head
        BY <1>2, <1>4, <1>5, <1>6, <1>7, <2>2, <4>1, <4>2
      <4>3. CASE s # head
        <5>1. Age(s) # Held
          BY <1>2, <4>3, LogAssumption DEF Age, Held, Slots
        <5>2. Age(s) < Held
          BY <1>4, <2>2, <3>2, <4>1, <5>1
        <5>3. buf[s] = logged - Held + 1 + Age(s)
          BY <5>2 DEF LogInv, RingHolds
        <5>4. QED
          BY <1>2, <1>4, <1>6, <1>7, <2>2, <4>1, <4>3, <5>3
      <4>4. QED
        BY <4>2, <4>3
    <3>3. QED
      BY <3>1, <3>2 DEF RingHolds, Slots
  <2>5. LeftInOrder'
    <3>1. logged' - Held' = logged - Held
      BY <1>2, <1>4, <2>2
    <3>2. QED
      BY <1>6, <2>1, <3>1 DEF LogInv, LeftInOrder
  <2>6. Len(sent') + (IF hand' = 0 THEN 0 ELSE 1) + Held' + Cardinality(dropped') = logged'
    <3>1. Len(sent) + (IF hand = 0 THEN 0 ELSE 1) + Held + Cardinality(dropped) = logged
      BY DEF LogInv
    <3>2. Held \in Int
      BY <1>4, LogAssumption
    <3>3. CASE hand = 0
      <4>1. Len(sent) + 0 + Held + Cardinality(dropped) = logged
        BY <3>1, <3>3, Zenon
      <4>2. Len(sent) + 0 + (Held + 1) + Cardinality(dropped) = logged + 1
        BY <1>1, <1>8, <3>2, <4>1
      <4>3. QED
        BY <1>2, <1>6, <2>1, <2>2, <3>3, <4>2
    <3>4. CASE hand # 0
      <4>1. Len(sent) + 1 + Held + Cardinality(dropped) = logged
        BY <3>1, <3>4, Zenon
      <4>2. Len(sent) + 1 + (Held + 1) + Cardinality(dropped) = logged + 1
        BY <1>1, <1>8, <3>2, <4>1
      <4>3. QED
        BY <1>2, <1>6, <2>1, <2>2, <3>4, <4>2
    <3>5. QED
      BY <3>3, <3>4
  <2>7. QED
    BY <1>9, <2>3, <2>4, <2>5, <2>6 DEF LogInv
<1>11. CASE RbIsFull
  <2>1. tail' = (IF tail = LogEntrys - 1 THEN 0 ELSE tail + 1) /\ dropped' = dropped \cup {buf[tail]}
    BY <1>3, <1>11 DEF Log, RbUpdateHead
  <2>2. Held = LogEntrys - 1
    BY <1>4, <1>11
  <2>3. Held' = Held
    BY <1>2, <1>3, <2>1, <2>2, LogAssumption DEF Held, Slots
  <2>4. buf[tail] = logged - Held + 1 /\ logged - Held \in Nat
    BY <1>2, <1>4, <1>5, <2>2, LogAssumption DEF LogInv, RingHolds
  <2>5. LogTypeOK'
    <3>1. buf[tail] \in 1 .. MaxLogged
      BY <1>2, <1>4, <2>2, <2>4, LogAssumption
    <3>2. dropped' \subseteq 1 .. MaxLogged
      BY <1>1, <2>1, <3>1 DEF LogTypeOK
    <3>3. head' \in Slots /\ tail' \in Slots /\ logged' \in 0 .. MaxLogged
      BY <1>2, <1>3, <2>1, LogAssumption DEF Slots
    <3>4. QED
      BY <1>1, <1>6, <1>7, <3>2, <3>3 DEF LogTypeOK
  <2>6. RingHolds'
    <3>1. Held' <= logged'
      BY <1>2, <1>4, <2>3 DEF LogInv, RingHolds
    <3>2. ASSUME NEW s \in Slots, Age(s)' < Held' PROVE buf'[s] = logged' - Held' + 1 + Age(s)'
      <4>1. CASE s = head
        <5>1. Age(s)' = Held - 1
          BY <1>2, <2>1, <2>2, <4>1, LogAssumption DEF Age, Held, Slots
        <5>2. QED
          BY <1>2, <1>4, <1>6, <1>7, <2>3, <4>1, <5>1
      <4>2. CASE s # head
        <5>1. s # tail
          BY <1>2, <2>1, <2>2, <2>3, <3>2, LogAssumption DEF Age, Slots
        <5>2. Age(s)' = Age(s) - 1 /\ Age(s) \in Int
          BY <1>2, <2>1, <5>1, LogAssumption DEF Age, Slots
        <5>3. Age(s) # Held
          BY <1>2, <4>2, LogAssumption DEF Age, Held, Slots
        <5>4. Age(s) < Held
          BY <1>4, <2>3, <3>2, <5>2, <5>3
        <5>5. buf[s] = logged - Held + 1 + Age(s)
          BY <5>4 DEF LogInv, RingHolds
        <5>6. QED
          BY <1>2, <1>4, <1>6, <1>7, <2>3, <4>2, <5>2, <5>5
      <4>3. QED
        BY <4>1, <4>2
    <3>3. QED
      BY <3>1, <3>2 DEF RingHolds, Slots
  <2>7. LeftInOrder'
    <3>1. logged' - Held' = logged - Held + 1
      BY <1>2, <1>4, <2>3
    <3>2. ASSUME NEW m \in dropped' PROVE m \in 1 .. logged - Held + 1
      <4>1. CASE m = buf[tail]
        BY <2>4, <4>1
      <4>2. CASE m \in dropped
        <5>1. m \in 1 .. logged - Held
          BY <4>2 DEF LogInv, LeftInOrder
        <5>2. QED
          BY <2>4, <5>1
      <4>3. QED
        BY <2>1, <3>2, <4>1, <4>2
    <3>3. dropped' \subseteq 1 .. logged' - Held'
      BY <3>1, <3>2
    <3>4. QED
      BY <1>6, <1>8, <2>4, <3>1, <3>3 DEF LogInv, LeftInOrder
  <2>8. Cardinality(dropped') = Cardinality(dropped) + 1
    <3>1. buf[tail] \notin dropped
      BY <2>4 DEF LogInv, LeftInOrder
    <3>2. QED
      BY <1>1, <2>1, <3>1, FS_AddElement
  <2>9. Len(sent') + (IF hand' = 0 THEN 0 ELSE 1) + Held' + Cardinality(dropped') = logged'
    BY <1>1, <1>2, <1>4, <1>6, <1>8, <2>3, <2>8 DEF LogInv
  <2>10. QED
    BY <1>9, <2>5, <2>6, <2>7, <2>9 DEF LogInv
<1>12. QED
  BY <1>10, <1>11

\* The log thread copies the oldest message out and frees its slot.
LEMMA LogTakeStep == LogInv /\ DrainTake => LogInv'
<1> SUFFICES ASSUME LogInv, DrainTake PROVE LogInv'
  OBVIOUS
<1>1. LogTypeOK /\ Cardinality(dropped) \in Nat
  BY DroppedFinite DEF LogInv
<1>2. head \in Slots /\ tail \in Slots /\ logged \in Nat /\ buf \in [Slots -> 0 .. MaxLogged]
  BY <1>1, LogAssumption DEF LogTypeOK
<1>3. /\ tail' = IF tail = LogEntrys - 1 THEN 0 ELSE tail + 1
      /\ hand' = buf[tail] /\ tpc = "drain" /\ tpc' = "output" /\ tail # head
      /\ UNCHANGED <<buf, head, active, initialized, mpc, logged, sent, dropped>>
  BY <1>2, NextSlot DEF DrainTake, RbIsEmpty, histVars
<1>4. Held \in 0 .. LogEntrys - 1 /\ Held' = Held - 1 /\ Held > 0 /\ Age(tail) = 0
  BY <1>2, <1>3, LogAssumption DEF Held, Age, Slots
<1>5. hand = 0
  BY <1>3 DEF LogInv, HandInOutput
<1>6. buf[tail] = logged - Held + 1 /\ Held <= logged
  BY <1>2, <1>4 DEF LogInv, RingHolds
<1>7. hand' \in 1 .. MaxLogged /\ hand' = logged - Held + 1
  BY <1>1, <1>2, <1>3, <1>4, <1>6 DEF LogTypeOK
<1>8. LogTypeOK'
  BY <1>1, <1>2, <1>3, <1>7, LogAssumption DEF LogTypeOK, Slots
<1>9. RingHolds'
  <2>1. Held' <= logged'
    BY <1>2, <1>3, <1>4, <1>6
  <2>2. ASSUME NEW s \in Slots, Age(s)' < Held' PROVE buf'[s] = logged' - Held' + 1 + Age(s)'
    <3>1. s # tail
      BY <1>2, <1>3, <1>4, <2>2, LogAssumption DEF Age, Slots
    <3>2. Age(s)' = Age(s) - 1 /\ Age(s) \in Int
      BY <1>2, <1>3, <3>1, LogAssumption DEF Age, Slots
    <3>3. Age(s) < Held
      BY <1>4, <2>2, <3>2
    <3>4. buf[s] = logged - Held + 1 + Age(s)
      BY <3>3 DEF LogInv, RingHolds
    <3>5. QED
      BY <1>2, <1>3, <1>4, <3>2, <3>4
  <2>3. QED
    BY <2>1, <2>2 DEF RingHolds, Slots
<1>10. LeftInOrder'
  <2>1. logged' - Held' = logged - Held + 1 /\ logged - Held \in Nat
    BY <1>2, <1>3, <1>4, <1>6
  <2>2. \A i \in DOMAIN sent : sent[i] \in Int
    BY <1>1, SentType
  <2>3. QED
    BY <1>3, <1>7, <2>1, <2>2 DEF LogInv, LeftInOrder
<1>11. HandInOutput' /\ SentInOrder'
  BY <1>3, <1>7 DEF LogInv, HandInOutput, SentInOrder
<1>12. Len(sent') + (IF hand' = 0 THEN 0 ELSE 1) + Held' + Cardinality(dropped') = logged'
  BY <1>1, <1>2, <1>3, <1>4, <1>5, <1>7, SentType DEF LogInv
<1>13. QED
  BY <1>8, <1>9, <1>10, <1>11, <1>12 DEF LogInv

\* syslog is given the message in hand, which is newer than all before it.
LEMMA OutputStep == LogInv /\ DrainOutput => LogInv'
<1> SUFFICES ASSUME LogInv, DrainOutput PROVE LogInv'
  OBVIOUS
<1>1. LogTypeOK /\ Cardinality(dropped) \in Nat
  BY DroppedFinite DEF LogInv
<1>2. /\ sent' = Append(sent, hand) /\ hand' = 0 /\ tpc = "output" /\ tpc' = "drain"
      /\ UNCHANGED <<buf, head, tail, active, initialized, mpc, logged, dropped>>
  BY DEF DrainOutput, ringVars
<1>3. hand \in 1 .. MaxLogged /\ sent \in Seq(1 .. MaxLogged)
  BY <1>1, <1>2, LogAssumption DEF LogInv, HandInOutput, LogTypeOK
<1>4. /\ sent' \in Seq(1 .. MaxLogged) /\ Len(sent') = Len(sent) + 1 /\ Len(sent) \in Nat
      /\ \A i \in 1 .. Len(sent) : sent'[i] = sent[i]
      /\ sent'[Len(sent) + 1] = hand
      /\ DOMAIN sent' = 1 .. Len(sent) + 1 /\ DOMAIN sent = 1 .. Len(sent)
  BY <1>2, <1>3
<1>5. Held' = Held /\ Held \in Int /\ logged \in Int
  BY <1>1, <1>2, LogAssumption DEF Held, LogTypeOK, Slots
<1>6. LogTypeOK'
  BY <1>1, <1>2, <1>4, LogAssumption DEF LogTypeOK
<1>7. RingHolds'
  BY <1>2, <1>5 DEF LogInv, RingHolds, Age
<1>8. \A i \in 1 .. Len(sent) : sent[i] \in Int /\ sent[i] < hand
  BY <1>1, <1>3, <1>4, SentType DEF LogInv, LeftInOrder
<1>9. LeftInOrder'
  BY <1>2, <1>3, <1>4, <1>5 DEF LogInv, LeftInOrder
<1>10. SentInOrder'
  <2> SUFFICES ASSUME NEW i \in DOMAIN sent', NEW j \in DOMAIN sent', i < j PROVE sent'[i] < sent'[j]
    BY DEF SentInOrder
  <2>1. CASE j = Len(sent) + 1
    BY <1>4, <1>8, <2>1
  <2>2. CASE j # Len(sent) + 1
    BY <1>4, <2>2 DEF LogInv, SentInOrder
  <2>3. QED
    BY <2>1, <2>2
<1>11. HandInOutput'
  BY <1>2 DEF LogInv, HandInOutput
<1>12. Len(sent') + (IF hand' = 0 THEN 0 ELSE 1) + Held' + Cardinality(dropped') = logged'
  BY <1>1, <1>2, <1>3, <1>4, <1>5 DEF LogInv
<1>13. QED
  BY <1>6, <1>7, <1>9, <1>10, <1>11, <1>12 DEF LogInv

\* The other steps move neither the ring nor what left it.
LEMMA OtherStep ==
  ASSUME LogInv, UNCHANGED <<buf, head, tail, hand, logged, sent, dropped>>, LogTypeOK',
         tpc' \in {tpc, "gone"} \/ (tpc \notin {"output", "gone"} /\ tpc' # "output"),
         mpc' = "create" => mpc = "create" /\ tpc' = tpc
  PROVE  LogInv'
<1>1. Held' = Held /\ \A s \in Slots : Age(s)' = Age(s)
  BY DEF Held, Age
<1>2. RingHolds' /\ LeftInOrder' /\ SentInOrder' /\ HandInOutput'
  BY <1>1 DEF LogInv, RingHolds, LeftInOrder, SentInOrder, HandInOutput
<1>3. QED
  BY <1>1, <1>2 DEF LogInv

\* LogInv is inductive.
LEMMA LogInvStep == LogInv /\ [LogNext]_logVars => LogInv'
<1> SUFFICES ASSUME LogInv, [LogNext]_logVars PROVE LogInv'
  OBVIOUS
<1>1. LogTypeOK
  BY DEF LogInv
<1>2. CASE Log
  BY <1>2, LogStep
<1>3. CASE ThreadStart
  <2>1. LogTypeOK'
    BY <1>1, <1>3 DEF ThreadStart, ringVars, histVars, LogTypeOK
  <2>2. QED
    BY <1>3, <2>1, OtherStep DEF ThreadStart, ringVars, histVars, LogInv, HandInOutput
<1>4. CASE ThreadWait
  <2>1. LogTypeOK'
    BY <1>1, <1>4 DEF ThreadWait, ringVars, histVars, LogTypeOK
  <2>2. QED
    BY <1>4, <2>1, OtherStep DEF ThreadWait, ringVars, histVars, LogInv, HandInOutput
<1>5. CASE ThreadWoken
  <2>1. LogTypeOK'
    BY <1>1, <1>5 DEF ThreadWoken, ringVars, histVars, LogTypeOK
  <2>2. QED
    BY <1>5, <2>1, OtherStep DEF ThreadWoken, ringVars, histVars, LogInv, HandInOutput
<1>6. CASE DrainEmpty
  <2>1. LogTypeOK'
    BY <1>1, <1>6 DEF DrainEmpty, ringVars, histVars, LogTypeOK
  <2>2. QED
    BY <1>6, <2>1, OtherStep DEF DrainEmpty, ringVars, histVars, LogInv, HandInOutput
<1>7. CASE DrainTake
  BY <1>7, LogTakeStep
<1>8. CASE DrainOutput
  BY <1>8, OutputStep
<1>9. CASE ThreadSpurious
  <2>1. LogTypeOK'
    BY <1>1, <1>9 DEF ThreadSpurious, ringVars, histVars, LogTypeOK
  <2>2. QED
    BY <1>9, <2>1, OtherStep DEF ThreadSpurious, ringVars, histVars, LogInv, HandInOutput
<1>10. CASE SetupCreate
  <2>1. LogTypeOK'
    BY <1>1, <1>10 DEF SetupCreate, ringVars, histVars, LogTypeOK
  <2>2. tpc = "none" /\ tpc' \in {"none", "start"} /\ mpc' # "create"
    BY <1>10 DEF SetupCreate, LogInv, HandInOutput
  <2>3. QED
    BY <1>10, <2>1, <2>2, OtherStep DEF SetupCreate, ringVars, histVars
<1>11. CASE SetupTest
  <2>1. LogTypeOK'
    BY <1>1, <1>11 DEF SetupTest, ringVars, histVars, LogTypeOK
  <2>2. QED
    BY <1>11, <2>1, OtherStep DEF SetupTest, ringVars, histVars
<1>12. CASE Destroy
  <2>1. LogTypeOK'
    BY <1>1, <1>12 DEF Destroy, ringVars, histVars, LogTypeOK
  <2>2. QED
    BY <1>12, <2>1, OtherStep DEF Destroy, ringVars, histVars, LogInv, HandInOutput
<1>13. CASE UNCHANGED logVars
  <2>1. LogTypeOK'
    BY <1>1, <1>13 DEF logVars, LogTypeOK
  <2>2. QED
    BY <1>13, <2>1, OtherStep DEF logVars
<1>14. QED
  BY <1>2, <1>3, <1>4, <1>5, <1>6, <1>7, <1>8, <1>9, <1>10, <1>11, <1>12, <1>13
  DEF LogNext, ThreadStep, Quiet

\* The log is faithful, whatever the size of the ring and however the loggers,
\* the log thread and the end of the daemon interleave: every message is sent,
\* in hand, in the ring or was dropped from a full ring, and syslog gets them in
\* the order of logging.
THEOREM LogIsFaithful == LogSpec => []LogFaithful
<1>1. LogInv => LogFaithful
  <2> SUFFICES ASSUME LogInv PROVE LogFaithful
    OBVIOUS
  <2>1. Used = Held
    BY UsedIsHeld DEF LogInv, LogTypeOK
  <2>2. QED
    BY <2>1 DEF LogInv, LogFaithful, EveryMessageAccounted
<1>2. QED
  BY <1>1, LogInitInv, LogInvStep, PTL DEF LogSpec

=============================================================================
