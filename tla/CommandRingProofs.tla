-------------------------- MODULE CommandRingProofs --------------------------
(***************************************************************************)
(* The command ring keeps its promises for a ring of any size, entries of  *)
(* any length and any number of commands: it stays consistent, and it      *)
(* implements CommandService.                                              *)
(***************************************************************************)
EXTENDS CommandRing, FiniteSetTheorems, WellFoundedInduction, TLAPS

\* What the results rest on.  Without the kernel's reset_ring, a daemon that
\* died leaves entries behind whose commands were answered through other
\* entries; the next daemon would fetch them again.
Resettable == ActionSupported \/ "crash" \notin Faults

\* Dist without the remainder, for offsets, and the place of an offset seen
\* from what the kernel has read.
Ahead(a, b) == IF a <= b THEN b - a ELSE b + Size - a
At(o) == Ahead(cleaned, o)

Starts == {o \in Offsets : ring[o].op # "NONE"}
IsCmd(o) == ring[o].op = "CMD"

\* The entries between cleaned and head lie end to end, and every offset the
\* kernel and libtcmu keep is at the start of one, or at head.
Chained ==
    /\ \A o \in Starts :
         /\ At(o) + ring[o].len <= At(head)
         /\ Advance(o) \in Starts \cup {head}
         /\ \A p \in Starts : At(o) < At(p) => At(o) + ring[o].len <= At(p)
    /\ cleaned \in Starts \cup {head}
    /\ tail \in Starts \cup {head}
    /\ devTail \in Starts \cup {head}

InOrder == At(tail) <= At(devTail) /\ At(devTail) <= At(head)

\* The three kinds of command entry: answered, fetched and not answered yet (it
\* may hold a command that was answered elsewhere), and not fetched.
AnsweredEntry(o) == o \in Offsets /\ IsCmd(o) /\ At(o) < At(tail)
OpenEntry(o)     == o \in Offsets /\ IsCmd(o) /\ At(tail) <= At(o) /\ At(o) < At(devTail)
NewEntry(o)      == o \in Offsets /\ IsCmd(o) /\ At(devTail) <= At(o)

EntriesMean ==
    /\ \A o \in Offsets : IsCmd(o) => ring[o].id \in Ids
    /\ \A o \in Offsets : AnsweredEntry(o) =>
         /\ ring[o].rsp \in Answers /\ ring[o].rsp = verdict[ring[o].id]
         /\ kst[ring[o].id] # "free"
    /\ \A o \in Offsets : OpenEntry(o) => ring[o].rsp = Undecided
    /\ \A o \in Offsets : NewEntry(o) =>
         /\ ring[o].rsp = Undecided /\ verdict[ring[o].id] = Undecided
         /\ kst[ring[o].id] # "free" /\ ring[o].id \notin taken

\* A command is on the ring once, apart from what open entries still show.
OncePerCommand ==
    \A o, p \in Offsets :
      /\ AnsweredEntry(o) \/ NewEntry(o)
      /\ AnsweredEntry(p) \/ NewEntry(p)
      /\ ring[o].id = ring[p].id
      => o = p

HandlersHold ==
    /\ \A i \in Ids : kst[i] = "free" => verdict[i] = Undecided
    /\ \A i \in taken : kst[i] # "free" /\ verdict[i] = Undecided
    /\ daemon = "down" => taken = {} /\ (~ActionSupported => devTail = tail)

\* There is an open entry for every command the handlers hold, and for every
\* command that was dropped.
Lost == {i \in Ids : /\ kst[i] # "free" /\ i \notin taken
                     /\ \A o \in Offsets : AnsweredEntry(o) \/ NewEntry(o) => ring[o].id # i}
OpenEntries == {o \in Offsets : OpenEntry(o)}
Balanced ==
    daemon # "down" \/ ~ActionSupported =>
      Cardinality(OpenEntries) = Cardinality(taken) + Cardinality(Lost)

RingInv ==
    /\ TypeOK /\ ~broken /\ Chained /\ InOrder /\ EntriesMean /\ OncePerCommand
    /\ HandlersHold /\ Balanced

-----------------------------------------------------------------------------
(* Offsets.                                                                *)

\* The remainder of a sum of offsets.
LEMMA RemainderSmall ==
  ASSUME NEW x \in Nat, x < 3 * Size
  PROVE  x % Size = IF x < Size THEN x ELSE IF x < 2 * Size THEN x - Size ELSE x - 2 * Size
BY RingAssumption

\* The remainder of a number below twice the size of the ring.
LEMMA RemainderOnce ==
  ASSUME NEW x \in Nat, x < 2 * Size
  PROVE  x % Size = IF x < Size THEN x ELSE x - Size
BY RingAssumption

\* The distance the code takes with a remainder.
LEMMA DistIsAhead ==
  ASSUME NEW a \in Offsets, NEW b \in Offsets
  PROVE  Dist(a, b) = Ahead(a, b)
BY RingAssumption, RemainderSmall DEF Dist, Ahead, Offsets

\* Places are numbers below Size, one for each offset.
LEMMA AheadRange ==
  ASSUME NEW a \in Offsets
  PROVE  /\ \A b \in Offsets : Ahead(a, b) \in Nat /\ Ahead(a, b) < Size
         /\ \A b, c \in Offsets : Ahead(a, b) = Ahead(a, c) => b = c
         /\ Ahead(a, a) = 0
BY RingAssumption DEF Ahead, Offsets

\* A step of n units forward adds n to the place of an offset.
LEMMA StepForward ==
  ASSUME NEW a \in Offsets, NEW b \in Offsets, NEW n \in Nat, Ahead(a, b) + n < Size
  PROVE  /\ (b + n) % Size \in Offsets
         /\ Ahead(a, (b + n) % Size) = Ahead(a, b) + n
<1> DEFINE x == b + n
<1>1. x \in Nat /\ x < 2 * Size
  BY RingAssumption DEF Ahead, Offsets
<1>2. x % Size = IF x < Size THEN x ELSE x - Size
  <2> HIDE DEF x
  <2> QED BY <1>1, RemainderOnce
<1>3. QED
  BY <1>1, <1>2, RingAssumption DEF Ahead, Offsets

\* When the base moves n units forward, what was at least n ahead comes closer
\* and the rest is now behind, at the far end of the ring.
LEMMA BaseForward ==
  ASSUME NEW a \in Offsets, NEW n \in Nat, n < Size, NEW b \in Offsets
  PROVE  /\ (a + n) % Size \in Offsets
         /\ Ahead((a + n) % Size, b) = IF n <= Ahead(a, b) THEN Ahead(a, b) - n
                                       ELSE Ahead(a, b) + Size - n
<1> DEFINE x == a + n
<1>1. x \in Nat /\ x < 2 * Size
  BY RingAssumption DEF Offsets
<1>2. x % Size = IF x < Size THEN x ELSE x - Size
  <2> HIDE DEF x
  <2> QED BY <1>1, RemainderOnce
<1>3. QED
  BY <1>1, <1>2, RingAssumption DEF Ahead, Offsets

\* The room the kernel finds: one unit stays free.
LEMMA RoomLeft ==
  ASSUME NEW a \in Offsets, NEW b \in Offsets
  PROVE  Dist(b, a + Size - 1) = Size - 1 - Ahead(a, b)
BY RingAssumption, RemainderSmall DEF Dist, Ahead, Offsets

\* A set of numbers that is not empty has a least one.
LEMMA LeastNumber ==
  ASSUME NEW S, S \subseteq Nat, S # {}
  PROVE  \E m \in S : \A n \in S : m <= n
<1>1. PICK m \in S : \A n \in S : ~ (<<n, m>> \in OpToRel(<, Nat))
  BY NatLessThanWellFounded, WFMin
<1>2. \A n \in S : ~ (n < m)
  BY <1>1 DEF OpToRel
<1>3. QED
  BY <1>2

\* The first offset of a set, counted from a.
LEMMA FirstOffset ==
  ASSUME NEW a \in Offsets, NEW S, S \subseteq Offsets, S # {}
  PROVE  \E o \in S : \A p \in S : Ahead(a, o) <= Ahead(a, p)
<1> DEFINE N == {Ahead(a, o) : o \in S}
<1>1. N \subseteq Nat /\ N # {}
  BY AheadRange
<1>2. PICK m \in N : \A n \in N : m <= n
  BY <1>1, LeastNumber
<1>3. QED
  BY <1>2

-----------------------------------------------------------------------------
(* What the invariant says of a single state.                              *)

\* The types of the offsets, of an entry's fields and of places.
LEMMA Places ==
  ASSUME TypeOK
  PROVE  /\ cleaned \in Offsets /\ head \in Offsets /\ tail \in Offsets /\ devTail \in Offsets
         /\ \A o \in Offsets : At(o) \in Nat /\ At(o) < Size
         /\ \A o, p \in Offsets : At(o) = At(p) => o = p
         /\ At(cleaned) = 0
         /\ \A o \in Offsets : ring[o].len \in Nat /\ ring[o].len >= 1
         /\ Starts \subseteq Offsets
<1>1. cleaned \in Offsets /\ head \in Offsets /\ tail \in Offsets /\ devTail \in Offsets
  BY DEF TypeOK
<1>2. \A o \in Offsets : ring[o].len \in 1 .. Size
  BY DEF TypeOK
<1>3. \A o \in Offsets : ring[o].len \in Nat /\ ring[o].len >= 1
  BY <1>2, RingAssumption
<1>4. QED
  BY <1>1, <1>3, AheadRange DEF At, Starts

\* The entry after a start is its length further on.
LEMMA NextEntry ==
  ASSUME TypeOK, Chained, NEW o \in Starts
  PROVE  /\ Advance(o) \in Offsets
         /\ At(Advance(o)) = At(o) + ring[o].len
<1>1. o \in Offsets /\ ring[o].len \in Nat /\ At(o) + ring[o].len <= At(head)
  BY Places DEF Chained
<1>2. At(head) < Size /\ At(head) \in Nat /\ At(o) \in Nat
  BY <1>1, Places
<1>3. At(o) + ring[o].len < Size
  BY <1>1, <1>2, RingAssumption
<1>4. QED
  BY <1>1, <1>3, Places, StepForward DEF At, Advance

\* Everything that is counted is finite.
LEMMA FiniteParts ==
  ASSUME TypeOK
  PROVE  /\ IsFiniteSet(OpenEntries) /\ IsFiniteSet(taken) /\ IsFiniteSet(Lost)
         /\ Cardinality(OpenEntries) \in Nat /\ Cardinality(taken) \in Nat /\ Cardinality(Lost) \in Nat
<1>1. IsFiniteSet(Offsets)
  BY RingAssumption, FS_Interval DEF Offsets
<1>2. IsFiniteSet(OpenEntries)
  BY <1>1, FS_Subset DEF OpenEntries
<1>3. IsFiniteSet(taken) /\ IsFiniteSet(Lost)
  BY RingAssumption, FS_Subset DEF TypeOK, Lost
<1>4. QED
  BY <1>2, <1>3, FS_CardinalityType

\* A command entry starts at its offset, and is of one of the three kinds.
LEMMA CmdIsStart ==
  ASSUME NEW o \in Offsets, IsCmd(o)
  PROVE  o \in Starts
BY DEF IsCmd, Starts

\* Outcomes differ from the answer not given.
LEMMA OutcomeDecided == Undecided \notin Answers
BY DEF Undecided, Answers, Own, Outcome, StsToScsi

-----------------------------------------------------------------------------
(* tcmulib_get_next_command.                                               *)

\* Stepping over an entry moves it from the new to the open ones.
LEMMA GetEffect ==
  ASSUME RingInv, GetNextCommand
  PROVE  /\ devTail \in Starts /\ devTail \in Offsets /\ devTail' \in Offsets
         /\ devTail' \in Starts \cup {head}
         /\ UNCHANGED <<ring, head, tail, cleaned, kst, reply, verdict, broken, daemon, blocked>>
         /\ daemon # "down"
         /\ \A o \in Offsets : /\ At(o)' = At(o)
                               /\ AnsweredEntry(o)' <=> AnsweredEntry(o)
                               /\ NewEntry(o)' <=> NewEntry(o) /\ o # devTail
                               /\ OpenEntry(o)' <=> OpenEntry(o) \/ (IsCmd(o) /\ o = devTail)
         /\ At(tail) <= At(devTail') /\ At(devTail') <= At(head)
         /\ taken' = IF IsCmd(devTail) /\ ~ring[devTail].bad
                     THEN taken \cup {ring[devTail].id} ELSE taken
<1> USE DEF RingInv
<1>1. /\ devTail # head /\ devTail' = Advance(devTail) /\ daemon # "down"
      /\ UNCHANGED <<ring, head, tail, cleaned, kst, reply, verdict, broken, daemon, blocked>>
      /\ taken' = IF IsCmd(devTail) /\ ~ring[devTail].bad
                  THEN taken \cup {ring[devTail].id} ELSE taken
  BY DEF GetNextCommand, kernVars, IsCmd
<1>2. devTail \in Starts
  BY <1>1 DEF Chained
<1>3. devTail' \in Offsets /\ At(devTail') = At(devTail) + ring[devTail].len
  BY <1>1, <1>2, NextEntry
<1>4. devTail' \in Starts \cup {head} /\ At(devTail) + ring[devTail].len <= At(head)
  BY <1>1, <1>2 DEF Chained
<1>5. \A o \in Offsets : At(o)' = At(o)
  BY <1>1 DEF At
<1>6. /\ devTail \in Offsets /\ ring[devTail].len \in Nat /\ ring[devTail].len >= 1
      /\ At(devTail) \in Nat /\ At(tail) \in Nat /\ At(head) \in Nat /\ tail \in Offsets /\ head \in Offsets
  BY Places
<1>7. ASSUME NEW o \in Offsets, IsCmd(o)
      PROVE  At(devTail') <= At(o) <=> At(devTail) <= At(o) /\ o # devTail
  <2>1. o \in Starts /\ At(o) \in Nat
    BY <1>7, CmdIsStart, Places
  <2>2. At(devTail) < At(o) => At(devTail') <= At(o)
    BY <1>2, <1>3, <2>1 DEF Chained
  <2>3. At(devTail) = At(o) => devTail = o
    BY <1>6, Places
  <2>4. QED
    BY <1>3, <1>6, <2>1, <2>2, <2>3
<1>8. ASSUME NEW o \in Offsets
      PROVE  /\ AnsweredEntry(o)' <=> AnsweredEntry(o)
             /\ NewEntry(o)' <=> NewEntry(o) /\ o # devTail
             /\ OpenEntry(o)' <=> OpenEntry(o) \/ (IsCmd(o) /\ o = devTail)
  <2>1. At(o)' = At(o) /\ At(tail)' = At(tail) /\ At(devTail)' = At(devTail') /\ (IsCmd(o)' <=> IsCmd(o))
    BY <1>1, <1>5, <1>6 DEF At, IsCmd
  <2>2. AnsweredEntry(o)' <=> AnsweredEntry(o)
    BY <2>1 DEF AnsweredEntry
  <2>3. NewEntry(o)' <=> NewEntry(o) /\ o # devTail
    BY <1>7, <2>1 DEF NewEntry
  <2>4. At(o) \in Nat /\ At(devTail') \in Nat
    BY <1>3, <1>6, Places
  <2>5. OpenEntry(o)' <=> OpenEntry(o) \/ (IsCmd(o) /\ o = devTail)
    BY <1>6, <1>7, <2>1, <2>4 DEF OpenEntry, InOrder
  <2>6. QED
    BY <2>2, <2>3, <2>5
<1>9. At(tail) <= At(devTail') /\ At(devTail') <= At(head)
  BY <1>3, <1>4, <1>6 DEF InOrder
<1>10. QED
  BY <1>1, <1>2, <1>3, <1>4, <1>5, <1>6, <1>8, <1>9

\* tcmulib_get_next_command keeps the invariant.
LEMMA GetStep == RingInv /\ GetNextCommand => RingInv'
<1> SUFFICES ASSUME RingInv, GetNextCommand PROVE RingInv'
  OBVIOUS
<1> DEFINE d == devTail
           id == ring[d].id
<1>1. /\ d \in Starts /\ d \in Offsets /\ devTail' \in Offsets /\ devTail' \in Starts \cup {head}
      /\ UNCHANGED <<ring, head, tail, cleaned, kst, reply, verdict, broken, daemon, blocked>>
      /\ daemon # "down"
      /\ taken' = IF IsCmd(d) /\ ~ring[d].bad THEN taken \cup {id} ELSE taken
  BY GetEffect
<1>2. \A o \in Offsets : /\ At(o)' = At(o)
                         /\ AnsweredEntry(o)' <=> AnsweredEntry(o)
                         /\ NewEntry(o)' <=> NewEntry(o) /\ o # d
                         /\ OpenEntry(o)' <=> OpenEntry(o) \/ (IsCmd(o) /\ o = d)
  BY GetEffect
<1>3. /\ TypeOK /\ Chained /\ InOrder /\ EntriesMean /\ OncePerCommand /\ HandlersHold /\ Balanced
      /\ ~broken
  BY DEF RingInv
<1>4. /\ cleaned \in Offsets /\ head \in Offsets /\ tail \in Offsets /\ At(d) \in Nat /\ At(tail) \in Nat
      /\ Starts \subseteq Offsets
  BY <1>1, <1>3, Places
<1>5. IsCmd(d) => NewEntry(d) /\ ~AnsweredEntry(d) /\ ~OpenEntry(d) /\ id \in Ids
  BY <1>1, <1>3, <1>4 DEF NewEntry, AnsweredEntry, OpenEntry, EntriesMean, InOrder
<1>6. IsCmd(d) => /\ ring[d].rsp = Undecided /\ verdict[id] = Undecided /\ kst[id] # "free" /\ id \notin taken
  BY <1>1, <1>3, <1>5 DEF EntriesMean
<1>7. TypeOK'
  <2>1. taken' \subseteq Ids
    BY <1>1, <1>3, <1>5 DEF TypeOK
  <2>2. QED
    BY <1>1, <1>3, <2>1 DEF TypeOK
<1>8. Chained'
  <2>1. Starts' = Starts /\ \A o \in Offsets : Advance(o)' = Advance(o)
    BY <1>1 DEF Starts, Advance
  <2>2. At(head)' = At(head)
    BY <1>1, <1>2, <1>4
  <2>3. QED
    BY <1>1, <1>2, <1>3, <1>4, <2>1, <2>2 DEF Chained
<1>9. InOrder'
  <2>1. At(head)' = At(head) /\ At(tail)' = At(tail) /\ At(devTail)' = At(devTail')
    BY <1>1, <1>4 DEF At
  <2>2. QED
    BY <2>1, GetEffect DEF InOrder
<1>10. \A o \in Offsets : NewEntry(o) /\ o # d /\ IsCmd(d) => ring[o].id # id
  BY <1>1, <1>3, <1>5 DEF OncePerCommand
<1>11. EntriesMean'
  <2>1. \A o \in Offsets : IsCmd(o)' <=> IsCmd(o)
    BY <1>1 DEF IsCmd
  <2>2. \A o \in Offsets : AnsweredEntry(o)' =>
           /\ ring'[o].rsp \in Answers /\ ring'[o].rsp = verdict'[ring'[o].id]
           /\ kst'[ring'[o].id] # "free"
    BY <1>1, <1>2, <1>3 DEF EntriesMean
  <2>3. \A o \in Offsets : OpenEntry(o)' => ring'[o].rsp = Undecided
    BY <1>1, <1>2, <1>3, <1>6 DEF EntriesMean
  <2>4. \A o \in Offsets : NewEntry(o)' =>
           /\ ring'[o].rsp = Undecided /\ verdict'[ring'[o].id] = Undecided
           /\ kst'[ring'[o].id] # "free" /\ ring'[o].id \notin taken'
    BY <1>1, <1>2, <1>3, <1>10 DEF EntriesMean
  <2>5. QED
    BY <1>1, <1>3, <2>1, <2>2, <2>3, <2>4 DEF EntriesMean
<1>12. OncePerCommand'
  BY <1>1, <1>2, <1>3 DEF OncePerCommand
<1>13. HandlersHold'
  BY <1>1, <1>3, <1>6 DEF HandlersHold
<1>14. Balanced'
  <2>1. /\ IsFiniteSet(OpenEntries) /\ IsFiniteSet(taken) /\ IsFiniteSet(Lost)
        /\ Cardinality(OpenEntries) \in Nat /\ Cardinality(taken) \in Nat /\ Cardinality(Lost) \in Nat
    BY <1>3, FiniteParts
  <2>2. Cardinality(OpenEntries) = Cardinality(taken) + Cardinality(Lost)
    BY <1>1, <1>3 DEF Balanced
  <2>3. CASE ~IsCmd(d)
    <3>1. ~NewEntry(d)
      BY <2>3 DEF NewEntry
    <3>2. OpenEntries' = OpenEntries
      BY <1>2, <2>3 DEF OpenEntries
    <3>3. taken' = taken
      BY <1>1, <2>3
    <3>4. Lost' = Lost
      BY <1>1, <1>2, <3>1, <3>3 DEF Lost
    <3>5. QED
      BY <2>2, <3>2, <3>3, <3>4 DEF Balanced
  <2>4. CASE IsCmd(d)
    <3>1. OpenEntries' = OpenEntries \cup {d} /\ d \notin OpenEntries
      BY <1>1, <1>2, <1>5, <2>4 DEF OpenEntries
    <3>2. Cardinality(OpenEntries') = Cardinality(OpenEntries) + 1
      BY <2>1, <3>1, FS_AddElement
    <3>3. id \in Ids /\ NewEntry(d) /\ id \notin taken /\ kst[id] # "free"
      BY <1>5, <1>6, <2>4
    <3>4. id \notin Lost
      BY <1>1, <3>3 DEF Lost
    <3>5. \A i \in Ids \ {id} : i \in taken' <=> i \in taken
      BY <1>1
    <3>6. \A i \in Ids \ {id} : i \in Lost' <=> i \in Lost
      BY <1>1, <1>2, <3>5 DEF Lost
    <3>7. CASE ~ring[d].bad
      <4>1. taken' = taken \cup {id}
        BY <1>1, <2>4, <3>7
      <4>2. Cardinality(taken') = Cardinality(taken) + 1
        BY <2>1, <3>3, <4>1, FS_AddElement
      <4>3. id \notin Lost'
        BY <4>1 DEF Lost
      <4>4. Lost' = Lost
        BY <3>4, <3>6, <4>3 DEF Lost
      <4>5. QED
        BY <2>1, <2>2, <3>2, <4>2, <4>4 DEF Balanced
    <3>8. CASE ring[d].bad
      <4>1. taken' = taken
        BY <1>1, <3>8
      <4>2. \A o \in Offsets : (AnsweredEntry(o) \/ NewEntry(o)) /\ o # d => ring[o].id # id
        BY <1>1, <1>3, <3>3 DEF OncePerCommand
      <4>3. id \in Lost'
        BY <1>1, <1>2, <1>5, <2>4, <3>3, <4>1, <4>2 DEF Lost
      <4>4. Lost' = Lost \cup {id}
        BY <3>6, <4>3 DEF Lost
      <4>5. Cardinality(Lost') = Cardinality(Lost) + 1
        BY <2>1, <3>4, <4>4, FS_AddElement
      <4>6. QED
        BY <2>1, <2>2, <3>2, <4>1, <4>5 DEF Balanced
    <3>9. ring[d].bad \in BOOLEAN
      BY <1>1, <1>3 DEF TypeOK
    <3>10. QED
      BY <3>7, <3>8, <3>9
  <2>5. QED
    BY <2>3, <2>4
<1>15. QED
  BY <1>1, <1>3, <1>7, <1>8, <1>9, <1>11, <1>12, <1>13, <1>14 DEF RingInv

-----------------------------------------------------------------------------
(* tcmulib_command_complete.                                               *)

\* Distances from cmd_tail, in places.
LEMMA FromTail ==
  ASSUME TypeOK, NEW o \in Offsets
  PROVE  Dist(tail, o) = IF At(tail) <= At(o) THEN At(o) - At(tail) ELSE At(o) + Size - At(tail)
<1>1. tail \in Offsets /\ cleaned \in Offsets
  BY Places
<1>2. Dist(tail, o) = Ahead(tail, o)
  BY <1>1, DistIsAhead
<1>3. QED
  BY <1>1, <1>2, RingAssumption DEF Ahead, At, Offsets

\* As long as there is an open entry, the loop of tcmulib_command_complete ends
\* at the first of them.
LEMMA TargetIsOpen ==
  ASSUME RingInv, OpenEntries # {}
  PROVE  /\ OpenEntry(CompletionTarget)
         /\ \A p \in Offsets : At(tail) <= At(p) /\ At(p) < At(CompletionTarget) => ~IsCmd(p)
<1>1. TypeOK /\ InOrder
  BY DEF RingInv
<1>2. /\ cleaned \in Offsets /\ tail \in Offsets /\ head \in Offsets /\ devTail \in Offsets
      /\ At(tail) \in Nat /\ At(devTail) \in Nat /\ At(head) \in Nat
      /\ At(tail) <= At(devTail) /\ At(devTail) <= At(head) /\ At(head) < Size
  BY <1>1, Places DEF InOrder
<1>3. PICK o \in OpenEntries : \A p \in OpenEntries : At(o) <= At(p)
  BY <1>2, FirstOffset DEF OpenEntries, At
<1>4. o \in Offsets /\ IsCmd(o) /\ At(tail) <= At(o) /\ At(o) < At(devTail) /\ At(o) \in Nat
  BY <1>1, <1>3, Places DEF OpenEntries, OpenEntry
<1>5. \A p \in Offsets : At(tail) <= At(p) /\ At(p) < At(o) => ~IsCmd(p)
  <2> SUFFICES ASSUME NEW p \in Offsets, At(tail) <= At(p), At(p) < At(o), IsCmd(p) PROVE FALSE
    OBVIOUS
  <2>1. At(p) \in Nat
    BY <1>1, Places
  <2>2. p \in OpenEntries
    BY <1>2, <1>4, <2>1 DEF OpenEntries, OpenEntry
  <2>3. QED
    BY <1>3, <1>4, <2>1, <2>2
<1> DEFINE Skipped(x) == \A p \in Offsets : Dist(tail, p) < Dist(tail, x) => ring[p].op # "CMD"
           Target(x) == /\ Dist(tail, x) <= Dist(tail, head) /\ Skipped(x)
                        /\ ring[x].op = "CMD" \/ x = head
<1>6. Target(o)
  <2>1. Dist(tail, o) <= Dist(tail, head)
    BY <1>1, <1>2, <1>4, FromTail
  <2>2. ASSUME NEW p \in Offsets, Dist(tail, p) < Dist(tail, o) PROVE ring[p].op # "CMD"
    <3>1. At(p) \in Nat /\ At(p) < Size
      BY <1>1, Places
    <3>2. At(tail) <= At(p) /\ At(p) < At(o)
      BY <1>1, <1>2, <1>4, <2>2, <3>1, FromTail, RingAssumption
    <3>3. QED
      BY <1>5, <3>2 DEF IsCmd
  <2>3. QED
    BY <1>4, <2>1, <2>2 DEF IsCmd
<1>7. CompletionTarget = CHOOSE x \in Offsets : Target(x)
  BY DEF CompletionTarget
<1> DEFINE e == CHOOSE x \in Offsets : Target(x)
<1>8. e \in Offsets /\ Target(e)
  BY <1>4, <1>6
<1> HIDE DEF e
<1>9. At(e) \in Nat /\ At(e) < Size
  BY <1>1, <1>8, Places
<1>10. ~ (Dist(tail, o) < Dist(tail, e))
  BY <1>4, <1>8 DEF IsCmd
<1>11. At(tail) <= At(e) /\ At(e) <= At(o)
  BY <1>1, <1>2, <1>4, <1>8, <1>9, <1>10, FromTail, RingAssumption
<1>12. e # head
  BY <1>2, <1>4, <1>9, <1>11
<1>13. OpenEntry(e)
  BY <1>2, <1>4, <1>8, <1>9, <1>11, <1>12 DEF OpenEntry, IsCmd
<1>14. \A p \in Offsets : At(tail) <= At(p) /\ At(p) < At(e) => ~IsCmd(p)
  <2> SUFFICES ASSUME NEW p \in Offsets, At(tail) <= At(p), At(p) < At(e) PROVE ~IsCmd(p)
    OBVIOUS
  <2>1. At(p) \in Nat
    BY <1>1, Places
  <2>2. QED
    BY <1>4, <1>5, <1>9, <1>11, <2>1
<1>15. CompletionTarget = e
  BY <1>7 DEF e
<1>16. QED
  BY <1>13, <1>14, <1>15

\* A handler that holds a command finds an open entry for its answer.
LEMMA RoomToAnswer ==
  ASSUME RingInv, taken # {}
  PROVE  OpenEntries # {}
<1>1. TypeOK /\ daemon # "down" /\ Balanced
  BY DEF RingInv, HandlersHold
<1>2. /\ IsFiniteSet(taken) /\ Cardinality(taken) \in Nat /\ Cardinality(Lost) \in Nat
  BY <1>1, FiniteParts
<1>3. Cardinality(taken) # 0
  BY <1>2, FS_EmptySet
<1>4. Cardinality(OpenEntries) # 0
  BY <1>1, <1>2, <1>3 DEF Balanced
<1>5. QED
  BY <1>4, FS_EmptySet

\* An answer turns the first open entry into an answered one and passes over it.
LEMMA CompleteEffect ==
  ASSUME RingInv, NEW i \in Ids, NEW s \in Statuses, CommandComplete(i, s)
  PROVE  \E e \in Offsets :
         /\ e \in Starts /\ OpenEntry(e) /\ i \in taken /\ daemon # "down"
         /\ ring' = [ring EXCEPT ![e] = [@ EXCEPT !.id = i, !.rsp = Outcome(s)]]
         /\ taken' = taken \ {i} /\ verdict' = [verdict EXCEPT ![i] = Outcome(s)]
         /\ UNCHANGED <<head, devTail, cleaned, kst, reply, broken, daemon, blocked>>
         /\ tail' \in Offsets /\ tail' \in Starts \cup {head}
         /\ \A o \in Offsets : /\ At(o)' = At(o)
                               /\ IsCmd(o)' <=> IsCmd(o)
                               /\ ring'[o].len = ring[o].len /\ ring'[o].op = ring[o].op
                               /\ o # e => ring'[o] = ring[o]
                               /\ AnsweredEntry(o)' <=> AnsweredEntry(o) \/ o = e
                               /\ NewEntry(o)' <=> NewEntry(o)
                               /\ OpenEntry(o)' <=> OpenEntry(o) /\ o # e
         /\ ring'[e].id = i /\ ring'[e].rsp = Outcome(s)
         /\ At(tail') <= At(devTail)
<1>1. TypeOK /\ Chained /\ InOrder
  BY DEF RingInv
<1> DEFINE e == CompletionTarget
<1>2. /\ i \in taken /\ daemon # "down"
      /\ ring' = [ring EXCEPT ![e] = [@ EXCEPT !.id = i, !.rsp = Outcome(s)]]
      /\ tail' = Advance(e)
      /\ taken' = taken \ {i} /\ verdict' = [verdict EXCEPT ![i] = Outcome(s)]
      /\ UNCHANGED <<head, devTail, cleaned, kst, reply, broken, daemon, blocked>>
  BY DEF CommandComplete
<1>3. OpenEntry(e) /\ \A p \in Offsets : At(tail) <= At(p) /\ At(p) < At(e) => ~IsCmd(p)
  BY <1>2, RoomToAnswer, TargetIsOpen
<1> HIDE DEF e
<1>4. e \in Offsets /\ e \in Starts /\ IsCmd(e) /\ At(tail) <= At(e) /\ At(e) < At(devTail)
  BY <1>3, CmdIsStart DEF OpenEntry
<1>5. tail' \in Offsets /\ At(tail') = At(e) + ring[e].len
  BY <1>1, <1>2, <1>4, NextEntry
<1>6. tail' \in Starts \cup {head} /\ At(e) + ring[e].len <= At(head)
  BY <1>1, <1>2, <1>4 DEF Chained
<1>7. /\ tail \in Offsets /\ head \in Offsets /\ devTail \in Offsets /\ cleaned \in Offsets
      /\ At(tail) \in Nat /\ At(devTail) \in Nat /\ At(head) \in Nat /\ At(e) \in Nat
      /\ ring[e].len \in Nat /\ ring[e].len >= 1
  BY <1>1, <1>4, Places
<1>8. At(tail') <= At(devTail)
  <2>1. CASE devTail \in Starts
    BY <1>1, <1>4, <1>5, <2>1 DEF Chained
  <2>2. CASE devTail = head
    BY <1>5, <1>6, <2>2
  <2>3. QED
    BY <1>1, <2>1, <2>2 DEF Chained
<1>9. /\ \A o \in Offsets : o # e => ring'[o] = ring[o]
      /\ ring'[e].len = ring[e].len /\ ring'[e].op = ring[e].op
      /\ ring'[e].id = i /\ ring'[e].rsp = Outcome(s)
  <2>1. ring \in [Offsets -> [op : {"NONE", "PAD", "CMD", "OTHER"}, id : Ids \cup {NoId},
                             len : 1 .. Size, bad : BOOLEAN, rsp : Answers \cup {Undecided}]]
    BY <1>1 DEF TypeOK
  <2>2. ring'[e] = [ring[e] EXCEPT !.id = i, !.rsp = Outcome(s)] /\ \A o \in Offsets : o # e => ring'[o] = ring[o]
    BY <1>2, <1>4, <2>1
  <2>3. ring[e] \in [op : {"NONE", "PAD", "CMD", "OTHER"}, id : Ids \cup {NoId},
                     len : 1 .. Size, bad : BOOLEAN, rsp : Answers \cup {Undecided}]
    BY <1>4, <2>1
  <2>4. QED
    BY <2>2, <2>3
<1>10. ASSUME NEW o \in Offsets
       PROVE  /\ At(o)' = At(o)
              /\ IsCmd(o)' <=> IsCmd(o)
              /\ ring'[o].len = ring[o].len /\ ring'[o].op = ring[o].op
              /\ AnsweredEntry(o)' <=> AnsweredEntry(o) \/ o = e
              /\ NewEntry(o)' <=> NewEntry(o)
              /\ OpenEntry(o)' <=> OpenEntry(o) /\ o # e
  <2>1. /\ At(o)' = At(o) /\ At(devTail)' = At(devTail) /\ At(tail)' = At(tail')
        /\ At(o) \in Nat /\ At(tail') \in Nat
    BY <1>1, <1>2, <1>5, <1>7, Places DEF At
  <2>2. ring'[o].len = ring[o].len /\ ring'[o].op = ring[o].op
    BY <1>9
  <2>3. IsCmd(o)' <=> IsCmd(o)
    BY <2>2 DEF IsCmd
  <2>4. IsCmd(o) => (At(o) < At(tail') <=> At(o) < At(tail) \/ o = e)
    <3> SUFFICES ASSUME IsCmd(o) PROVE At(o) < At(tail') <=> At(o) < At(tail) \/ o = e
      OBVIOUS
    <3>1. At(e) < At(o) => At(tail') <= At(o)
      BY <1>1, <1>4, <1>5, CmdIsStart DEF Chained
    <3>2. At(e) = At(o) => o = e
      BY <1>1, <1>4, Places
    <3>3. At(o) < At(e) => At(o) < At(tail)
      BY <1>3, <1>7, <2>1
    <3>4. QED
      BY <1>4, <1>5, <1>7, <2>1, <3>1, <3>2, <3>3
  <2>5. AnsweredEntry(o)' <=> AnsweredEntry(o) \/ o = e
    BY <1>4, <2>1, <2>3, <2>4 DEF AnsweredEntry
  <2>6. NewEntry(o)' <=> NewEntry(o)
    BY <2>1, <2>3 DEF NewEntry
  <2>7. OpenEntry(o)' <=> OpenEntry(o) /\ o # e
    BY <1>4, <1>7, <2>1, <2>3, <2>4 DEF OpenEntry
  <2>8. QED
    BY <2>1, <2>2, <2>3, <2>5, <2>6, <2>7
<1>11. QED
  BY <1>2, <1>3, <1>4, <1>5, <1>6, <1>8, <1>9, <1>10

\* The step of tcmulib_command_complete keeps the invariant.
LEMMA CompleteStep ==
  ASSUME RingInv, NEW i \in Ids, NEW s \in Statuses, CommandComplete(i, s)
  PROVE  RingInv'
<1>1. PICK e \in Offsets :
        /\ e \in Starts /\ OpenEntry(e) /\ i \in taken /\ daemon # "down"
        /\ ring' = [ring EXCEPT ![e] = [@ EXCEPT !.id = i, !.rsp = Outcome(s)]]
        /\ taken' = taken \ {i} /\ verdict' = [verdict EXCEPT ![i] = Outcome(s)]
        /\ UNCHANGED <<head, devTail, cleaned, kst, reply, broken, daemon, blocked>>
        /\ tail' \in Offsets /\ tail' \in Starts \cup {head}
        /\ \A o \in Offsets : /\ At(o)' = At(o)
                              /\ IsCmd(o)' <=> IsCmd(o)
                              /\ ring'[o].len = ring[o].len /\ ring'[o].op = ring[o].op
                              /\ o # e => ring'[o] = ring[o]
                              /\ AnsweredEntry(o)' <=> AnsweredEntry(o) \/ o = e
                              /\ NewEntry(o)' <=> NewEntry(o)
                              /\ OpenEntry(o)' <=> OpenEntry(o) /\ o # e
        /\ ring'[e].id = i /\ ring'[e].rsp = Outcome(s)
        /\ At(tail') <= At(devTail)
  BY CompleteEffect, ZenonT(60)
<1>2. /\ TypeOK /\ Chained /\ InOrder /\ EntriesMean /\ OncePerCommand /\ HandlersHold /\ Balanced
      /\ ~broken
  BY DEF RingInv
<1>3. Outcome(s) \in Answers /\ Outcome(s) # Undecided
  BY OutcomeDecided DEF Answers
<1>4. kst[i] # "free" /\ verdict[i] = Undecided
  BY <1>1, <1>2 DEF HandlersHold
<1>5. verdict \in [Ids -> Answers \cup {Undecided}]
  BY <1>2 DEF TypeOK
<1>6. verdict'[i] = Outcome(s) /\ \A j \in Ids : j # i => verdict'[j] = verdict[j]
  BY <1>1, <1>5
<1>7. TypeOK'
  <2> DEFINE Entry == [op : {"NONE", "PAD", "CMD", "OTHER"}, id : Ids \cup {NoId},
                       len : 1 .. Size, bad : BOOLEAN, rsp : Answers \cup {Undecided}]
  <2>1. ring \in [Offsets -> Entry]
    BY <1>2 DEF TypeOK
  <2>2. [ring[e] EXCEPT !.id = i, !.rsp = Outcome(s)] \in Entry
    BY <1>3, <2>1
  <2>3. ring' \in [Offsets -> Entry]
    <3> HIDE DEF Entry
    <3> QED BY <1>1, <2>1, <2>2
  <2>4. verdict' \in [Ids -> Answers \cup {Undecided}]
    BY <1>1, <1>3, <1>5
  <2>5. taken' \subseteq Ids
    BY <1>1, <1>2 DEF TypeOK
  <2>6. QED
    BY <1>1, <1>2, <2>3, <2>4, <2>5 DEF TypeOK
<1>8. /\ tail \in Offsets /\ head \in Offsets /\ devTail \in Offsets /\ cleaned \in Offsets
      /\ Starts \subseteq Offsets
  BY <1>2, Places
<1>9. Chained'
  <2>1. Starts' = Starts /\ \A o \in Offsets : Advance(o)' = Advance(o)
    BY <1>1 DEF Starts, Advance
  <2>2. At(head)' = At(head)
    BY <1>1, <1>8
  <2>3. \A o \in Starts : /\ At(o)' + ring'[o].len <= At(head)'
                          /\ Advance(o)' \in Starts \cup {head}
                          /\ \A p \in Starts : At(o)' < At(p)' => At(o)' + ring'[o].len <= At(p)'
    BY <1>1, <1>2, <1>8, <2>1, <2>2 DEF Chained
  <2>4. QED
    BY <1>1, <1>2, <2>1, <2>3 DEF Chained
<1>10. InOrder'
  <2>1. At(head)' = At(head) /\ At(tail)' = At(tail') /\ At(devTail)' = At(devTail)
    BY <1>1, <1>8 DEF At
  <2>2. QED
    BY <1>1, <1>2, <2>1 DEF InOrder
<1>11. \A o \in Offsets : AnsweredEntry(o) \/ NewEntry(o) => o # e /\ ring[o].id # i /\ ring[o].id \in Ids
  <2>1. \A o \in Offsets : AnsweredEntry(o) => o # e /\ ring[o].id # i /\ ring[o].id \in Ids
    <3> SUFFICES ASSUME NEW o \in Offsets, AnsweredEntry(o) PROVE o # e /\ ring[o].id # i /\ ring[o].id \in Ids
      OBVIOUS
    <3>1. IsCmd(o) /\ verdict[ring[o].id] # Undecided /\ ring[o].id \in Ids
      BY <1>2, OutcomeDecided DEF EntriesMean, AnsweredEntry
    <3>2. At(o) \in Nat /\ At(tail) \in Nat
      BY <1>2, Places
    <3>3. o # e
      BY <1>1, <3>2 DEF OpenEntry, AnsweredEntry
    <3>4. QED
      BY <1>4, <3>1, <3>3
  <2>2. \A o \in Offsets : NewEntry(o) => o # e /\ ring[o].id # i /\ ring[o].id \in Ids
    <3> SUFFICES ASSUME NEW o \in Offsets, NewEntry(o) PROVE o # e /\ ring[o].id # i /\ ring[o].id \in Ids
      OBVIOUS
    <3>1. At(o) \in Nat /\ At(devTail) \in Nat
      BY <1>2, Places
    <3>2. o # e
      BY <1>1, <3>1 DEF OpenEntry, NewEntry
    <3>3. QED
      BY <1>1, <1>2, <3>2 DEF EntriesMean, NewEntry
  <2>3. QED
    BY <2>1, <2>2
<1>12. EntriesMean'
  <2>1. \A o \in Offsets : IsCmd(o)' => ring'[o].id \in Ids
    BY <1>1, <1>2 DEF EntriesMean
  <2>2. \A o \in Offsets : AnsweredEntry(o)' =>
           /\ ring'[o].rsp \in Answers /\ ring'[o].rsp = verdict'[ring'[o].id]
           /\ kst'[ring'[o].id] # "free"
    <3> SUFFICES ASSUME NEW o \in Offsets, AnsweredEntry(o)'
                 PROVE  /\ ring'[o].rsp \in Answers /\ ring'[o].rsp = verdict'[ring'[o].id]
                        /\ kst'[ring'[o].id] # "free"
      OBVIOUS
    <3>1. CASE o = e
      BY <1>1, <1>3, <1>4, <1>6, <3>1
    <3>2. CASE o # e
      BY <1>1, <1>2, <1>6, <1>11, <3>2 DEF EntriesMean
    <3>3. QED
      BY <3>1, <3>2
  <2>3. \A o \in Offsets : OpenEntry(o)' => ring'[o].rsp = Undecided
    BY <1>1, <1>2 DEF EntriesMean
  <2>4. \A o \in Offsets : NewEntry(o)' =>
           /\ ring'[o].rsp = Undecided /\ verdict'[ring'[o].id] = Undecided
           /\ kst'[ring'[o].id] # "free" /\ ring'[o].id \notin taken'
    BY <1>1, <1>2, <1>6, <1>11 DEF EntriesMean
  <2>5. QED
    BY <2>1, <2>2, <2>3, <2>4 DEF EntriesMean
<1>13. OncePerCommand'
  <2> SUFFICES ASSUME NEW o \in Offsets, NEW p \in Offsets,
                      AnsweredEntry(o)' \/ NewEntry(o)', AnsweredEntry(p)' \/ NewEntry(p)',
                      ring'[o].id = ring'[p].id
               PROVE  o = p
    BY DEF OncePerCommand
  <2>1. CASE o = e
    BY <1>1, <1>11, <2>1
  <2>2. CASE p = e
    BY <1>1, <1>11, <2>2
  <2>3. CASE o # e /\ p # e
    BY <1>1, <1>2, <2>3 DEF OncePerCommand
  <2>4. QED
    BY <2>1, <2>2, <2>3
<1>14. HandlersHold'
  BY <1>1, <1>2, <1>4, <1>6 DEF HandlersHold, TypeOK
<1>15. Balanced'
  <2>1. /\ IsFiniteSet(OpenEntries) /\ IsFiniteSet(taken) /\ IsFiniteSet(Lost)
        /\ Cardinality(OpenEntries) \in Nat /\ Cardinality(taken) \in Nat /\ Cardinality(Lost) \in Nat
    BY <1>2, FiniteParts
  <2>2. Cardinality(OpenEntries) = Cardinality(taken) + Cardinality(Lost)
    BY <1>1, <1>2 DEF Balanced
  <2>3. OpenEntries' = OpenEntries \ {e} /\ e \in OpenEntries
    BY <1>1 DEF OpenEntries
  <2>4. Cardinality(OpenEntries') = Cardinality(OpenEntries) - 1
    BY <2>1, <2>3, FS_RemoveElement
  <2>5. Cardinality(taken') = Cardinality(taken) - 1
    BY <1>1, <2>1, FS_RemoveElement
  <2>6. i \notin Lost /\ i \notin Lost'
    BY <1>1 DEF Lost
  <2>7. \A j \in Ids \ {i} : j \in Lost' <=> j \in Lost
    <3> SUFFICES ASSUME NEW j \in Ids \ {i} PROVE j \in Lost' <=> j \in Lost
      OBVIOUS
    <3>1. j \in taken' <=> j \in taken
      BY <1>1
    <3>2. \A o \in Offsets : (AnsweredEntry(o)' \/ NewEntry(o)') /\ ring'[o].id = j
                             <=> (AnsweredEntry(o) \/ NewEntry(o)) /\ ring[o].id = j
      BY <1>1, <1>11
    <3>3. QED
      BY <1>1, <3>1, <3>2 DEF Lost
  <2>8. Lost' = Lost
    BY <2>6, <2>7 DEF Lost
  <2>9. QED
    BY <2>1, <2>2, <2>4, <2>5, <2>8 DEF Balanced
<1>16. QED
  BY <1>1, <1>2, <1>7, <1>9, <1>10, <1>12, <1>13, <1>14, <1>15 DEF RingInv

-----------------------------------------------------------------------------
(* The kernel reads an answer.                                             *)

\* The blank entry the kernel leaves behind is none, and is an entry.
LEMMA BlankEntry ==
  /\ Blank.op = "NONE" /\ Blank.len = 1 /\ Blank.id = NoId /\ Blank.bad = FALSE /\ Blank.rsp = Undecided
  /\ Blank \in [op : {"NONE", "PAD", "CMD", "OTHER"}, id : Ids \cup {NoId},
                len : 1 .. Size, bad : BOOLEAN, rsp : Answers \cup {Undecided}]
<1>1. 1 \in 1 .. Size
  BY RingAssumption
<1>2. QED
  BY <1>1 DEF Blank

\* The first entry below cmd_tail leaves the ring, and with it the base from
\* which places are counted moves; nothing else changes its kind.
LEMMA HandleEffect ==
  ASSUME RingInv, KernelHandleCompletion
  PROVE  /\ cleaned \in Starts /\ cleaned \in Offsets
         /\ ring' = [ring EXCEPT ![cleaned] = Blank]
         /\ UNCHANGED <<head, tail, devTail, taken, daemon, blocked>>
         /\ TypeOK' /\ Chained' /\ InOrder'
         /\ IsCmd(cleaned) => AnsweredEntry(cleaned)
         /\ ring'[cleaned].op # "CMD"
         /\ \A o \in Offsets : /\ o # cleaned => ring'[o] = ring[o]
                               /\ AnsweredEntry(o)' <=> AnsweredEntry(o) /\ o # cleaned
                               /\ NewEntry(o)' <=> NewEntry(o) /\ o # cleaned
                               /\ OpenEntry(o)' <=> OpenEntry(o) /\ o # cleaned
<1> DEFINE c == cleaned
           n == ring[c].len
<1>1. TypeOK /\ Chained /\ InOrder /\ EntriesMean
  BY DEF RingInv
<1>2. /\ c # tail /\ cleaned' = Advance(c) /\ ring' = [ring EXCEPT ![c] = Blank]
      /\ UNCHANGED <<head, tail, devTail, taken, daemon, blocked>>
  BY DEF KernelHandleCompletion
<1>3. /\ tail \in Offsets /\ head \in Offsets /\ devTail \in Offsets /\ c \in Offsets
      /\ At(tail) \in Nat /\ At(devTail) \in Nat /\ At(head) \in Nat /\ At(c) = 0
      /\ n \in Nat /\ n >= 1 /\ At(head) < Size /\ Starts \subseteq Offsets
      /\ \A o \in Offsets : At(o) \in Nat /\ At(o) < Size /\ ring[o].len \in Nat /\ ring[o].len >= 1
  BY <1>1, Places
<1>4. \A o \in Offsets : o # c => At(o) > 0
  <2> SUFFICES ASSUME NEW o \in Offsets, o # c PROVE At(o) > 0
    OBVIOUS
  <2>1. At(o) # At(c)
    BY <1>1, <1>3, Places
  <2>2. QED
    BY <1>3, <2>1
<1>5. At(tail) > 0 /\ At(devTail) > 0 /\ At(head) > 0
  BY <1>1, <1>2, <1>3, <1>4 DEF InOrder
<1>6. c # head /\ c # tail /\ c # devTail
  BY <1>3, <1>5
<1>7. c \in Starts
  BY <1>1, <1>6 DEF Chained
<1>8. n <= At(head) /\ \A o \in Starts : o # c => n <= At(o)
  BY <1>1, <1>3, <1>4, <1>7 DEF Chained
<1>9. n <= At(tail) /\ n <= At(devTail)
  BY <1>1, <1>3, <1>6, <1>8 DEF Chained
<1>10. /\ cleaned' \in Offsets /\ n < Size
       /\ \A o \in Offsets : At(o)' = IF n <= At(o) THEN At(o) - n ELSE At(o) + Size - n
  <2>1. n < Size
    BY <1>3, <1>8, RingAssumption
  <2>2. cleaned' = (c + n) % Size
    BY <1>2 DEF Advance
  <2>3. cleaned' \in Offsets
    BY <1>3, <2>1, <2>2, BaseForward
  <2>4. ASSUME NEW o \in Offsets PROVE At(o)' = IF n <= At(o) THEN At(o) - n ELSE At(o) + Size - n
    <3>1. At(o)' = Ahead(cleaned', o)
      BY DEF At
    <3>2. Ahead((c + n) % Size, o) = IF n <= Ahead(c, o) THEN Ahead(c, o) - n ELSE Ahead(c, o) + Size - n
      BY <1>3, <2>1, BaseForward
    <3>3. QED
      BY <2>2, <3>1, <3>2 DEF At
  <2>5. QED
    BY <2>1, <2>3, <2>4
<1>11. /\ \A o \in Starts : o # c => At(o)' = At(o) - n
       /\ At(head)' = At(head) - n /\ At(tail)' = At(tail) - n /\ At(devTail)' = At(devTail) - n
  BY <1>2, <1>3, <1>8, <1>9, <1>10
<1>12. /\ \A o \in Offsets : o # c => ring'[o] = ring[o]
       /\ ring'[c] = Blank
  BY <1>1, <1>2, <1>3 DEF TypeOK
<1>13. TypeOK'
  <2> DEFINE Entry == [op : {"NONE", "PAD", "CMD", "OTHER"}, id : Ids \cup {NoId},
                       len : 1 .. Size, bad : BOOLEAN, rsp : Answers \cup {Undecided}]
  <2>1. ring' \in [Offsets -> Entry]
    <3>1. ring \in [Offsets -> Entry] /\ Blank \in Entry
      BY <1>1, BlankEntry DEF TypeOK
    <3> HIDE DEF Entry
    <3> QED BY <1>2, <1>3, <3>1
  <2>2. /\ kst' \in [Ids -> {"free", "sent", "expired"}]
        /\ reply' \in [Ids -> Answers \cup {Undecided, TimedOut, Retry}]
        /\ verdict' \in [Ids -> Answers \cup {Undecided}]
        /\ broken' \in BOOLEAN
    <3> DEFINE id == ring[c].id
    <3>1. ring[c].rsp \in Answers \cup {Undecided}
      BY <1>1, <1>3 DEF TypeOK
    <3>2. /\ kst' \in {kst, [kst EXCEPT ![id] = "free"]}
          /\ reply' \in {reply, [reply EXCEPT ![id] = ring[c].rsp]}
          /\ verdict' \in {verdict, [verdict EXCEPT ![id] = Undecided]}
          /\ broken' \in {broken, TRUE}
      BY DEF KernelHandleCompletion, kernVars
    <3>3. /\ kst \in [Ids -> {"free", "sent", "expired"}]
          /\ reply \in [Ids -> Answers \cup {Undecided, TimedOut, Retry}]
          /\ verdict \in [Ids -> Answers \cup {Undecided}]
          /\ broken \in BOOLEAN
      BY <1>1 DEF TypeOK
    <3> HIDE DEF id
    <3>4. kst' \in [Ids -> {"free", "sent", "expired"}]
      BY <3>2, <3>3
    <3>5. reply' \in [Ids -> Answers \cup {Undecided, TimedOut, Retry}]
      BY <3>1, <3>2, <3>3
    <3>6. verdict' \in [Ids -> Answers \cup {Undecided}]
      BY <3>2, <3>3
    <3>7. broken' \in BOOLEAN
      BY <3>2, <3>3
    <3>8. QED
      BY <3>4, <3>5, <3>6, <3>7
  <2>3. head' \in Offsets /\ tail' \in Offsets /\ devTail' \in Offsets /\ cleaned' \in Offsets
    BY <1>2, <1>3, <1>10
  <2>4. taken' \subseteq Ids /\ daemon' \in {"up", "flushing", "down"} /\ blocked' \in BOOLEAN
    BY <1>1, <1>2 DEF TypeOK
  <2>5. QED
    BY <2>1, <2>2, <2>3, <2>4 DEF TypeOK
<1>14. Starts' = Starts \ {c}
  BY <1>12, <1>3, BlankEntry DEF Starts
<1>15. Chained'
  <2>1. ASSUME NEW o \in Starts, o # c
        PROVE  /\ At(o)' + ring'[o].len <= At(head)'
               /\ Advance(o)' \in Starts' \cup {head}
               /\ \A p \in Starts' : At(o)' < At(p)' => At(o)' + ring'[o].len <= At(p)'
    <3>1. o \in Offsets /\ ring'[o] = ring[o] /\ At(o) \in Nat /\ ring[o].len \in Nat /\ ring[o].len >= 1
      BY <1>3, <1>12, <2>1
    <3>2. At(o)' + ring'[o].len <= At(head)'
      BY <1>1, <1>3, <1>11, <2>1, <3>1 DEF Chained
    <3>3. Advance(o) \in Starts \cup {head} /\ At(Advance(o)) = At(o) + ring[o].len
      BY <1>1, <2>1, NextEntry DEF Chained
    <3>4. Advance(o) # c
      BY <1>3, <3>1, <3>3
    <3>5. Advance(o)' = Advance(o)
      BY <3>1 DEF Advance
    <3>6. ASSUME NEW p \in Starts', At(o)' < At(p)' PROVE At(o)' + ring'[o].len <= At(p)'
      <4>1. p \in Starts /\ p # c /\ At(p) \in Nat
        BY <1>3, <1>14
      <4>2. At(o)' = At(o) - n /\ At(p)' = At(p) - n
        BY <1>11, <2>1, <4>1
      <4>3. At(o) < At(p)
        BY <1>3, <3>1, <3>6, <4>1, <4>2
      <4>4. At(o) + ring[o].len <= At(p)
        BY <1>1, <2>1, <4>1, <4>3 DEF Chained
      <4>5. QED
        BY <1>3, <3>1, <4>1, <4>2, <4>4
    <3>7. QED
      BY <1>14, <3>2, <3>3, <3>4, <3>5, <3>6
  <2>2. cleaned' \in Starts' \cup {head}
    <3>1. Advance(c) \in Starts \cup {head} /\ At(Advance(c)) = At(c) + n
      BY <1>1, <1>7, NextEntry DEF Chained
    <3>2. Advance(c) # c
      BY <1>3, <3>1
    <3>3. QED
      BY <1>2, <1>14, <3>1, <3>2
  <2>3. tail' \in Starts' \cup {head} /\ devTail' \in Starts' \cup {head}
    BY <1>1, <1>2, <1>6, <1>14 DEF Chained
  <2>4. head' = head
    BY <1>2
  <2>5. QED
    BY <1>14, <2>1, <2>2, <2>3, <2>4 DEF Chained
<1>16. InOrder'
  BY <1>1, <1>3, <1>11 DEF InOrder
<1>17. ring'[c].op # "CMD"
  BY <1>12, BlankEntry
<1>18. IsCmd(c) => AnsweredEntry(c)
  BY <1>3, <1>5 DEF AnsweredEntry
<1>19. ASSUME NEW o \in Offsets
       PROVE  /\ AnsweredEntry(o)' <=> AnsweredEntry(o) /\ o # c
              /\ NewEntry(o)' <=> NewEntry(o) /\ o # c
              /\ OpenEntry(o)' <=> OpenEntry(o) /\ o # c
  <2>1. CASE o = c
    <3>1. ring'[o].op # "CMD"
      BY <1>12, <2>1, BlankEntry
    <3>2. QED
      BY <2>1, <3>1 DEF AnsweredEntry, NewEntry, OpenEntry, IsCmd
  <2>2. CASE o # c /\ ~IsCmd(o)
    <3>1. ring'[o] = ring[o]
      BY <1>12, <2>2
    <3>2. QED
      BY <2>2, <3>1 DEF AnsweredEntry, NewEntry, OpenEntry, IsCmd
  <2>3. CASE o # c /\ IsCmd(o)
    <3>1. o \in Starts /\ ring'[o] = ring[o] /\ At(o) \in Nat
      BY <1>3, <1>12, <2>3, CmdIsStart
    <3>2. At(o)' = At(o) - n
      BY <1>11, <2>3, <3>1
    <3>3. /\ At(o)' < At(tail)' <=> At(o) < At(tail)
          /\ At(o)' < At(devTail)' <=> At(o) < At(devTail)
          /\ At(tail)' <= At(o)' <=> At(tail) <= At(o)
          /\ At(devTail)' <= At(o)' <=> At(devTail) <= At(o)
      BY <1>3, <1>11, <3>1, <3>2
    <3>4. QED
      BY <2>3, <3>1, <3>3 DEF AnsweredEntry, NewEntry, OpenEntry, IsCmd
  <2>4. QED
    BY <2>1, <2>2, <2>3
<1>20. QED
  BY <1>2, <1>3, <1>7, <1>12, <1>13, <1>15, <1>16, <1>17, <1>18, <1>19

\* What reading an answer does to the commands: the command of an answered
\* entry is open and decided, so it is the kernel's answer for that command.
LEMMA HandleCommands ==
  ASSUME RingInv, KernelHandleCompletion
  PROVE  /\ ~IsCmd(cleaned) => UNCHANGED <<kst, reply, verdict, broken>>
         /\ IsCmd(cleaned) =>
              LET id == ring[cleaned].id IN
              /\ id \in Ids /\ kst[id] # "free" /\ verdict[id] = ring[cleaned].rsp
              /\ verdict[id] \in Answers /\ id \notin taken
              /\ kst' = [kst EXCEPT ![id] = "free"]
              /\ verdict' = [verdict EXCEPT ![id] = Undecided]
              /\ reply' = IF kst[id] = "sent" THEN [reply EXCEPT ![id] = verdict[id]] ELSE reply
              /\ UNCHANGED broken
<1>1. ~IsCmd(cleaned) => UNCHANGED <<kst, reply, verdict, broken>>
  BY DEF KernelHandleCompletion, kernVars, IsCmd
<1>2. ASSUME IsCmd(cleaned) PROVE AnsweredEntry(cleaned) /\ cleaned \in Offsets
  BY <1>2, HandleEffect
<1>3. ASSUME IsCmd(cleaned)
      PROVE  /\ ring[cleaned].id \in Ids /\ kst[ring[cleaned].id] # "free"
             /\ verdict[ring[cleaned].id] = ring[cleaned].rsp
             /\ verdict[ring[cleaned].id] \in Answers
  BY <1>2, <1>3 DEF RingInv, EntriesMean
<1>4. ASSUME IsCmd(cleaned) PROVE ring[cleaned].id \notin taken
  BY <1>3, <1>4, OutcomeDecided DEF RingInv, HandlersHold
<1>5. ASSUME IsCmd(cleaned)
      PROVE  /\ kst' = [kst EXCEPT ![ring[cleaned].id] = "free"]
             /\ verdict' = [verdict EXCEPT ![ring[cleaned].id] = Undecided]
             /\ reply' = IF kst[ring[cleaned].id] = "sent"
                         THEN [reply EXCEPT ![ring[cleaned].id] = ring[cleaned].rsp] ELSE reply
             /\ UNCHANGED broken
  BY <1>3, <1>5 DEF KernelHandleCompletion, IsCmd
<1>6. QED
  BY <1>1, <1>3, <1>4, <1>5

\* The step in which the kernel reads an answer keeps the invariant.
LEMMA HandleStep == RingInv /\ KernelHandleCompletion => RingInv'
<1> SUFFICES ASSUME RingInv, KernelHandleCompletion PROVE RingInv'
  OBVIOUS
<1> DEFINE c == cleaned
           id == ring[c].id
<1>1. /\ c \in Offsets /\ UNCHANGED <<head, tail, devTail, taken, daemon, blocked>>
      /\ TypeOK' /\ Chained' /\ InOrder' /\ (IsCmd(c) => AnsweredEntry(c)) /\ ring'[c].op # "CMD"
      /\ \A o \in Offsets : /\ o # c => ring'[o] = ring[o]
                            /\ AnsweredEntry(o)' <=> AnsweredEntry(o) /\ o # c
                            /\ NewEntry(o)' <=> NewEntry(o) /\ o # c
                            /\ OpenEntry(o)' <=> OpenEntry(o) /\ o # c
  BY HandleEffect
<1>2. /\ TypeOK /\ EntriesMean /\ OncePerCommand /\ HandlersHold /\ Balanced /\ ~broken
  BY DEF RingInv
<1>3. ~IsCmd(c) => UNCHANGED <<kst, reply, verdict, broken>>
  BY HandleCommands
<1>4. IsCmd(c) => /\ id \in Ids /\ kst[id] # "free" /\ id \notin taken
                  /\ kst' = [kst EXCEPT ![id] = "free"]
                  /\ verdict' = [verdict EXCEPT ![id] = Undecided]
                  /\ UNCHANGED broken
  BY HandleCommands
<1>5. kst \in [Ids -> {"free", "sent", "expired"}] /\ verdict \in [Ids -> Answers \cup {Undecided}]
  BY <1>2 DEF TypeOK
<1>6. \A j \in Ids : (IsCmd(c) => j # id) => kst'[j] = kst[j] /\ verdict'[j] = verdict[j]
  BY <1>3, <1>4, <1>5
<1>7. IsCmd(c) => kst'[id] = "free" /\ verdict'[id] = Undecided
  BY <1>4, <1>5
<1>8. \A o \in Offsets : (AnsweredEntry(o) \/ NewEntry(o)) /\ o # c =>
         /\ ring[o].id \in Ids /\ (IsCmd(c) => ring[o].id # id)
  BY <1>1, <1>2 DEF OncePerCommand, EntriesMean, AnsweredEntry, NewEntry
<1>9. \A o \in Offsets : IsCmd(o)' <=> IsCmd(o) /\ o # c
  BY <1>1 DEF IsCmd
<1>10. ~OpenEntry(c)
  <2>1. At(c) = 0 /\ At(tail) \in Nat
    BY <1>2, Places
  <2>2. QED
    BY <1>1, <2>1 DEF OpenEntry, AnsweredEntry
<1>11. EntriesMean'
  <2>1. \A o \in Offsets : IsCmd(o)' => ring'[o].id \in Ids
    BY <1>1, <1>2, <1>9 DEF EntriesMean
  <2>2. \A o \in Offsets : AnsweredEntry(o)' =>
           /\ ring'[o].rsp \in Answers /\ ring'[o].rsp = verdict'[ring'[o].id]
           /\ kst'[ring'[o].id] # "free"
    BY <1>1, <1>2, <1>6, <1>8 DEF EntriesMean
  <2>3. \A o \in Offsets : OpenEntry(o)' => ring'[o].rsp = Undecided
    BY <1>1, <1>2 DEF EntriesMean
  <2>4. \A o \in Offsets : NewEntry(o)' =>
           /\ ring'[o].rsp = Undecided /\ verdict'[ring'[o].id] = Undecided
           /\ kst'[ring'[o].id] # "free" /\ ring'[o].id \notin taken'
    BY <1>1, <1>2, <1>6, <1>8 DEF EntriesMean
  <2>5. QED
    BY <2>1, <2>2, <2>3, <2>4 DEF EntriesMean
<1>12. OncePerCommand'
  BY <1>1, <1>2 DEF OncePerCommand
<1>13. HandlersHold'
  <2>1. \A i \in Ids : kst'[i] = "free" => verdict'[i] = Undecided
    BY <1>2, <1>6, <1>7 DEF HandlersHold
  <2>2. \A i \in taken' : kst'[i] # "free" /\ verdict'[i] = Undecided
    BY <1>1, <1>2, <1>4, <1>6 DEF HandlersHold, TypeOK
  <2>3. QED
    BY <1>1, <1>2, <2>1, <2>2 DEF HandlersHold
<1>14. Balanced'
  <2>1. OpenEntries' = OpenEntries
    BY <1>1, <1>10 DEF OpenEntries
  <2>2. \A j \in Ids : (IsCmd(c) => j # id) => (j \in Lost' <=> j \in Lost)
    <3> SUFFICES ASSUME NEW j \in Ids, IsCmd(c) => j # id PROVE j \in Lost' <=> j \in Lost
      OBVIOUS
    <3>1. kst'[j] = kst[j]
      BY <1>6
    <3>2. \A o \in Offsets : (AnsweredEntry(o)' \/ NewEntry(o)') /\ ring'[o].id = j
                             <=> (AnsweredEntry(o) \/ NewEntry(o)) /\ ring[o].id = j
      BY <1>1 DEF AnsweredEntry, NewEntry
    <3>3. QED
      BY <1>1, <3>1, <3>2 DEF Lost
  <2>3. IsCmd(c) => id \notin Lost /\ id \notin Lost'
    BY <1>1, <1>7 DEF Lost
  <2>4. Lost' = Lost
    BY <2>2, <2>3 DEF Lost
  <2>5. QED
    BY <1>1, <1>2, <2>1, <2>4 DEF Balanced
<1>15. broken' = broken
  BY <1>3, <1>4
<1>16. QED
  BY <1>1, <1>2, <1>11, <1>12, <1>13, <1>14, <1>15 DEF RingInv

-----------------------------------------------------------------------------
(* The kernel queues an entry.                                             *)

\* An entry at head, or at start behind a padding entry at head, extends the
\* chain and changes the kind of no other entry.
LEMMA Extended ==
  ASSUME TypeOK, Chained, InOrder, NEW start \in Offsets,
         UNCHANGED <<tail, devTail, cleaned>>, head' \in Offsets,
         ring'[start].op # "NONE", ring'[start].len \in Nat, ring'[start].len >= 1,
         At(start) + ring'[start].len = At(head'), (start + ring'[start].len) % Size = head',
         \/ start = head
         \/ /\ start # head /\ ring'[head].op = "PAD" /\ ring'[head].len \in Nat
            /\ At(head) + ring'[head].len = At(start) /\ (head + ring'[head].len) % Size = start,
         \A o \in Offsets : o # start /\ o # head => ring'[o] = ring[o]
  PROVE  /\ Chained' /\ InOrder'
         /\ \A o \in Offsets : o # start => /\ AnsweredEntry(o)' <=> AnsweredEntry(o)
                                            /\ OpenEntry(o)' <=> OpenEntry(o)
                                            /\ NewEntry(o)' <=> NewEntry(o)
                                            /\ IsCmd(o)' <=> IsCmd(o)
                                            /\ IsCmd(o) => ring'[o] = ring[o]
         /\ ~IsCmd(start)
         /\ ~AnsweredEntry(start)' /\ ~OpenEntry(start)'
<1>1. /\ tail \in Offsets /\ head \in Offsets /\ devTail \in Offsets /\ cleaned \in Offsets
      /\ At(tail) \in Nat /\ At(devTail) \in Nat /\ At(head) \in Nat /\ Starts \subseteq Offsets
      /\ \A o \in Offsets : At(o) \in Nat /\ At(o) < Size /\ ring[o].len \in Nat /\ ring[o].len >= 1
  BY Places
<1>2. \A o \in Offsets : At(o)' = At(o)
  BY DEF At
<1>3. At(head)' = At(head') /\ At(tail)' = At(tail) /\ At(devTail)' = At(devTail)
  BY DEF At
<1>4. At(head) <= At(start) /\ At(start) < At(head') /\ At(start) \in Nat /\ At(head') \in Nat
  BY <1>1
<1>5. \A o \in Starts : At(o) < At(head) /\ o # start /\ o # head /\ ring'[o] = ring[o]
  <2> SUFFICES ASSUME NEW o \in Starts
               PROVE  At(o) < At(head) /\ o # start /\ o # head /\ ring'[o] = ring[o]
    OBVIOUS
  <2>1. At(o) < At(head)
    BY <1>1 DEF Chained
  <2>2. QED
    BY <1>1, <1>4, <2>1
<1>6. head \in Starts'
  BY <1>1 DEF Starts
<1>7. start \in Starts' /\ Starts \subseteq Starts' /\ Starts' \subseteq Starts \cup {start, head}
  BY <1>1, <1>5 DEF Starts
<1>8. Chained'
  <2>1. ASSUME NEW o \in Starts'
        PROVE  /\ At(o)' + ring'[o].len <= At(head)'
               /\ Advance(o)' \in Starts' \cup {head'}
               /\ \A p \in Starts' : At(o)' < At(p)' => At(o)' + ring'[o].len <= At(p)'
    <3>1. o \in Offsets /\ Starts' \subseteq Offsets
      BY DEF Starts
    <3>2. CASE o = start
      <4>1. At(o)' + ring'[o].len <= At(head)'
        BY <1>2, <1>3, <1>4, <3>1, <3>2
      <4>2. Advance(o)' = head'
        BY <3>2 DEF Advance
      <4>3. \A p \in Starts' : ~ (At(o)' < At(p)')
        BY <1>1, <1>2, <1>4, <1>5, <1>7, <3>1, <3>2
      <4>4. QED
        BY <4>1, <4>2, <4>3
    <3>3. CASE o = head /\ start # head
      <4>1. ring'[o].len \in Nat /\ At(o) + ring'[o].len = At(start)
        BY <3>3
      <4>2. At(o)' + ring'[o].len <= At(head)'
        BY <1>2, <1>3, <1>4, <3>1, <4>1
      <4>3. Advance(o)' = start
        BY <3>3 DEF Advance
      <4>4. ASSUME NEW p \in Starts', At(o)' < At(p)' PROVE p = start
        <5>1. At(o)' = At(head) /\ At(p)' = At(p) /\ At(p) \in Nat
          BY <1>1, <1>2, <3>1, <3>3
        <5>2. p \notin Starts /\ p # head
          BY <1>1, <1>5, <4>4, <5>1
        <5>3. QED
          BY <1>7, <5>2
      <4>5. \A p \in Starts' : At(o)' < At(p)' => At(o)' + ring'[o].len <= At(p)'
        BY <1>2, <1>4, <3>1, <4>1, <4>4
      <4>6. QED
        BY <1>7, <4>2, <4>3, <4>5
    <3>4. CASE o \in Starts
      <4>1. ring'[o] = ring[o] /\ At(o) + ring[o].len <= At(head) /\ Advance(o) \in Starts \cup {head}
        BY <1>5, <3>4 DEF Chained
      <4>2. At(o)' + ring'[o].len <= At(head)'
        BY <1>1, <1>2, <1>3, <1>4, <3>1, <4>1
      <4>3. Advance(o)' \in Starts'
        BY <1>6, <1>7, <4>1 DEF Advance
      <4>4. ASSUME NEW p \in Starts', At(o)' < At(p)' PROVE At(o)' + ring'[o].len <= At(p)'
        <5>1. At(o)' = At(o) /\ At(p)' = At(p) /\ At(p) \in Nat /\ At(o) \in Nat
          BY <1>1, <1>2, <3>1
        <5>2. CASE p \in Starts
          BY <3>4, <4>1, <4>4, <5>1, <5>2 DEF Chained
        <5>3. CASE p \in {start, head}
          BY <1>1, <1>4, <3>1, <4>1, <5>1, <5>3
        <5>4. QED
          BY <1>7, <5>2, <5>3
      <4>5. QED
        BY <4>2, <4>3, <4>4
    <3>5. QED
      BY <1>7, <3>2, <3>3, <3>4
  <2>2. cleaned' \in Starts' /\ tail' \in Starts' /\ devTail' \in Starts'
    BY <1>6, <1>7 DEF Chained
  <2>3. QED
    BY <2>1, <2>2 DEF Chained
<1>9. InOrder'
  BY <1>1, <1>3, <1>4 DEF InOrder
<1>10. ~IsCmd(start) /\ ~IsCmd(head)
  BY <1>1, <1>5, CmdIsStart
<1>11. ASSUME NEW o \in Offsets, o # start
       PROVE  /\ AnsweredEntry(o)' <=> AnsweredEntry(o)
              /\ OpenEntry(o)' <=> OpenEntry(o)
              /\ NewEntry(o)' <=> NewEntry(o)
              /\ IsCmd(o)' <=> IsCmd(o)
              /\ IsCmd(o) => ring'[o] = ring[o]
  <2>1. IsCmd(o)' <=> IsCmd(o)
    BY <1>10, <1>11 DEF IsCmd
  <2>2. IsCmd(o) => ring'[o] = ring[o]
    BY <1>10, <1>11
  <2>3. At(o)' = At(o)
    BY <1>2
  <2>4. QED
    BY <1>3, <2>1, <2>2, <2>3 DEF AnsweredEntry, OpenEntry, NewEntry
<1>12. ~AnsweredEntry(start)' /\ ~OpenEntry(start)'
  <2>1. At(start)' = At(start)
    BY <1>2
  <2>2. QED
    BY <1>1, <1>3, <1>4, <2>1 DEF AnsweredEntry, OpenEntry, InOrder
<1>13. QED
  BY <1>8, <1>9, <1>10, <1>11, <1>12

\* An entry libtcmu does not know changes nothing else.
LEMMA QueueOtherStep == RingInv /\ KernelQueueOther => RingInv'
<1> SUFFICES ASSUME RingInv, KernelQueueOther PROVE RingInv'
  OBVIOUS
<1> DEFINE other == [Blank EXCEPT !.op = "OTHER"]
           Entry == [op : {"NONE", "PAD", "CMD", "OTHER"}, id : Ids \cup {NoId},
                     len : 1 .. Size, bad : BOOLEAN, rsp : Answers \cup {Undecided}]
<1>1. /\ Dist(head, cleaned + Size - 1) >= 1 /\ ring' = [ring EXCEPT ![head] = other]
      /\ head' = (head + 1) % Size
      /\ UNCHANGED <<tail, devTail, cleaned, kst, reply, verdict, broken, taken, daemon, blocked>>
  BY DEF KernelQueueOther, kernVars
<1>2. /\ TypeOK /\ Chained /\ InOrder /\ EntriesMean /\ OncePerCommand /\ HandlersHold /\ Balanced
      /\ ~broken
  BY DEF RingInv
<1>3. cleaned \in Offsets /\ head \in Offsets /\ At(head) \in Nat
  BY <1>2, Places
<1>4. At(head) + 1 < Size
  <2>1. Size - 1 - At(head) >= 1
    BY <1>1, <1>3, RoomLeft DEF At
  <2>2. QED
    BY <1>3, <2>1, RingAssumption
<1>5. head' \in Offsets /\ At(head') = At(head) + 1
  BY <1>1, <1>3, <1>4, StepForward DEF At
<1>6. other.op = "OTHER" /\ other.len = 1 /\ other \in Entry
  BY BlankEntry
<1>7. ring \in [Offsets -> Entry]
  BY <1>2 DEF TypeOK
<1>8. ring' \in [Offsets -> Entry] /\ ring'[head] = other /\ \A o \in Offsets : o # head => ring'[o] = ring[o]
  <2> HIDE DEF other, Entry
  <2> QED BY <1>1, <1>3, <1>6, <1>7
<1>9. ring'[head].op = "OTHER" /\ ring'[head].len = 1
  BY <1>6, <1>8
<1>10. /\ Chained' /\ InOrder'
       /\ \A o \in Offsets : o # head => /\ AnsweredEntry(o)' <=> AnsweredEntry(o)
                                         /\ OpenEntry(o)' <=> OpenEntry(o)
                                         /\ NewEntry(o)' <=> NewEntry(o)
                                         /\ IsCmd(o)' <=> IsCmd(o)
       /\ ~IsCmd(head)
  BY <1>1, <1>2, <1>3, <1>5, <1>8, <1>9, Extended
<1>11. ring'[head].op # "CMD"
  BY <1>9
<1>12. \A o \in Offsets : /\ AnsweredEntry(o)' <=> AnsweredEntry(o)
                          /\ OpenEntry(o)' <=> OpenEntry(o)
                          /\ NewEntry(o)' <=> NewEntry(o)
                          /\ IsCmd(o)' <=> IsCmd(o)
                          /\ IsCmd(o) => ring'[o] = ring[o]
  BY <1>8, <1>10, <1>11 DEF AnsweredEntry, OpenEntry, NewEntry, IsCmd
<1>13. TypeOK'
  BY <1>1, <1>2, <1>5, <1>8 DEF TypeOK
<1>14. EntriesMean'
  <2>1. \A o \in Offsets : AnsweredEntry(o) \/ OpenEntry(o) \/ NewEntry(o) => ring'[o] = ring[o]
    BY <1>12 DEF AnsweredEntry, OpenEntry, NewEntry
  <2>2. \A o \in Offsets : IsCmd(o)' => ring'[o].id \in Ids
    BY <1>2, <1>12 DEF EntriesMean
  <2>3. \A o \in Offsets : AnsweredEntry(o)' =>
           /\ ring'[o].rsp \in Answers /\ ring'[o].rsp = verdict'[ring'[o].id]
           /\ kst'[ring'[o].id] # "free"
    BY <1>1, <1>2, <1>12, <2>1 DEF EntriesMean
  <2>4. \A o \in Offsets : OpenEntry(o)' => ring'[o].rsp = Undecided
    BY <1>2, <1>12, <2>1 DEF EntriesMean
  <2>5. \A o \in Offsets : NewEntry(o)' =>
           /\ ring'[o].rsp = Undecided /\ verdict'[ring'[o].id] = Undecided
           /\ kst'[ring'[o].id] # "free" /\ ring'[o].id \notin taken'
    <3> SUFFICES ASSUME NEW o \in Offsets, NewEntry(o)'
                 PROVE  /\ ring'[o].rsp = Undecided /\ verdict'[ring'[o].id] = Undecided
                        /\ kst'[ring'[o].id] # "free" /\ ring'[o].id \notin taken'
      OBVIOUS
    <3>1. NewEntry(o) /\ ring'[o] = ring[o]
      BY <1>12, <2>1
    <3>2. /\ ring[o].rsp = Undecided /\ verdict[ring[o].id] = Undecided
             /\ kst[ring[o].id] # "free" /\ ring[o].id \notin taken
      BY <1>2, <3>1 DEF EntriesMean
    <3>3. UNCHANGED <<verdict, kst, taken>>
      BY <1>1
    <3>4. QED
      BY <3>1, <3>2, <3>3
  <2>6. QED
    BY <2>2, <2>3, <2>4, <2>5 DEF EntriesMean
<1>15. OncePerCommand'
  BY <1>1, <1>2, <1>12 DEF OncePerCommand, AnsweredEntry, NewEntry
<1>16. HandlersHold'
  BY <1>1, <1>2 DEF HandlersHold
<1>17. Balanced'
  <2>1. OpenEntries' = OpenEntries
    BY <1>12 DEF OpenEntries
  <2>2. \A o \in Offsets : AnsweredEntry(o) \/ NewEntry(o) => ring'[o].id = ring[o].id
    BY <1>12 DEF AnsweredEntry, NewEntry
  <2>3. Lost' = Lost
    BY <1>1, <1>12, <2>2 DEF Lost
  <2>4. QED
    BY <1>1, <1>2, <2>1, <2>3 DEF Balanced
<1>18. QED
  BY <1>1, <1>2, <1>10, <1>13, <1>14, <1>15, <1>16, <1>17 DEF RingInv

\* A command enters the ring: it is new there, and no entry that is answered or
\* new belongs to the identifier yet.
LEMMA QueueStep ==
  ASSUME RingInv, NEW i \in Ids, NEW len \in 1 .. MaxLen, NEW bad \in BOOLEAN,
         KernelQueue(i, len, bad)
  PROVE  RingInv'
<1> DEFINE pad   == IF head + len > Size THEN Size - head ELSE 0
           begin == (head + pad) % Size
           cmd   == [op |-> "CMD", id |-> i, len |-> len, bad |-> bad, rsp |-> Undecided]
           fill  == [Blank EXCEPT !.op = "PAD", !.len = pad]
           Entry == [op : {"NONE", "PAD", "CMD", "OTHER"}, id : Ids \cup {NoId},
                     len : 1 .. Size, bad : BOOLEAN, rsp : Answers \cup {Undecided}]
<1>1. /\ kst[i] = "free" /\ Dist(head, cleaned + Size - 1) >= pad + len
      /\ ring' = [o \in Offsets |-> IF o = begin THEN cmd
                                    ELSE IF pad > 0 /\ o = head THEN fill ELSE ring[o]]
      /\ head' = (begin + len) % Size
      /\ kst' = [kst EXCEPT ![i] = "sent"] /\ reply' = [reply EXCEPT ![i] = Undecided]
      /\ UNCHANGED <<tail, devTail, cleaned, verdict, broken, taken, daemon, blocked>>
  BY DEF KernelQueue
<1>2. /\ TypeOK /\ Chained /\ InOrder /\ EntriesMean /\ OncePerCommand /\ HandlersHold /\ Balanced
      /\ ~broken
  BY DEF RingInv
<1>3. cleaned \in Offsets /\ head \in Offsets /\ At(head) \in Nat
  BY <1>2, Places
<1>4. /\ len \in Nat /\ len >= 1 /\ len < Size /\ len \in 1 .. Size
      /\ pad \in Nat /\ (pad > 0 => pad \in 1 .. Size)
  BY <1>3, RingAssumption DEF Offsets
<1>5. pad > 0 => begin = 0 /\ head # 0
  <2>1. Size % Size = 0
    BY RingAssumption, RemainderOnce
  <2>2. ASSUME pad > 0 PROVE head + pad = Size /\ head # 0
    BY <1>3, <1>4, <2>2, RingAssumption DEF Offsets
  <2>3. QED
    BY <2>1, <2>2
<1>6. At(head) + pad + len < Size
  <2>1. Size - 1 - At(head) >= pad + len
    BY <1>1, <1>3, RoomLeft DEF At
  <2>2. QED
    BY <1>3, <1>4, <2>1, RingAssumption
<1>7. begin \in Offsets /\ At(begin) = At(head) + pad
  <2>1. At(head) + pad < Size
    BY <1>3, <1>4, <1>6, RingAssumption
  <2> HIDE DEF pad
  <2>2. QED
    BY <1>3, <1>4, <2>1, StepForward DEF At
<1>8. pad = 0 => begin = head
  <2>1. ASSUME pad = 0 PROVE At(begin) = At(head)
    BY <1>3, <1>7, <2>1
  <2>2. QED
    BY <1>2, <1>3, <1>7, <2>1, Places
<1> HIDE DEF pad
<1>9. head' \in Offsets /\ At(head') = At(begin) + len
  <2>1. At(begin) + len < Size
    BY <1>3, <1>4, <1>6, <1>7, RingAssumption
  <2> HIDE DEF begin
  <2>2. QED
    BY <1>1, <1>3, <1>4, <1>7, <2>1, StepForward DEF At
<1>10. cmd \in Entry /\ cmd.op = "CMD" /\ cmd.id = i /\ cmd.len = len /\ cmd.rsp = Undecided
  BY <1>4
<1>11. pad > 0 => fill \in Entry /\ fill.op = "PAD" /\ fill.len = pad
  BY <1>4, BlankEntry
<1>12. pad > 0 => begin # head
  BY <1>5
<1>13. (head + pad) % Size = begin
  OBVIOUS
<1>14. PICK start \in Offsets :
         /\ start = begin /\ At(start) = At(head) + pad /\ (head + pad) % Size = start
         /\ (pad = 0 => start = head) /\ (pad > 0 => start # head)
         /\ At(head') = At(start) + len /\ (start + len) % Size = head'
         /\ ring' = [o \in Offsets |-> IF o = start THEN cmd
                                       ELSE IF pad > 0 /\ o = head THEN fill ELSE ring[o]]
  <2> HIDE DEF cmd, fill, begin
  <2> QED BY <1>1, <1>7, <1>8, <1>9, <1>12, <1>13
<1> HIDE DEF begin
<1>15. /\ ring'[start] = cmd
       /\ pad > 0 => ring'[head] = fill
       /\ \A o \in Offsets : o # start /\ o # head => ring'[o] = ring[o]
  <2> HIDE DEF cmd, fill
  <2> QED BY <1>3, <1>14
<1>16. ring' \in [Offsets -> Entry]
  <2>1. ring \in [Offsets -> Entry]
    BY <1>2 DEF TypeOK
  <2> HIDE DEF cmd, fill, Entry
  <2>2. QED
    BY <1>10, <1>11, <1>14, <2>1
<1>17. ring'[start].op = "CMD" /\ ring'[start].id = i /\ ring'[start].len = len /\ ring'[start].rsp = Undecided
  BY <1>10, <1>15
<1>18. \/ start = head
       \/ /\ start # head /\ ring'[head].op = "PAD" /\ ring'[head].len \in Nat
          /\ At(head) + ring'[head].len = At(start) /\ (head + ring'[head].len) % Size = start
  <2>1. CASE pad = 0
    BY <1>14, <2>1
  <2>2. CASE pad > 0
    <3>1. ring'[head].op = "PAD" /\ ring'[head].len = pad
      BY <1>11, <1>15, <2>2
    <3>2. QED
      BY <1>4, <1>14, <2>2, <3>1
  <2>3. QED
    BY <1>4, <2>1, <2>2
<1>19. /\ Chained' /\ InOrder'
       /\ \A o \in Offsets : o # start => /\ AnsweredEntry(o)' <=> AnsweredEntry(o)
                                          /\ OpenEntry(o)' <=> OpenEntry(o)
                                          /\ NewEntry(o)' <=> NewEntry(o)
                                          /\ IsCmd(o)' <=> IsCmd(o)
                                          /\ IsCmd(o) => ring'[o] = ring[o]
       /\ ~IsCmd(start)
       /\ ~AnsweredEntry(start)' /\ ~OpenEntry(start)'
  <2>1. /\ UNCHANGED <<tail, devTail, cleaned>> /\ head' \in Offsets /\ start \in Offsets
        /\ ring'[start].op # "NONE" /\ ring'[start].len \in Nat /\ ring'[start].len >= 1
        /\ At(start) + ring'[start].len = At(head') /\ (start + ring'[start].len) % Size = head'
    BY <1>1, <1>4, <1>14, <1>9, <1>14, <1>17
  <2>2. QED
    BY <1>2, <1>15, <1>18, <2>1, Extended
<1>20. TypeOK'
  <2>1. kst' \in [Ids -> {"free", "sent", "expired"}]
    BY <1>1, <1>2 DEF TypeOK
  <2>2. reply' \in [Ids -> Answers \cup {Undecided, TimedOut, Retry}]
    BY <1>1, <1>2 DEF TypeOK
  <2>3. QED
    BY <1>1, <1>2, <1>9, <1>14, <1>16, <2>1, <2>2 DEF TypeOK
<1>21. kst'[i] = "sent" /\ \A j \in Ids : j # i => kst'[j] = kst[j]
  BY <1>1, <1>2 DEF TypeOK
<1>22. verdict[i] = Undecided /\ i \notin taken
  BY <1>1, <1>2 DEF HandlersHold
<1>23. \A o \in Offsets : AnsweredEntry(o) \/ NewEntry(o) =>
         /\ IsCmd(o) /\ o # start /\ ring'[o] = ring[o] /\ ring[o].id \in Ids /\ ring[o].id # i
  BY <1>1, <1>2, <1>19 DEF EntriesMean, AnsweredEntry, NewEntry
<1>24. EntriesMean'
  <2>1. \A o \in Offsets : IsCmd(o)' => ring'[o].id \in Ids
    BY <1>2, <1>17, <1>19 DEF EntriesMean
  <2>2. \A o \in Offsets : AnsweredEntry(o)' =>
           /\ ring'[o].rsp \in Answers /\ ring'[o].rsp = verdict'[ring'[o].id]
           /\ kst'[ring'[o].id] # "free"
    <3> SUFFICES ASSUME NEW o \in Offsets, AnsweredEntry(o)'
                 PROVE  /\ ring'[o].rsp \in Answers /\ ring'[o].rsp = verdict'[ring'[o].id]
                        /\ kst'[ring'[o].id] # "free"
      OBVIOUS
    <3>1. AnsweredEntry(o)
      BY <1>19
    <3>2. ring'[o] = ring[o] /\ ring[o].id \in Ids /\ ring[o].id # i
      BY <1>23, <3>1
    <3>3. ring[o].rsp \in Answers /\ ring[o].rsp = verdict[ring[o].id] /\ kst[ring[o].id] # "free"
      BY <1>2, <3>1 DEF EntriesMean
    <3>4. verdict' = verdict
      BY <1>1
    <3>5. QED
      BY <1>21, <3>2, <3>3, <3>4
  <2>3. \A o \in Offsets : OpenEntry(o) => IsCmd(o)
    BY DEF OpenEntry
  <2>4. \A o \in Offsets : OpenEntry(o)' => ring'[o].rsp = Undecided
    BY <1>2, <1>19, <2>3 DEF EntriesMean
  <2>5. \A o \in Offsets : NewEntry(o)' =>
           /\ ring'[o].rsp = Undecided /\ verdict'[ring'[o].id] = Undecided
           /\ kst'[ring'[o].id] # "free" /\ ring'[o].id \notin taken'
    <3> SUFFICES ASSUME NEW o \in Offsets, NewEntry(o)'
                 PROVE  /\ ring'[o].rsp = Undecided /\ verdict'[ring'[o].id] = Undecided
                        /\ kst'[ring'[o].id] # "free" /\ ring'[o].id \notin taken'
      OBVIOUS
    <3>1. CASE o = start
      BY <1>1, <1>17, <1>21, <1>22, <3>1
    <3>2. CASE o # start
      <4>1. NewEntry(o)
        BY <1>19, <3>2
      <4>2. ring'[o] = ring[o] /\ ring[o].id \in Ids /\ ring[o].id # i
        BY <1>23, <4>1
      <4>3. /\ ring[o].rsp = Undecided /\ verdict[ring[o].id] = Undecided
             /\ kst[ring[o].id] # "free" /\ ring[o].id \notin taken
        BY <1>2, <4>1 DEF EntriesMean
      <4>4. verdict' = verdict /\ taken' = taken
        BY <1>1
      <4>5. QED
        BY <1>21, <4>2, <4>3, <4>4
    <3>3. QED
      BY <3>1, <3>2
  <2>6. QED
    BY <2>1, <2>2, <2>4, <2>5 DEF EntriesMean
<1>25. OncePerCommand'
  <2> SUFFICES ASSUME NEW o \in Offsets, NEW p \in Offsets,
                      AnsweredEntry(o)' \/ NewEntry(o)', AnsweredEntry(p)' \/ NewEntry(p)',
                      ring'[o].id = ring'[p].id
               PROVE  o = p
    BY DEF OncePerCommand
  <2>1. CASE o = start
    BY <1>17, <1>19, <1>23, <2>1
  <2>2. CASE p = start
    BY <1>17, <1>19, <1>23, <2>2
  <2>3. CASE o # start /\ p # start
    BY <1>2, <1>19, <1>23, <2>3 DEF OncePerCommand
  <2>4. QED
    BY <2>1, <2>2, <2>3
<1>26. HandlersHold'
  BY <1>1, <1>2, <1>21, <1>22 DEF HandlersHold, TypeOK
<1>27. NewEntry(start)'
  <2>1. At(start)' = At(start) /\ At(devTail)' = At(devTail) /\ At(devTail) \in Nat /\ At(start) \in Nat
    BY <1>1, <1>2, <1>14, Places DEF At
  <2>2. At(devTail) <= At(start)
    BY <1>2, <1>3, <1>4, <1>14, <2>1 DEF InOrder
  <2>3. QED
    BY <1>14, <1>17, <2>1, <2>2 DEF NewEntry, IsCmd
<1>28. Balanced'
  <2>1. OpenEntries' = OpenEntries
    BY <1>19 DEF OpenEntries, OpenEntry
  <2>2. i \notin Lost /\ i \notin Lost'
    BY <1>1, <1>14, <1>17, <1>27 DEF Lost
  <2>3. \A j \in Ids \ {i} : j \in Lost' <=> j \in Lost
    <3> SUFFICES ASSUME NEW j \in Ids \ {i} PROVE j \in Lost' <=> j \in Lost
      OBVIOUS
    <3>1. \A o \in Offsets : (AnsweredEntry(o)' \/ NewEntry(o)') /\ ring'[o].id = j
                             <=> (AnsweredEntry(o) \/ NewEntry(o)) /\ ring[o].id = j
      BY <1>17, <1>19, <1>23
    <3>2. QED
      BY <1>1, <1>21, <3>1 DEF Lost
  <2>4. Lost' = Lost
    BY <2>2, <2>3 DEF Lost
  <2>5. QED
    BY <1>1, <1>2, <2>1, <2>4 DEF Balanced
<1>29. QED
  BY <1>1, <1>2, <1>19, <1>20, <1>24, <1>25, <1>26, <1>28 DEF RingInv

-----------------------------------------------------------------------------
(* Start, the end of a daemon, and time.                                   *)

\* The ring a device starts with.
LEMMA RingInit == Init => RingInv
<1> SUFFICES ASSUME Init PROVE RingInv
  OBVIOUS
<1>0. /\ ring = [o \in Offsets |-> Blank] /\ head = 0 /\ tail = 0 /\ devTail = 0 /\ cleaned = 0
      /\ kst = [i \in Ids |-> "free"] /\ reply = [i \in Ids |-> Undecided]
      /\ verdict = [i \in Ids |-> Undecided] /\ broken = FALSE
      /\ taken = {} /\ daemon = "up" /\ blocked = FALSE
  BY DEF Init
<1>1. 0 \in Offsets /\ \A o \in Offsets : ring[o] = Blank
  BY <1>0, RingAssumption DEF Offsets
<1>2. \A o \in Offsets : ~IsCmd(o) /\ o \notin Starts
  BY <1>1, BlankEntry DEF IsCmd, Starts
<1>3. Starts = {}
  BY <1>2 DEF Starts
<1>4. \A o : ~AnsweredEntry(o) /\ ~OpenEntry(o) /\ ~NewEntry(o)
  BY <1>2 DEF AnsweredEntry, OpenEntry, NewEntry
<1>5. Chained
  BY <1>0, <1>3 DEF Chained
<1>6. InOrder
  BY <1>0, <1>1, AheadRange DEF InOrder, At
<1>7. EntriesMean /\ OncePerCommand
  BY <1>2, <1>4 DEF EntriesMean, OncePerCommand
<1>8. HandlersHold
  BY <1>0 DEF HandlersHold
<1>9. OpenEntries = {} /\ Lost = {} /\ taken = {}
  BY <1>0, <1>4 DEF OpenEntries, Lost
<1>10. Balanced
  BY <1>9, FS_EmptySet DEF Balanced
<1>11. TypeOK
  <2>1. ring \in [Offsets -> [op : {"NONE", "PAD", "CMD", "OTHER"}, id : Ids \cup {NoId},
                             len : 1 .. Size, bad : BOOLEAN, rsp : Answers \cup {Undecided}]]
    BY <1>0, BlankEntry
  <2>2. QED
    BY <1>0, <1>1, <2>1 DEF TypeOK
<1>12. QED
  BY <1>0, <1>5, <1>6, <1>7, <1>8, <1>10, <1>11 DEF RingInv

\* A step that leaves the ring and the offsets alone changes no entry's kind.
LEMMA SameRing ==
  ASSUME RingInv, UNCHANGED <<ring, head, tail, devTail, cleaned>>
  PROVE  /\ Chained' /\ InOrder' /\ OncePerCommand' /\ OpenEntries' = OpenEntries
         /\ \A o : /\ IsCmd(o)' <=> IsCmd(o)
                   /\ AnsweredEntry(o)' <=> AnsweredEntry(o)
                   /\ OpenEntry(o)' <=> OpenEntry(o)
                   /\ NewEntry(o)' <=> NewEntry(o)
<1>1. /\ \A o : At(o)' = At(o) /\ Advance(o)' = Advance(o) /\ (IsCmd(o)' <=> IsCmd(o))
      /\ Starts' = Starts /\ At(head)' = At(head) /\ At(tail)' = At(tail) /\ At(devTail)' = At(devTail)
  BY DEF At, Advance, IsCmd, Starts
<1>2. \A o : /\ AnsweredEntry(o)' <=> AnsweredEntry(o)
             /\ OpenEntry(o)' <=> OpenEntry(o)
             /\ NewEntry(o)' <=> NewEntry(o)
  BY <1>1 DEF AnsweredEntry, OpenEntry, NewEntry
<1>3. Chained' /\ InOrder'
  BY <1>1 DEF RingInv, Chained, InOrder
<1>4. OncePerCommand'
  BY <1>2 DEF RingInv, OncePerCommand
<1>5. OpenEntries' = OpenEntries
  BY <1>2 DEF OpenEntries
<1>6. QED
  BY <1>1, <1>2, <1>3, <1>4, <1>5

\* Giving up on a command, or leaving everything as it is for all commands,
\* keeps the invariant.
LEMMA KeepStep ==
  ASSUME RingInv, UNCHANGED <<ring, head, tail, devTail, cleaned, verdict, broken, taken, daemon>>,
         TypeOK', \A i \in Ids : kst'[i] = "free" <=> kst[i] = "free"
  PROVE  RingInv'
<1>1. /\ Chained' /\ InOrder' /\ OncePerCommand' /\ OpenEntries' = OpenEntries
      /\ \A o : /\ IsCmd(o)' <=> IsCmd(o)
                /\ AnsweredEntry(o)' <=> AnsweredEntry(o)
                /\ OpenEntry(o)' <=> OpenEntry(o)
                /\ NewEntry(o)' <=> NewEntry(o)
  BY SameRing
<1>2. EntriesMean'
  <2>1. \A o \in Offsets : AnsweredEntry(o) \/ NewEntry(o) => ring[o].id \in Ids
    BY DEF RingInv, EntriesMean, AnsweredEntry, NewEntry
  <2>2. QED
    BY <1>1, <2>1 DEF RingInv, EntriesMean
<1>3. HandlersHold'
  BY DEF RingInv, HandlersHold, TypeOK
<1>4. Lost' = Lost
  BY <1>1 DEF Lost
<1>5. Balanced'
  BY <1>1, <1>4 DEF RingInv, Balanced
<1>6. QED
  BY <1>1, <1>2, <1>3, <1>5 DEF RingInv

\* The handlers' commands are forgotten while no entry is open for an answer,
\* or when the ring will be reset before it is used again.
LEMMA ForgetStep ==
  ASSUME RingInv, UNCHANGED <<ring, head, tail, devTail, cleaned, kst, verdict, broken>>,
         TypeOK', taken' = {},
         taken = {} \/ (daemon' = "down" /\ ActionSupported),
         daemon' = "down" /\ ~ActionSupported => devTail = tail,
         (daemon' # "down" \/ ~ActionSupported) => (daemon # "down" \/ ~ActionSupported)
  PROVE  RingInv'
<1>1. /\ Chained' /\ InOrder' /\ OncePerCommand' /\ OpenEntries' = OpenEntries
      /\ \A o : /\ IsCmd(o)' <=> IsCmd(o)
                /\ AnsweredEntry(o)' <=> AnsweredEntry(o)
                /\ OpenEntry(o)' <=> OpenEntry(o)
                /\ NewEntry(o)' <=> NewEntry(o)
  BY SameRing
<1>2. EntriesMean'
  BY <1>1 DEF RingInv, EntriesMean
<1>3. HandlersHold'
  BY DEF RingInv, HandlersHold
<1>4. taken = {} => Lost' = Lost
  BY <1>1 DEF Lost
<1>5. Balanced'
  BY <1>1, <1>4 DEF RingInv, Balanced
<1>6. QED
  BY <1>1, <1>2, <1>3, <1>5 DEF RingInv

\* When tcmu_flush_device finds the ring empty, no handler holds a command.
LEMMA FlushedNothingHeld ==
  ASSUME RingInv, head = tail
  PROVE  devTail = tail /\ taken = {}
<1>1. TypeOK /\ InOrder
  BY DEF RingInv
<1>2. /\ tail \in Offsets /\ devTail \in Offsets /\ At(tail) \in Nat /\ At(devTail) \in Nat
  BY <1>1, Places
<1>3. At(devTail) = At(tail)
  BY <1>1, <1>2 DEF InOrder
<1>4. devTail = tail
  BY <1>1, <1>2, <1>3, Places
<1>5. OpenEntries = {}
  <2> SUFFICES ASSUME NEW o \in OpenEntries PROVE FALSE
    OBVIOUS
  <2>1. o \in Offsets /\ At(tail) <= At(o) /\ At(o) < At(tail)
    BY <1>4 DEF OpenEntries, OpenEntry
  <2>2. At(o) \in Nat
    BY <1>1, <2>1, Places
  <2>3. QED
    BY <1>2, <2>1, <2>2
<1>6. QED
  BY <1>4, <1>5, RoomToAnswer

\* reset_ring leaves the ring as a device starts with it.
LEMMA RestartStep == RingInv /\ Restart => RingInv'
<1> SUFFICES ASSUME RingInv, Restart PROVE RingInv'
  OBVIOUS
<1>1. /\ TypeOK /\ ~broken /\ daemon = "down" /\ daemon' = "up" /\ taken' = {} /\ blocked' = FALSE
      /\ broken' = broken /\ taken = {}
  BY DEF RingInv, Restart, kernVars, HandlersHold
<1>2. CASE ActionSupported
  <2>0. /\ ring' = [o \in Offsets |-> Blank] /\ head' = 0 /\ tail' = 0 /\ devTail' = 0 /\ cleaned' = 0
        /\ kst' = [i \in Ids |-> "free"] /\ verdict' = [i \in Ids |-> Undecided]
        /\ reply' = [i \in Ids |-> IF kst[i] = "sent" THEN Retry ELSE reply[i]]
        /\ taken' = {} /\ daemon' = "up"
    BY <1>1, <1>2 DEF Restart
  <2>1. 0 \in Offsets /\ \A o \in Offsets : ring'[o] = Blank
    BY <2>0, RingAssumption DEF Offsets
  <2>2. \A o \in Offsets : ~IsCmd(o)' /\ o \notin Starts'
    BY <2>1, BlankEntry DEF IsCmd, Starts
  <2>3. Starts' = {}
    BY <2>2 DEF Starts
  <2>4. \A o : ~AnsweredEntry(o)' /\ ~OpenEntry(o)' /\ ~NewEntry(o)'
    BY <2>2 DEF AnsweredEntry, OpenEntry, NewEntry
  <2>5. Chained'
    BY <2>0, <2>3 DEF Chained
  <2>6. InOrder'
    BY <2>0, <2>1, AheadRange DEF InOrder, At
  <2>7. EntriesMean' /\ OncePerCommand'
    BY <2>2, <2>4 DEF EntriesMean, OncePerCommand
  <2>8. HandlersHold'
    BY <2>0 DEF HandlersHold
  <2>9. OpenEntries' = {} /\ Lost' = {} /\ taken' = {}
    BY <2>0, <2>4 DEF OpenEntries, Lost
  <2>10. Balanced'
    BY <2>9, FS_EmptySet DEF Balanced
  <2>11. TypeOK'
    <3>1. ring' \in [Offsets -> [op : {"NONE", "PAD", "CMD", "OTHER"}, id : Ids \cup {NoId},
                                len : 1 .. Size, bad : BOOLEAN, rsp : Answers \cup {Undecided}]]
      BY <2>0, BlankEntry
    <3>2. reply \in [Ids -> Answers \cup {Undecided, TimedOut, Retry}]
      BY <1>1 DEF TypeOK
    <3>3. reply' \in [Ids -> Answers \cup {Undecided, TimedOut, Retry}]
      BY <2>0, <3>2
    <3>4. QED
      BY <1>1, <2>0, <2>1, <3>1, <3>3 DEF TypeOK
  <2>12. QED
    BY <1>1, <2>5, <2>6, <2>7, <2>8, <2>10, <2>11 DEF RingInv
<1>3. CASE ~ActionSupported
  <2>1. devTail' = tail /\ UNCHANGED <<ring, head, tail, cleaned, kst, reply, verdict, broken>>
    BY <1>3 DEF Restart, kernVars
  <2>2. devTail' = devTail
    BY <1>1, <1>3, <2>1 DEF RingInv, HandlersHold
  <2>3. TypeOK'
    BY <1>1, <2>1, <2>2 DEF TypeOK
  <2>4. QED
    BY <1>1, <1>3, <2>1, <2>2, <2>3, ForgetStep
<1>4. QED
  BY <1>2, <1>3

\* RingInv is inductive.
LEMMA RingStep == Resettable /\ RingInv /\ [Next]_vars => RingInv'
<1> SUFFICES ASSUME Resettable, RingInv, [Next]_vars PROVE RingInv'
  OBVIOUS
<1>1. TypeOK
  BY DEF RingInv
<1>2. ASSUME NEW i \in Ids, NEW len \in 1 .. MaxLen, NEW bad \in {FALSE} \cup {"badcdb" \in Faults},
             KernelQueue(i, len, bad)
      PROVE  RingInv'
  <2>1. bad \in BOOLEAN
    <3>1. CASE "badcdb" \in Faults
      BY <3>1
    <3>2. CASE "badcdb" \notin Faults
      <4>1. ("badcdb" \in Faults) = FALSE
        BY <3>2
      <4>2. bad \in {FALSE} \cup {FALSE}
        BY <4>1, Zenon
      <4>3. QED
        BY <4>2
    <3>3. QED
      BY <3>1, <3>2
  <2>2. QED
    BY <1>2, <2>1, QueueStep
<1>3. CASE KernelQueueOther
  BY <1>3, QueueOtherStep
<1>4. CASE KernelHandleCompletion
  BY <1>4, HandleStep
<1>5. ASSUME NEW i \in Ids, KernelExpire(i) PROVE RingInv'
  <2>1. kst \in [Ids -> {"free", "sent", "expired"}]
    BY <1>1 DEF TypeOK
  <2>2. /\ kst[i] = "sent" /\ kst' = [kst EXCEPT ![i] = "expired"] /\ reply' = [reply EXCEPT ![i] = TimedOut]
        /\ UNCHANGED <<ring, head, tail, devTail, cleaned, verdict, broken, taken, daemon, blocked>>
    BY <1>5 DEF KernelExpire
  <2>3. \A j \in Ids : kst'[j] = "free" <=> kst[j] = "free"
    BY <2>1, <2>2
  <2>4. kst' \in [Ids -> {"free", "sent", "expired"}]
    BY <2>1, <2>2
  <2>5. reply' \in [Ids -> Answers \cup {Undecided, TimedOut, Retry}]
    BY <1>1, <2>2 DEF TypeOK
  <2>6. TypeOK'
    BY <1>1, <2>2, <2>4, <2>5 DEF TypeOK
  <2>7. QED
    BY <2>2, <2>3, <2>6, KeepStep
<1>6. CASE GetNextCommand
  BY <1>6, GetStep
<1>7. ASSUME NEW i \in Ids, NEW s \in Statuses, CommandComplete(i, s) PROVE RingInv'
  BY <1>7, CompleteStep
<1>8. CASE Crash
  <2>1. ActionSupported
    BY <1>8 DEF Crash, Resettable
  <2>2. TypeOK'
    BY <1>1, <1>8 DEF Crash, kernVars, TypeOK
  <2>3. QED
    BY <1>8, <2>1, <2>2, ForgetStep DEF Crash, kernVars
<1>9. CASE ShutdownBegin
  <2>1. TypeOK'
    BY <1>1, <1>9, RingAssumption DEF ShutdownBegin, kernVars, TypeOK
  <2>2. /\ Chained' /\ InOrder' /\ OncePerCommand' /\ OpenEntries' = OpenEntries
        /\ \A o : /\ IsCmd(o)' <=> IsCmd(o)
                  /\ AnsweredEntry(o)' <=> AnsweredEntry(o)
                  /\ OpenEntry(o)' <=> OpenEntry(o)
                  /\ NewEntry(o)' <=> NewEntry(o)
    BY <1>9, SameRing DEF ShutdownBegin
  <2>3. UNCHANGED <<ring, kst, verdict, broken, taken>> /\ daemon = "up" /\ daemon' = "flushing"
    BY <1>9 DEF ShutdownBegin, kernVars
  <2>4. EntriesMean'
    BY <2>2, <2>3 DEF RingInv, EntriesMean
  <2>5. HandlersHold'
    BY <2>3 DEF RingInv, HandlersHold
  <2>6. Lost' = Lost
    BY <2>2, <2>3 DEF Lost
  <2>7. Balanced'
    BY <2>2, <2>3, <2>6 DEF RingInv, Balanced
  <2>8. QED
    BY <2>1, <2>2, <2>3, <2>4, <2>5, <2>7 DEF RingInv
<1>10. CASE ShutdownEnd
  <2>1. devTail = tail /\ taken = {}
    BY <1>10, FlushedNothingHeld DEF ShutdownEnd
  <2>2. TypeOK'
    BY <1>1, <1>10 DEF ShutdownEnd, kernVars, TypeOK
  <2>3. QED
    BY <1>10, <2>1, <2>2, ForgetStep DEF ShutdownEnd, kernVars
<1>11. CASE Restart
  BY <1>11, RestartStep
<1>12. CASE UNCHANGED vars
  <2>1. TypeOK'
    BY <1>1, <1>12 DEF vars, TypeOK
  <2>2. QED
    BY <1>12, <2>1, KeepStep DEF vars
<1>13. QED
  BY <1>2, <1>3, <1>4, <1>5, <1>6, <1>7, <1>8, <1>9, <1>10, <1>11, <1>12 DEF Next

\* The invariant holds throughout, where an interrupted daemon finds its ring
\* reset.
LEMMA RingAlways ==
  ASSUME Resettable
  PROVE  Spec => []RingInv
<1>1. RingInv /\ [Next]_vars => RingInv'
  BY RingStep
<1>2. QED
  BY <1>1, RingInit, PTL DEF Spec

-----------------------------------------------------------------------------
(* The ring is consistent.                                                 *)

\* The invariant contains what RingConsistent says.
LEMMA InvIsConsistent == RingInv => RingConsistent
<1> SUFFICES ASSUME RingInv PROVE RingConsistent
  OBVIOUS
<1>1. TypeOK /\ InOrder /\ EntriesMean /\ Balanced /\ ~broken /\ HandlersHold
  BY DEF RingInv
<1>2. /\ tail \in Offsets /\ head \in Offsets /\ devTail \in Offsets /\ cleaned \in Offsets
      /\ At(tail) \in Nat /\ At(devTail) \in Nat /\ At(head) \in Nat
      /\ \A o \in Offsets : At(o) \in Nat
  BY <1>1, Places
<1>3. \A o \in Offsets : Dist(cleaned, o) = At(o)
  BY <1>2, DistIsAhead DEF At
<1>4. PointersOrdered
  BY <1>1, <1>2, <1>3 DEF PointersOrdered, InOrder
<1>5. AnswersOverwriteFetched
  <2> SUFFICES ASSUME taken # {}
               PROVE  /\ ring[CompletionTarget].op = "CMD"
                      /\ Dist(tail, CompletionTarget) < Dist(tail, devTail)
    BY DEF AnswersOverwriteFetched
  <2>1. OpenEntry(CompletionTarget)
    BY RoomToAnswer, TargetIsOpen
  <2>2. PICK e \in Offsets : e = CompletionTarget /\ OpenEntry(e)
    BY <2>1 DEF OpenEntry
  <2>3. ring[e].op = "CMD" /\ At(tail) <= At(e) /\ At(e) < At(devTail)
    BY <2>2 DEF OpenEntry, IsCmd
  <2>4. Dist(tail, e) < Dist(tail, devTail)
    BY <1>1, <1>2, <2>3, FromTail
  <2>5. QED
    BY <2>2, <2>3, <2>4
<1>6. \A o \in Offsets : Fetched(o) <=> At(tail) <= At(o) /\ At(o) < At(devTail)
  BY <1>2, <1>3 DEF Fetched
<1>7. {o \in Offsets : ring[o].op = "CMD" /\ Fetched(o)} = OpenEntries
  BY <1>6 DEF OpenEntries, OpenEntry, IsCmd
<1>8. {i \in Ids : Dropped(i)} = Lost
  <2> SUFFICES ASSUME NEW i \in Ids PROVE Dropped(i) <=> i \in Lost
    BY DEF Lost
  <2>1. \A o \in Offsets : ring[o].op = "CMD" /\ (ring[o].rsp # Undecided \/ ~Fetched(o))
                           <=> AnsweredEntry(o) \/ NewEntry(o)
    <3> SUFFICES ASSUME NEW o \in Offsets, IsCmd(o)
                 PROVE  ring[o].rsp # Undecided \/ ~Fetched(o) <=> AnsweredEntry(o) \/ NewEntry(o)
      BY DEF IsCmd, AnsweredEntry, NewEntry
    <3>1. AnsweredEntry(o) => ring[o].rsp # Undecided
      BY <1>1, OutcomeDecided DEF EntriesMean
    <3>2. NewEntry(o) => ~Fetched(o)
      BY <1>2, <1>6 DEF NewEntry
    <3>3. OpenEntry(o) => ring[o].rsp = Undecided /\ Fetched(o)
      BY <1>1, <1>6 DEF EntriesMean, OpenEntry
    <3>4. AnsweredEntry(o) \/ OpenEntry(o) \/ NewEntry(o)
      BY <1>2 DEF AnsweredEntry, OpenEntry, NewEntry
    <3>5. ~ (OpenEntry(o) /\ (AnsweredEntry(o) \/ NewEntry(o)))
      BY <1>2 DEF AnsweredEntry, OpenEntry, NewEntry
    <3>6. QED
      BY <3>1, <3>2, <3>3, <3>4, <3>5
  <2>2. QED
    BY <2>1 DEF Dropped, Lost
<1>9. EntryPerCommand
  BY <1>1, <1>7, <1>8 DEF EntryPerCommand, Balanced
<1>10. QED
  BY <1>1, <1>4, <1>5, <1>9 DEF RingConsistent, RingNotBroken

\* The ring is consistent for every size of it, whatever the lengths of entries,
\* the order of completions, dropped and unknown entries, timeouts, crashes and
\* shutdowns: the offsets keep their order, tcmulib_command_complete only ever
\* overwrites an entry that was fetched, there is such an entry for each command
\* in the handlers' hands, and the kernel never reads an answer for a command it
\* does not have open.
THEOREM RingStaysConsistent ==
  ASSUME Resettable
  PROVE  Spec => []RingConsistent
BY InvIsConsistent, RingAlways, PTL

-----------------------------------------------------------------------------
(* The ring implements the service.                                        *)

\* Where the command of an identifier is in its life, for every state of it.
LEMMA StageValues ==
  ASSUME TypeOK, NEW i \in Ids
  PROVE  /\ kst[i] = "free" <=> StageOf(i) = "idle"
         /\ kst[i] = "sent" /\ verdict[i] = Undecided <=> StageOf(i) = "open"
         /\ kst[i] = "sent" /\ verdict[i] # Undecided <=> StageOf(i) = "decided"
         /\ kst[i] = "expired" /\ verdict[i] = Undecided <=> StageOf(i) = "expired"
         /\ kst[i] = "expired" /\ verdict[i] # Undecided <=> StageOf(i) = "late"
<1>1. kst[i] \in {"free", "sent", "expired"}
  BY DEF TypeOK
<1>2. QED
  BY <1>1 DEF StageOf

\* The same in the next state.
LEMMA StageValuesNext ==
  ASSUME TypeOK', NEW i \in Ids
  PROVE  /\ kst'[i] = "free" <=> StageOf(i)' = "idle"
         /\ kst'[i] = "sent" /\ verdict'[i] = Undecided <=> StageOf(i)' = "open"
         /\ kst'[i] = "sent" /\ verdict'[i] # Undecided <=> StageOf(i)' = "decided"
         /\ kst'[i] = "expired" /\ verdict'[i] = Undecided <=> StageOf(i)' = "expired"
         /\ kst'[i] = "expired" /\ verdict'[i] # Undecided <=> StageOf(i)' = "late"
<1>1. kst'[i] \in {"free", "sent", "expired"}
  BY DEF TypeOK
<1>2. QED
  BY <1>1 DEF StageOf

\* A command whose state and verdict stay is where it was.
LEMMA StageKept ==
  ASSUME NEW i \in Ids, kst'[i] = kst[i], verdict'[i] = verdict[i]
  PROVE  StageOf(i)' = StageOf(i)
BY DEF StageOf

\* The initial states of the ring are initial states of the service.
LEMMA ServiceInit == Init => Service!Init
BY DEF Init, Service!Init, StageOf

\* Every step of the ring is a step of the service or leaves it alone.
LEMMA ServiceStep ==
  RingInv /\ RingInv' /\ [Next]_vars => [Service!Next]_(Service!svcVars)
<1> SUFFICES ASSUME RingInv, RingInv', [Next]_vars
             PROVE  Service!Next \/ UNCHANGED Service!svcVars
  OBVIOUS
<1> DEFINE stage == [i \in Ids |-> StageOf(i)]
<1>1. TypeOK /\ TypeOK' /\ HandlersHold
  BY DEF RingInv
<1>2. /\ kst \in [Ids -> {"free", "sent", "expired"}] /\ verdict \in [Ids -> Answers \cup {Undecided}]
  BY <1>1 DEF TypeOK
<1>3. ASSUME NEW i \in Ids, NEW v, \A j \in Ids : j # i => StageOf(j)' = StageOf(j), StageOf(i)' = v
      PROVE  stage' = [stage EXCEPT ![i] = v]
  BY <1>3
<1>4. ASSUME UNCHANGED <<kst, verdict, reply>> PROVE UNCHANGED Service!svcVars
  BY <1>4, StageKept DEF Service!svcVars, StageOf
<1>5. ASSUME NEW i \in Ids, NEW len \in 1 .. MaxLen, NEW bad, KernelQueue(i, len, bad)
      PROVE  Service!Submit(i)
  <2>1. /\ kst[i] = "free" /\ kst' = [kst EXCEPT ![i] = "sent"] /\ reply' = [reply EXCEPT ![i] = Undecided]
        /\ verdict' = verdict
    BY <1>5 DEF KernelQueue
  <2>2. StageOf(i) = "idle" /\ verdict[i] = Undecided
    BY <1>1, <2>1, StageValues DEF HandlersHold
  <2>3. StageOf(i)' = "open"
    BY <1>1, <1>2, <2>1, <2>2, StageValuesNext
  <2>4. \A j \in Ids : j # i => StageOf(j)' = StageOf(j)
    BY <1>2, <2>1, StageKept
  <2>5. QED
    BY <1>3, <2>1, <2>2, <2>3, <2>4 DEF Service!Submit
<1>6. ASSUME NEW i \in Ids, KernelExpire(i) PROVE Service!Expire(i)
  <2>1. /\ kst[i] = "sent" /\ kst' = [kst EXCEPT ![i] = "expired"] /\ reply' = [reply EXCEPT ![i] = TimedOut]
        /\ verdict' = verdict
    BY <1>6 DEF KernelExpire
  <2>2. /\ StageOf(i) \in {"open", "decided"}
        /\ StageOf(i)' = IF StageOf(i) = "open" THEN "expired" ELSE "late"
    BY <1>1, <1>2, <2>1, StageValues, StageValuesNext
  <2>3. \A j \in Ids : j # i => StageOf(j)' = StageOf(j)
    BY <1>2, <2>1, StageKept
  <2>4. QED
    BY <1>3, <2>1, <2>2, <2>3 DEF Service!Expire
<1>7. ASSUME NEW i \in Ids, NEW s \in Statuses, CommandComplete(i, s) PROVE Service!Decide(i)
  <2>1. i \in taken /\ verdict' = [verdict EXCEPT ![i] = Outcome(s)] /\ kst' = kst /\ reply' = reply
    BY <1>7 DEF CommandComplete
  <2>2. kst[i] # "free" /\ verdict[i] = Undecided /\ Outcome(s) \in Answers /\ Outcome(s) # Undecided
    BY <1>1, <2>1, OutcomeDecided DEF HandlersHold, Answers
  <2>3. verdict'[i] # Undecided
    BY <1>2, <2>1, <2>2
  <2>4. /\ StageOf(i) \in {"open", "expired"}
        /\ StageOf(i)' = IF StageOf(i) = "open" THEN "decided" ELSE "late"
    BY <1>1, <1>2, <2>1, <2>2, <2>3, StageValues, StageValuesNext
  <2>5. \A j \in Ids : j # i => StageOf(j)' = StageOf(j)
    BY <1>2, <2>1, StageKept
  <2>6. QED
    BY <1>3, <2>1, <2>2, <2>4, <2>5 DEF Service!Decide
<1>8. ASSUME KernelHandleCompletion
      PROVE  (\E i \in Ids : Service!Answer(i)) \/ UNCHANGED Service!svcVars
  <2>1. CASE ~IsCmd(cleaned)
    BY <1>4, <1>8, <2>1, HandleCommands
  <2>2. CASE IsCmd(cleaned)
    <3>1. PICK i \in Ids :
            /\ kst[i] # "free" /\ verdict[i] \in Answers
            /\ kst' = [kst EXCEPT ![i] = "free"] /\ verdict' = [verdict EXCEPT ![i] = Undecided]
            /\ reply' = IF kst[i] = "sent" THEN [reply EXCEPT ![i] = verdict[i]] ELSE reply
      BY <1>8, <2>2, HandleCommands
    <3>2. verdict[i] # Undecided
      BY <3>1, OutcomeDecided
    <3>3. StageOf(i) \in {"decided", "late"} /\ (kst[i] = "sent" <=> StageOf(i) = "decided")
      BY <1>1, <1>2, <3>1, <3>2, StageValues
    <3>4. StageOf(i)' = "idle"
      BY <1>1, <1>2, <3>1, StageValuesNext
    <3>5. \A j \in Ids : j # i => StageOf(j)' = StageOf(j)
      BY <1>2, <3>1, StageKept
    <3>6. Service!Answer(i)
      BY <1>3, <3>1, <3>3, <3>4, <3>5 DEF Service!Answer
    <3>7. QED
      BY <3>6
  <2>3. QED
    BY <2>1, <2>2
<1>9. ASSUME Restart PROVE Service!Reset \/ UNCHANGED Service!svcVars
  <2>1. CASE ~ActionSupported
    BY <1>4, <1>9, <2>1 DEF Restart, kernVars
  <2>2. CASE ActionSupported
    <3>1. /\ kst' = [i \in Ids |-> "free"] /\ verdict' = [i \in Ids |-> Undecided]
          /\ reply' = [i \in Ids |-> IF kst[i] = "sent" THEN Retry ELSE reply[i]]
      BY <1>9, <2>2 DEF Restart
    <3>2. \A i \in Ids : StageOf(i)' = "idle"
      BY <1>1, <3>1, StageValuesNext
    <3>3. \A i \in Ids : kst[i] = "sent" <=> StageOf(i) \in {"open", "decided"}
      BY <1>1, StageValues
    <3>4. QED
      BY <3>1, <3>2, <3>3 DEF Service!Reset
  <2>3. QED
    BY <2>1, <2>2
<1>10. CASE KernelQueueOther \/ GetNextCommand \/ Crash \/ ShutdownBegin \/ ShutdownEnd \/ UNCHANGED vars
  BY <1>4, <1>10
  DEF KernelQueueOther, GetNextCommand, Crash, ShutdownBegin, ShutdownEnd, vars, kernVars
<1>11. QED
  BY <1>5, <1>6, <1>7, <1>8, <1>9, <1>10 DEF Next, Service!Next

\* The command ring implements CommandService: every command is answered at most
\* once, with the outcome its own handler gave to tcmulib_command_complete,
\* although that answer is written to whichever entry is the oldest; a command
\* the kernel gave up on gets no second answer.
THEOREM RingImplementsService ==
  ASSUME Resettable
  PROVE  Spec => ImplementsService
<1>1. RingInv /\ RingInv' /\ [Next]_vars => [Service!Next]_(Service!svcVars)
  BY ServiceStep
<1>2. Spec => []RingInv
  BY RingAlways
<1>3. QED
  BY <1>1, <1>2, ServiceInit, PTL DEF Spec, ImplementsService, Service!Spec

=============================================================================
