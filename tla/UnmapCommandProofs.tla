------------------------- MODULE UnmapCommandProofs -------------------------
(***************************************************************************)
(* Proofs about UnmapCommand, for every device size, word size,            *)
(* granularity, alignment and command: it is answered once and after all   *)
(* its parts, no block is unmapped that the command does not name, and     *)
(* GOOD means that all of them are (a partly started WRITE SAME excepted). *)
(***************************************************************************)
EXTENDS UnmapCommand, FiniteSetTheorems, TLAPS

\* What a part is, and the blocks it stands for.
Part == [lba : Nat, len : Nat, at : {"queued", "ok", "failed", "done"}]
BlocksIn(q) == q.lba .. q.lba + q.len - 1
Given == UNION {BlocksIn(parts[p]) : p \in DOMAIN parts}

Typed == TypeOK /\ parts \in Seq(Part)

\* refcount is the number of parts whose callback has not run.
Counted == refcount = Cardinality(Outstanding)

\* What the local variables of the command processor mean at each place, and
\* that nothing has ended while it holds the lock: a callback waits for it.
Staged ==
    /\ pc = "start" => parts = <<>> /\ i = 1
    /\ pc \notin {"answer", "returned"} =>
         answers = <<>> /\ ~freed /\ ~error /\ status = "OK"
         /\ \A p \in DOMAIN parts : parts[p].at # "done"
    /\ pc \in {"desc", "split", "unlock"} => Len(req.descs) > 0
    /\ pc = "desc" => req.kind = "unmap" /\ i <= Len(req.descs) + 1
    /\ pc = "split" => /\ i \in DOMAIN req.descs /\ nlbas > 0 /\ lbas <= nlbas
                       /\ req.descs[i].lba <= lba /\ lba + nlbas <= NumLbas
                       /\ lba + nlbas = req.descs[i].lba + req.descs[i].nlbas
    /\ ret = "ASYNC" => parts # <<>>

\* The handler is given only blocks that the command names and the device has.
Within ==
    /\ \A p \in DOMAIN parts : BlocksIn(parts[p]) \subseteq Requested \cap (0 .. NumLbas - 1)
    /\ UnmapsOnlyRequested

\* It is given all the blocks the loops have passed, and all blocks of the
\* command if these came to their end.
Covered ==
    /\ pc \in {"desc", "split"} =>
         \A k \in DOMAIN req.descs : k < i => BlocksOf(req.descs[k]) \subseteq Given
    /\ pc = "split" => req.descs[i].lba .. lba - 1 \subseteq Given
    /\ pc \in {"unlock", "returned"} /\ ret = "ASYNC" => Requested \subseteq Given

\* A part that ended has unmapped its blocks or left its error behind.
Executed ==
    \A p \in DOMAIN parts :
      /\ parts[p].at = "ok" => BlocksIn(parts[p]) \subseteq unmapped
      /\ parts[p].at = "done" => error \/ BlocksIn(parts[p]) \subseteq unmapped

\* Who answers: the command processor if no part was started, else the last part.
AnswersInTurn ==
    /\ pc \in {"answer", "returned"} /\ freed => refcount = 0
    /\ pc = "answer" => /\ req.kind = "writesame" /\ ret # "ASYNC" /\ error
                        /\ parts = <<>> => answers = <<>>
    /\ pc = "returned" =>
         IF PartlyStarted THEN answers # <<>>
         ELSE IF refcount > 0 THEN answers = <<>> ELSE Len(answers) = 1

\* What the command's result may hide: an error is never forgotten, and OK stays
\* for a command whose last descriptor is empty only.
Verdict ==
    /\ error => status # "ASYNC"
    /\ pc = "desc" /\ ret = "OK" => i = 1 \/ req.descs[i - 1].nlbas = 0
    /\ pc \in {"unlock", "answer"} /\ ret = "OK" => EmptyTail
    /\ pc = "returned" /\ error => status # "OK" \/ EmptyTail \/ answers # <<>>
    /\ pc = "returned" /\ ~error /\ parts # <<>> => ret = "ASYNC"

UnmapInv ==
    /\ Typed /\ Counted /\ Staged /\ Within
    /\ Covered /\ Executed /\ AnswersInTurn /\ Verdict /\ OkMeansUnmapped

-----------------------------------------------------------------------------
(* Facts about the operators.                                              *)

\* What the assumption says of the command at hand.
LEMMA RequestKnown ==
  ASSUME req \in Requests
  PROVE  /\ req.kind \in {"unmap", "writesame"} /\ req.head \in Heads
         /\ req.descs \in Seq(Desc) /\ (req.kind = "writesame" => Len(req.descs) = 1)
         /\ DOMAIN req.descs = 1 .. Len(req.descs) /\ Len(req.descs) \in Nat
         /\ \A k \in DOMAIN req.descs : /\ req.descs[k].lba \in 0 .. Word - 1
                                        /\ req.descs[k].nlbas \in 0 .. Word - 1
<1>1. /\ req.kind \in {"unmap", "writesame"} /\ req.head \in Heads
      /\ req.descs \in Seq(Desc) /\ (req.kind = "writesame" => Len(req.descs) = 1)
  BY UnmapAssumption
<1>2. DOMAIN req.descs = 1 .. Len(req.descs) /\ Len(req.descs) \in Nat
  BY <1>1
<1>3. \A k \in DOMAIN req.descs : req.descs[k] \in Desc
  BY <1>1
<1>4. QED
  BY <1>1, <1>2, <1>3 DEF Desc

\* The test of check_lbas, in 64 bits: a sum that wraps around is less than
\* its first term, so a range that passes ends on the device.
LEMMA RangeChecked ==
  ASSUME NEW start \in 0 .. Word - 1, NEW cnt \in 0 .. Word - 1, CheckLbas(start, cnt)
  PROVE  start + cnt <= NumLbas
<1>1. Word \in Nat /\ Word > 0
  BY UnmapAssumption
<1>2. CASE start + cnt < Word
  <2>1. (start + cnt) % Word = start + cnt
    BY <1>1, <1>2
  <2>2. QED
    BY <2>1 DEF CheckLbas
<1>3. CASE start + cnt >= Word
  <2>1. start + cnt - Word \in 0 .. Word - 1
    BY <1>1, <1>3
  <2>2. (start + cnt) % Word = start + cnt - Word
    BY <1>1, <2>1
  <2>3. start + cnt - Word < start
    BY <1>1
  <2>4. QED
    BY <1>1, <2>2, <2>3 DEF CheckLbas
<1>4. QED
  BY <1>1, <1>2, <1>3

\* The first part is not longer than the range.
LEMMA FirstLbasBounded ==
  ASSUME NEW start \in 0 .. Word - 1, NEW cnt \in 0 .. Word - 1
  PROVE  FirstLbas(start, cnt) \in Nat /\ FirstLbas(start, cnt) <= cnt
<1> DEFINE off == IF Align = 0 THEN start ELSE start % Align
           first == (Gran + Word - off) % Word
<1>1. Word \in Nat /\ Word > 0 /\ Gran \in 1 .. Word - 1 /\ Align \in {0, Gran}
  BY UnmapAssumption
<1>2. off \in 0 .. Word - 1
  <2>1. CASE Align = 0
    BY <2>1
  <2>2. CASE Align = Gran
    BY <1>1, <2>2
  <2>3. QED
    BY <1>1, <2>1, <2>2
<1>3. Gran + Word - off \in Nat
  BY <1>1, <1>2
<1>4. first \in Nat
  BY <1>1, <1>3
<1>5. FirstLbas(start, cnt) = Lesser(first, cnt)
  BY DEF FirstLbas
<1> HIDE DEF first, off
<1>6. QED
  BY <1>4, <1>5 DEF Lesser

\* Every descriptor's blocks are requested, and nothing else is.
LEMMA RequestedBlocks ==
  /\ \A k \in DOMAIN req.descs : BlocksOf(req.descs[k]) \subseteq Requested
  /\ \A b \in Requested : \E k \in DOMAIN req.descs : b \in BlocksOf(req.descs[k])
BY DEF Requested

\* The same for the parts.
LEMMA GivenBlocks ==
  /\ \A p \in DOMAIN parts : BlocksIn(parts[p]) \subseteq Given
  /\ \A b \in Given : \E p \in DOMAIN parts : b \in BlocksIn(parts[p])
BY DEF Given

\* The parts that are outstanding are finitely many.
LEMMA OutstandingFinite ==
  ASSUME parts \in Seq(Part)
  PROVE  /\ IsFiniteSet(Outstanding) /\ Cardinality(Outstanding) \in Nat
         /\ Outstanding # {} => Cardinality(Outstanding) > 0
<1>1. DOMAIN parts = 1 .. Len(parts) /\ Len(parts) \in Nat
  OBVIOUS
<1>2. IsFiniteSet(DOMAIN parts)
  BY <1>1, FS_Interval
<1>3. IsFiniteSet(Outstanding)
  BY <1>2, FS_Subset DEF Outstanding
<1>4. QED
  BY <1>3, FS_CardinalityType, FS_EmptySet

-----------------------------------------------------------------------------
(* Steps of the command processor that start no part.                      *)

\* What stays true of the parts and the blocks when a step touches neither.
LEMMA PartsKept ==
  ASSUME UnmapInv, UNCHANGED <<req, parts, unmapped, refcount>>
  PROVE  /\ Outstanding' = Outstanding /\ Given' = Given /\ Requested' = Requested
         /\ EmptyTail' = EmptyTail /\ Counted' /\ Within'
<1>1. Outstanding' = Outstanding /\ Given' = Given /\ Requested' = Requested /\ EmptyTail' = EmptyTail
  BY DEF Outstanding, Given, Requested, EmptyTail
<1>2. Counted'
  BY <1>1 DEF UnmapInv, Counted
<1>3. Within'
  BY <1>1 DEF UnmapInv, Within, UnmapsOnlyRequested
<1>4. QED
  BY <1>1, <1>2, <1>3

\* Where align_and_split_unmap begins with a descriptor that was checked.
LEMMA SplitBegins ==
  ASSUME req \in Requests, NEW k \in DOMAIN req.descs, req.descs[k].nlbas # 0,
         CheckLbas(req.descs[k].lba, req.descs[k].nlbas)
  PROVE  /\ req.descs[k].lba \in Nat /\ req.descs[k].nlbas \in Nat /\ req.descs[k].nlbas > 0
         /\ req.descs[k].lba + req.descs[k].nlbas <= NumLbas
         /\ FirstLbas(req.descs[k].lba, req.descs[k].nlbas) \in Nat
         /\ FirstLbas(req.descs[k].lba, req.descs[k].nlbas) <= req.descs[k].nlbas
<1>1. req.descs[k].lba \in 0 .. Word - 1 /\ req.descs[k].nlbas \in 0 .. Word - 1
  BY RequestKnown
<1>2. req.descs[k].lba + req.descs[k].nlbas <= NumLbas
  BY <1>1, RangeChecked
<1>3. /\ FirstLbas(req.descs[k].lba, req.descs[k].nlbas) \in Nat
      /\ FirstLbas(req.descs[k].lba, req.descs[k].nlbas) <= req.descs[k].nlbas
  BY <1>1, FirstLbasBounded
<1>4. QED
  BY <1>1, <1>2, <1>3, UnmapAssumption

\* The command is refused, or no memory is left for it.
LEMMA RejectStep ==
  ASSUME UnmapInv, Reject
  PROVE  UnmapInv'
<1>1. /\ UNCHANGED <<req, pool, i, lba, nlbas, lbas, ret, refcount, error, status, freed, parts, unmapped>>
      /\ pc = "start" /\ pc' = "returned" /\ answers = <<>> /\ ~freed /\ ~error /\ status = "OK" /\ parts = <<>>
  BY DEF Reject, locals, state, UnmapInv, Staged
<1>2. req.kind \in {"unmap", "writesame"} /\ req \in Requests
  BY RequestKnown DEF UnmapInv, Typed, TypeOK
<1>3. /\ Check \in Statuses
      /\ Check = "OK" => req.kind = "unmap" /\ (req.head = "good" => req.descs = <<>>)
  BY <1>2, RequestKnown DEF Check, HandleUnmapCheck, HandleWriteSameCheck, Statuses, Heads
<1>4. PICK a \in Statuses \ {"ASYNC"} :
         /\ answers' = <<a>>
         /\ a = "OK" => req.kind = "unmap" /\ (req.head = "good" => req.descs = <<>>)
  BY <1>1, <1>3 DEF Reject, Answer, Statuses
<1>5. Len(answers') = 1 /\ answers'[1] = a /\ answers' # <<>>
  BY <1>4
<1>6. Typed'
  <2>1. answers' \in Seq(Statuses \ {"ASYNC"})
    BY <1>4
  <2>2. QED
    BY <1>1, <2>1 DEF UnmapInv, Typed, TypeOK
<1>7. Outstanding' = Outstanding /\ Given' = Given /\ Requested' = Requested
      /\ EmptyTail' = EmptyTail /\ Counted' /\ Within'
  BY <1>1, PartsKept
<1>8. refcount = 0
  BY <1>1, FS_EmptySet DEF UnmapInv, Counted, Outstanding
<1>9. Staged' /\ Covered' /\ Executed' /\ Verdict'
  BY <1>1 DEF UnmapInv, Staged, Covered, Executed, Verdict
<1>10. AnswersInTurn'
  BY <1>1, <1>5, <1>8 DEF AnswersInTurn, PartlyStarted
<1>11. OkMeansUnmapped'
  <2>1. SUFFICES ASSUME a = "OK", req.head = "good" PROVE unmapped' = Requested'
    BY <1>1, <1>5 DEF OkMeansUnmapped
  <2>2. Requested = {}
    BY <1>4, <2>1 DEF Requested
  <2>3. QED
    BY <1>1, <1>7, <2>2 DEF UnmapInv, Within, UnmapsOnlyRequested
<1>12. QED
  BY <1>6, <1>7, <1>9, <1>10, <1>11 DEF UnmapInv

\* The lock is taken and the parts are still to be made.
LEMMA BeginStep ==
  ASSUME UnmapInv, Begin
  PROVE  UnmapInv'
<1>1. /\ UNCHANGED <<req, pool, i, ret, refcount, error, status, freed, parts, unmapped, answers>>
      /\ pc = "start" /\ answers = <<>> /\ ~freed /\ ~error /\ status = "OK" /\ parts = <<>> /\ i = 1 /\ ret # "ASYNC"
  BY DEF Begin, state, UnmapInv, Staged
<1>2. req \in Requests
  BY DEF UnmapInv, Typed, TypeOK
<1>3. \/ /\ req.kind = "unmap" /\ pc' = "desc" /\ UNCHANGED <<lba, nlbas, lbas>>
         /\ req.descs # <<>>
      \/ /\ req.kind = "writesame" /\ pc' = "split" /\ 1 \in DOMAIN req.descs
         /\ lba' = req.descs[1].lba /\ nlbas' = req.descs[1].nlbas
         /\ lbas' = FirstLbas(req.descs[1].lba, req.descs[1].nlbas)
         /\ req.descs[1].nlbas # 0 /\ CheckLbas(req.descs[1].lba, req.descs[1].nlbas)
  BY <1>2, RequestKnown DEF Begin, BeginSplit, Check, HandleUnmapCheck, HandleWriteSameCheck
<1>4. /\ Len(req.descs) > 0
      /\ pc' = "split" => /\ lba' \in Nat /\ nlbas' \in Nat /\ lbas' \in Nat
                          /\ lbas' <= nlbas' /\ nlbas' > 0 /\ lba' + nlbas' <= NumLbas
                          /\ 1 \in DOMAIN req.descs
                          /\ lba' = req.descs[1].lba /\ nlbas' = req.descs[1].nlbas
  <2>1. Len(req.descs) > 0
    BY <1>2, <1>3, RequestKnown
  <2>2. CASE pc' = "split"
    BY <1>2, <1>3, <2>2, SplitBegins
  <2>3. QED
    BY <2>1, <2>2
<1>5. pc' \in {"desc", "split"} /\ (pc' = "desc" => req.kind = "unmap" /\ UNCHANGED <<lba, nlbas, lbas>>)
  BY <1>3
<1>6. Typed'
  BY <1>1, <1>4, <1>5 DEF UnmapInv, Typed, TypeOK
<1>7. Outstanding' = Outstanding /\ Given' = Given /\ Requested' = Requested
      /\ EmptyTail' = EmptyTail /\ Counted' /\ Within'
  BY <1>1, PartsKept
<1>8. Staged'
  BY <1>1, <1>2, <1>4, <1>5, RequestKnown DEF UnmapInv, Staged
<1>9. Covered'
  <2>1. \A k \in DOMAIN req.descs : ~(k < 1)
    BY <1>2, RequestKnown
  <2>2. pc' = "split" => req'.descs[i'].lba .. lba' - 1 = {}
    BY <1>1, <1>2, <1>4, RequestKnown
  <2>3. QED
    BY <1>1, <1>5, <2>1, <2>2 DEF Covered
<1>10. Executed' /\ AnswersInTurn' /\ Verdict' /\ OkMeansUnmapped'
  BY <1>1, <1>5, <1>7 DEF UnmapInv, Executed, AnswersInTurn, Verdict, OkMeansUnmapped
<1>11. QED
  BY <1>6, <1>7, <1>8, <1>9, <1>10 DEF UnmapInv

\* The next descriptor, or the end of them.
LEMMA DescriptorStep ==
  ASSUME UnmapInv, NextDescriptor
  PROVE  UnmapInv'
<1>1. /\ UNCHANGED <<req, pool, refcount, error, status, freed, parts, unmapped, answers>>
      /\ pc = "desc" /\ answers = <<>> /\ ~freed /\ ~error /\ status = "OK" /\ Len(req.descs) > 0
      /\ req.kind = "unmap" /\ i <= Len(req.descs) + 1 /\ i \in Nat \ {0}
      /\ \A p \in DOMAIN parts : parts[p].at # "done"
  BY DEF NextDescriptor, state, UnmapInv, Staged, Typed, TypeOK
<1>2. req \in Requests
  BY DEF UnmapInv, Typed, TypeOK
<1>3. \/ /\ i = Len(req.descs) + 1 /\ pc' = "unlock" /\ UNCHANGED <<i, lba, nlbas, lbas, ret>>
      \/ /\ i \in DOMAIN req.descs /\ pc' = "unlock" /\ UNCHANGED <<i, lba, nlbas, lbas>>
         /\ ret' \in {"INVALID_PARAM_LIST", "RANGE"}
      \/ /\ i \in DOMAIN req.descs /\ pc' = "desc" /\ UNCHANGED <<lba, nlbas, lbas>>
         /\ i' = i + 1 /\ ret' = "OK" /\ req.descs[i].nlbas = 0
      \/ /\ i \in DOMAIN req.descs /\ pc' = "split" /\ i' = i /\ ret' = "OK"
         /\ lba' = req.descs[i].lba /\ nlbas' = req.descs[i].nlbas
         /\ lbas' = FirstLbas(req.descs[i].lba, req.descs[i].nlbas)
         /\ req.descs[i].nlbas # 0 /\ CheckLbas(req.descs[i].lba, req.descs[i].nlbas)
  <2>1. DOMAIN req.descs = 1 .. Len(req.descs) /\ Len(req.descs) \in Nat
    BY <1>2, RequestKnown
  <2>2. CASE i > Len(req.descs)
    BY <1>1, <2>1, <2>2 DEF NextDescriptor, locals
  <2>3. CASE ~(i > Len(req.descs))
    <3>1. i \in DOMAIN req.descs
      BY <1>1, <2>1, <2>3
    <3>2. QED
      BY <1>1, <3>1, <2>3, UnmapAssumption DEF NextDescriptor, BeginSplit
  <2>4. QED
    BY <2>2, <2>3
<1>4. pc' = "split" => /\ lba' \in Nat /\ nlbas' \in Nat /\ lbas' \in Nat
                       /\ lbas' <= nlbas' /\ nlbas' > 0 /\ lba' + nlbas' <= NumLbas
                       /\ i \in DOMAIN req.descs /\ i' = i /\ ret' = "OK"
                       /\ lba' = req.descs[i].lba /\ nlbas' = req.descs[i].nlbas
  BY <1>2, <1>3, SplitBegins
<1>5. Outstanding' = Outstanding /\ Given' = Given /\ Requested' = Requested
      /\ EmptyTail' = EmptyTail /\ Counted' /\ Within'
  BY <1>1, PartsKept
<1>6. pc' \in {"desc", "split", "unlock"} /\ (pc' # "split" => UNCHANGED <<lba, nlbas, lbas>>)
      /\ i' \in Nat \ {0} /\ ret' \in Statuses
  BY <1>1, <1>3 DEF UnmapInv, Typed, TypeOK, Statuses
<1>7. Typed'
  BY <1>1, <1>4, <1>6 DEF UnmapInv, Typed, TypeOK
<1>8. Staged'
  <2>1. pc' = "desc" => i' <= Len(req.descs) + 1
    BY <1>1, <1>2, <1>3, RequestKnown
  <2>2. ret' = "ASYNC" => parts # <<>>
    BY <1>3 DEF UnmapInv, Staged
  <2>3. QED
    BY <1>1, <1>4, <1>6, <2>1, <2>2 DEF Staged
<1>9. Covered'
  <2>1. ASSUME NEW k \in DOMAIN req.descs, k < i PROVE BlocksOf(req.descs[k]) \subseteq Given
    BY <1>1, <2>1 DEF UnmapInv, Covered
  <2>2. ASSUME pc' \in {"desc", "split"}, NEW k \in DOMAIN req.descs, k < i'
        PROVE  BlocksOf(req.descs[k]) \subseteq Given
    <3>1. CASE k < i
      BY <3>1, <2>1
    <3>2. CASE ~(k < i)
      <4>1. k = i /\ req.descs[i].nlbas = 0
        BY <1>1, <1>2, <1>3, <2>2, <3>2, RequestKnown
      <4>2. BlocksOf(req.descs[k]) = {}
        BY <1>2, <4>1, RequestKnown DEF BlocksOf
      <4>3. QED
        BY <4>2
    <3>3. QED
      BY <3>1, <3>2
  <2>3. pc' = "split" => req.descs[i'].lba .. lba' - 1 = {}
    BY <1>2, <1>4, RequestKnown
  <2>4. ASSUME pc' = "unlock", ret' = "ASYNC" PROVE Requested \subseteq Given
    <3>1. i = Len(req.descs) + 1
      BY <1>3, <2>4
    <3>2. \A k \in DOMAIN req.descs : k < i
      BY <1>2, <3>1, RequestKnown
    <3>3. QED
      BY <3>2, <2>1, RequestedBlocks
  <2>5. QED
    BY <1>1, <1>5, <1>6, <2>2, <2>3, <2>4 DEF Covered
<1>10. Verdict'
  <2>1. pc' = "desc" /\ ret' = "OK" => req.descs[i' - 1].nlbas = 0
    BY <1>1, <1>3
  <2>2. ASSUME pc' = "unlock", ret' = "OK" PROVE EmptyTail
    <3>1. i = Len(req.descs) + 1 /\ ret = "OK"
      BY <1>3, <2>2
    <3>2. i = 1 \/ req.descs[i - 1].nlbas = 0
      BY <1>1, <3>1 DEF UnmapInv, Verdict
    <3>3. QED
      BY <1>1, <1>2, <3>1, <3>2, RequestKnown DEF EmptyTail
  <2>3. QED
    BY <1>1, <1>5, <1>6, <2>1, <2>2 DEF Verdict
<1>11. Executed' /\ AnswersInTurn' /\ OkMeansUnmapped'
  BY <1>1, <1>5, <1>6 DEF UnmapInv, Executed, AnswersInTurn, OkMeansUnmapped
<1>12. QED
  BY <1>5, <1>7, <1>8, <1>9, <1>10, <1>11 DEF UnmapInv

\* A part could not be started.
LEMMA DispatchFailsStep ==
  ASSUME UnmapInv, DispatchFails
  PROVE  UnmapInv'
<1>1. /\ UNCHANGED <<req, pool, i, lba, nlbas, lbas, refcount, error, status, freed, parts, unmapped, answers>>
      /\ pc = "split" /\ pc' = "unlock" /\ answers = <<>> /\ ~freed /\ ~error /\ status = "OK" /\ Len(req.descs) > 0
      /\ ret' \in {"NO_RESOURCE", "HW_ERR"}
      /\ \A p \in DOMAIN parts : parts[p].at # "done"
  BY DEF DispatchFails, state, UnmapInv, Staged
<1>2. Outstanding' = Outstanding /\ Given' = Given /\ Requested' = Requested
      /\ EmptyTail' = EmptyTail /\ Counted' /\ Within'
  BY <1>1, PartsKept
<1>3. Typed'
  BY <1>1 DEF UnmapInv, Typed, TypeOK, Statuses
<1>4. Staged' /\ Covered' /\ Executed' /\ AnswersInTurn' /\ Verdict' /\ OkMeansUnmapped'
  BY <1>1, <1>2 DEF UnmapInv, Staged, Covered, Executed, AnswersInTurn, Verdict, OkMeansUnmapped
<1>5. QED
  BY <1>2, <1>3, <1>4 DEF UnmapInv

-----------------------------------------------------------------------------
(* Parts are started, and the lock is released.                            *)

\* Ranges within ranges.
LEMMA RangeWithin ==
  ASSUME NEW a \in Nat, NEW b \in Nat, NEW c \in Nat, NEW e \in Nat, a <= b, c <= e
  PROVE  b .. c - 1 \subseteq a .. e - 1
OBVIOUS

\* A part is started: the front of what is left of the range.
LEMMA DispatchStep ==
  ASSUME UnmapInv, DispatchPart
  PROVE  UnmapInv'
<1> DEFINE new == [lba |-> lba, len |-> lbas, at |-> "queued"]
           n == Len(parts) + 1
           d == req.descs[i]
<1>1. /\ UNCHANGED <<req, pool, error, status, freed, unmapped, answers>>
      /\ pc = "split" /\ answers = <<>> /\ ~freed /\ ~error /\ status = "OK" /\ Len(req.descs) > 0
      /\ \A p \in DOMAIN parts : parts[p].at # "done"
      /\ refcount' = refcount + 1 /\ refcount \in Nat /\ parts' = Append(parts, new)
  BY DEF DispatchPart, UnmapInv, Staged, Typed, TypeOK
<1>2. req \in Requests /\ parts \in Seq(Part) /\ i \in Nat \ {0}
      /\ lba \in Nat /\ nlbas \in Nat /\ lbas \in Nat /\ Gran \in Nat
  BY UnmapAssumption DEF UnmapInv, Typed, TypeOK
<1>3. /\ nlbas > 0 /\ lbas <= nlbas /\ i \in DOMAIN req.descs
      /\ d.lba <= lba /\ lba + nlbas <= NumLbas /\ lba + nlbas = d.lba + d.nlbas
      /\ d.lba \in Nat /\ d.nlbas \in Nat
  BY <1>1, <1>2, RequestKnown, UnmapAssumption DEF UnmapInv, Staged
<1>4. /\ nlbas' = nlbas - lbas /\ lba' = lba + lbas /\ lbas' = Lesser(Gran, nlbas - lbas)
      /\ \/ nlbas - lbas > 0 /\ UNCHANGED <<pc, i, ret>>
         \/ /\ nlbas - lbas = 0 /\ ret' = "ASYNC" /\ i' = i + 1
            /\ pc' = IF req.kind = "unmap" THEN "desc" ELSE "unlock"
  BY <1>2, <1>3 DEF DispatchPart
<1>5. /\ nlbas' \in Nat /\ lba' \in Nat /\ lbas' \in Nat /\ lbas' <= nlbas'
      /\ lba' + nlbas' = lba + nlbas
  <2>1. nlbas - lbas \in Nat /\ lba + lbas \in Nat /\ (lba + lbas) + (nlbas - lbas) = lba + nlbas
    BY <1>2, <1>3
  <2>2. Lesser(Gran, nlbas - lbas) \in Nat /\ Lesser(Gran, nlbas - lbas) <= nlbas - lbas
    BY <1>2, <2>1 DEF Lesser
  <2>3. nlbas' = nlbas - lbas /\ lba' = lba + lbas /\ lbas' = Lesser(Gran, nlbas - lbas)
    BY <1>4
  <2>4. QED
    BY <2>1, <2>2, <2>3
<1>6. new \in Part
  BY <1>2 DEF Part
<1>7. /\ parts' \in Seq(Part) /\ DOMAIN parts' = DOMAIN parts \cup {n} /\ n \notin DOMAIN parts
      /\ parts'[n] = new /\ parts' # <<>>
      /\ \A p \in DOMAIN parts : parts'[p] = parts[p]
  BY <1>1, <1>2, <1>6
<1> HIDE DEF n, new
<1>8. /\ pc' \in {"split", "desc", "unlock"} /\ i' \in Nat \ {0} /\ ret' \in Statuses
      /\ pc' = "split" <=> nlbas - lbas > 0
  BY <1>1, <1>2, <1>3, <1>4 DEF UnmapInv, Typed, TypeOK, Statuses
<1>9. Typed'
  <2>1. \A p \in DOMAIN parts' : parts'[p] \in Part
    <3>1. \A p \in DOMAIN parts : parts[p] \in Part
      BY <1>2
    <3>2. QED
      BY <1>6, <1>7, <3>1
  <2>2. refcount' \in Nat
    BY <1>1
  <2>3. QED
    BY <1>1, <1>5, <1>7, <1>8, <2>1, <2>2 DEF UnmapInv, Typed, TypeOK, Part
<1>10. /\ Requested' = Requested /\ EmptyTail' = EmptyTail
       /\ BlocksIn(parts'[n]) = lba .. lba' - 1 /\ Given' = Given \cup (lba .. lba' - 1)
  <2>1. BlocksIn(parts'[n]) = lba .. lba' - 1
    <3>1. parts'[n].lba = lba /\ parts'[n].len = lbas
      BY <1>7 DEF new
    <3>2. lba' = lba + lbas
      BY <1>4
    <3>3. QED
      BY <1>2, <3>1, <3>2 DEF BlocksIn
  <2>2. Given' = Given \cup BlocksIn(parts'[n])
    BY <1>7 DEF Given
  <2>3. QED
    BY <1>1, <2>1, <2>2 DEF Requested, EmptyTail
<1>11. Counted'
  <2>1. Outstanding' = Outstanding \cup {n} /\ n \notin Outstanding
    BY <1>7 DEF Outstanding, new
  <2>2. Cardinality(Outstanding \cup {n}) = Cardinality(Outstanding) + 1
    BY <1>2, <2>1, OutstandingFinite, FS_AddElement
  <2>3. QED
    BY <1>1, <2>1, <2>2 DEF UnmapInv, Counted
<1>12. Staged'
  <2>1. \A p \in DOMAIN parts' : parts'[p].at # "done"
    BY <1>1, <1>7 DEF new
  <2>2. pc' = "desc" => req.kind = "unmap" /\ i' <= Len(req.descs) + 1
    BY <1>1, <1>2, <1>3, <1>4, RequestKnown
  <2>3. pc' = "split" => /\ i' = i /\ nlbas' > 0
    BY <1>1, <1>4
  <2>4. pc' = "split" => /\ i' \in DOMAIN req.descs /\ nlbas' > 0 /\ lbas' <= nlbas'
                         /\ req.descs[i'].lba <= lba' /\ lba' + nlbas' <= NumLbas
                         /\ lba' + nlbas' = req.descs[i'].lba + req.descs[i'].nlbas
    <3>1. d.lba <= lba'
      BY <1>2, <1>3, <1>4
    <3>2. QED
      BY <1>3, <1>5, <2>3, <3>1
  <2>5. QED
    BY <1>1, <1>7, <1>8, <2>1, <2>2, <2>4 DEF Staged
<1>13. lba .. lba' - 1 \subseteq BlocksOf(d) /\ BlocksOf(d) \subseteq Requested
       /\ lba .. lba' - 1 \subseteq 0 .. NumLbas - 1
  <2>1. BlocksOf(d) \subseteq Requested
    BY <1>3, RequestedBlocks
  <2>2. lba' <= lba + nlbas /\ lba' \in Nat /\ NumLbas \in Nat
    BY <1>2, <1>3, <1>4, UnmapAssumption
  <2>3. d.lba + d.nlbas \in Nat /\ lba' <= d.lba + d.nlbas /\ lba' <= NumLbas
    BY <1>2, <1>3, <2>2
  <2>4. lba .. lba' - 1 \subseteq d.lba .. (d.lba + d.nlbas) - 1
    BY <1>2, <1>3, <2>2, <2>3, RangeWithin
  <2>5. lba .. lba' - 1 \subseteq 0 .. NumLbas - 1
    BY <1>2, <2>2, <2>3, RangeWithin
  <2>6. QED
    BY <1>3, <2>1, <2>4, <2>5 DEF BlocksOf
<1>14. Within'
  <2>1. \A p \in DOMAIN parts' : BlocksIn(parts'[p]) \subseteq Requested \cap (0 .. NumLbas - 1)
    BY <1>7, <1>10, <1>13 DEF UnmapInv, Within
  <2>2. QED
    BY <1>1, <1>10, <2>1 DEF UnmapInv, Within, UnmapsOnlyRequested
<1>15. d.lba .. lba' - 1 \subseteq Given'
  <2>1. d.lba .. lba - 1 \subseteq Given
    BY <1>1 DEF UnmapInv, Covered
  <2>2. d.lba .. lba' - 1 \subseteq (d.lba .. lba - 1) \cup (lba .. lba' - 1)
    BY <1>2, <1>3, <1>4
  <2>3. QED
    BY <1>10, <2>1, <2>2
<1>16. nlbas - lbas = 0 => BlocksOf(d) \subseteq Given'
  <2>1. ASSUME nlbas - lbas = 0 PROVE lba' = d.lba + d.nlbas
    BY <1>2, <1>3, <1>4, <2>1
  <2>2. BlocksOf(d) = d.lba .. (d.lba + d.nlbas) - 1
    BY <1>3 DEF BlocksOf
  <2>3. QED
    BY <1>15, <2>1, <2>2
<1>17. Covered'
  <2>1. ASSUME NEW k \in DOMAIN req.descs, k < i PROVE BlocksOf(req.descs[k]) \subseteq Given'
    BY <1>1, <1>10, <2>1 DEF UnmapInv, Covered
  <2>2. ASSUME pc' \in {"desc", "split"}, NEW k \in DOMAIN req.descs, k < i'
        PROVE  BlocksOf(req.descs[k]) \subseteq Given'
    <3>1. CASE k < i
      BY <3>1, <2>1
    <3>2. CASE ~(k < i)
      <4>1. k = i /\ nlbas - lbas = 0
        BY <1>2, <1>4, <2>2, <3>2, RequestKnown
      <4>2. QED
        BY <4>1, <1>16
    <3>3. QED
      BY <3>1, <3>2
  <2>3. ASSUME pc' = "unlock" PROVE Requested \subseteq Given'
    <3>1. req.kind = "writesame" /\ nlbas - lbas = 0
      BY <1>1, <1>2, <1>4, <2>3, RequestKnown
    <3>2. DOMAIN req.descs = {1} /\ i = 1
      BY <1>2, <1>3, <3>1, RequestKnown
    <3>3. QED
      BY <1>16, <3>1, <3>2, RequestedBlocks
  <2>4. pc' = "split" => i' = i
    BY <1>4, <1>8
  <2>5. QED
    BY <1>1, <1>8, <1>10, <1>15, <2>2, <2>3, <2>4 DEF Covered
<1>18. Executed'
  <2>1. parts'[n].at = "queued"
    BY <1>7 DEF new
  <2>2. QED
    BY <1>1, <1>7, <2>1 DEF UnmapInv, Executed
<1>19. AnswersInTurn' /\ OkMeansUnmapped'
  BY <1>1, <1>8 DEF AnswersInTurn, OkMeansUnmapped
<1>20. Verdict'
  BY <1>1, <1>4, <1>8 DEF Verdict
<1>21. QED
  BY <1>9, <1>11, <1>12, <1>14, <1>17, <1>18, <1>19, <1>20 DEF UnmapInv

\* The command processor of an UNMAP lets go of the lock.
LEMMA UnlockUnmapStep ==
  ASSUME UnmapInv, UnlockUnmap
  PROVE  UnmapInv'
<1>1. /\ UNCHANGED <<req, pool, i, lba, nlbas, lbas, ret, refcount, parts, unmapped>>
      /\ pc = "unlock" /\ pc' = "returned" /\ answers = <<>> /\ Len(req.descs) > 0
      /\ \A p \in DOMAIN parts : parts[p].at # "done"
      /\ status' = ret /\ error' = (ret # "ASYNC") /\ freed' = (refcount = 0) /\ req.kind = "unmap"
      /\ ret = "ASYNC" => parts # <<>>
  BY DEF UnlockUnmap, locals, UnmapInv, Staged
<1>2. ret \in Statuses /\ refcount \in Nat /\ parts \in Seq(Part)
  BY DEF UnmapInv, Typed, TypeOK
<1>3. Outstanding' = Outstanding /\ Given' = Given /\ Requested' = Requested
      /\ EmptyTail' = EmptyTail /\ Counted' /\ Within'
  BY <1>1, PartsKept
<1>4. refcount = 0 => parts = <<>>
  <2>1. Outstanding = DOMAIN parts
    BY <1>1 DEF Outstanding
  <2>2. refcount = 0 => DOMAIN parts = {}
    BY <1>2, <2>1, OutstandingFinite DEF UnmapInv, Counted
  <2>3. QED
    BY <1>2, <2>2
<1>5. IF refcount > 0 THEN answers' = <<>> ELSE answers' = <<ret>>
  BY <1>1 DEF UnlockUnmap, Answer
<1>6. Typed'
  <2>1. answers' \in Seq(Statuses \ {"ASYNC"})
    <3>1. refcount > 0 \/ ret \in Statuses \ {"ASYNC"}
      BY <1>1, <1>2, <1>4
    <3>2. CASE refcount > 0
      BY <1>5, <3>2
    <3>3. CASE ~(refcount > 0)
      <4>1. answers' = <<ret>> /\ ret \in Statuses \ {"ASYNC"}
        BY <1>5, <3>1, <3>3
      <4>2. QED
        BY <4>1
    <3>4. QED
      BY <3>2, <3>3
  <2>2. QED
    BY <1>1, <1>2, <2>1 DEF UnmapInv, Typed, TypeOK
<1>7. Staged' /\ Covered' /\ Executed'
  BY <1>1, <1>3 DEF UnmapInv, Staged, Covered, Executed
<1>8. AnswersInTurn'
  <2>1. Len(<<ret>>) = 1
    OBVIOUS
  <2>2. QED
    BY <1>1, <1>2, <1>5, <2>1 DEF AnswersInTurn, PartlyStarted
<1>9. ret = "OK" => EmptyTail
  BY <1>1 DEF UnmapInv, Verdict
<1>10. Verdict'
  BY <1>1, <1>3, <1>9 DEF Verdict
<1>11. OkMeansUnmapped'
  BY <1>3, <1>5, <1>9 DEF OkMeansUnmapped
<1>12. QED
  BY <1>3, <1>6, <1>7, <1>8, <1>10, <1>11 DEF UnmapInv

\* The same for a WRITE SAME with the UNMAP bit; an error is still to be answered.
LEMMA UnlockWriteSameStep ==
  ASSUME UnmapInv, UnlockWriteSame
  PROVE  UnmapInv'
<1>1. /\ UNCHANGED <<req, pool, i, lba, nlbas, lbas, ret, refcount, status, parts, unmapped, answers>>
      /\ pc = "unlock" /\ pc' = (IF ret = "ASYNC" THEN "returned" ELSE "answer")
      /\ answers = <<>> /\ Len(req.descs) > 0
      /\ \A p \in DOMAIN parts : parts[p].at # "done"
      /\ error' = (ret # "ASYNC") /\ freed' = (refcount = 0) /\ req.kind = "writesame"
      /\ ret = "ASYNC" => parts # <<>>
  BY DEF UnlockWriteSame, locals, UnmapInv, Staged
<1>2. ret \in Statuses /\ refcount \in Nat /\ parts \in Seq(Part) /\ status \in Statuses
  BY DEF UnmapInv, Typed, TypeOK
<1>3. Outstanding' = Outstanding /\ Given' = Given /\ Requested' = Requested
      /\ EmptyTail' = EmptyTail /\ Counted' /\ Within'
  BY <1>1, PartsKept
<1>4. refcount = 0 <=> parts = <<>>
  <2>1. Outstanding = DOMAIN parts
    BY <1>1 DEF Outstanding
  <2>2. refcount = 0 <=> DOMAIN parts = {}
    BY <1>2, <2>1, OutstandingFinite, FS_EmptySet DEF UnmapInv, Counted
  <2>3. QED
    BY <1>2, <2>2
<1>5. pc' \in {"answer", "returned"} /\ (pc' = "answer" <=> ret # "ASYNC")
  BY <1>1
<1>6. Typed'
  BY <1>1, <1>2, <1>5 DEF UnmapInv, Typed, TypeOK
<1>7. Staged' /\ Covered' /\ Executed'
  BY <1>1, <1>3, <1>5 DEF UnmapInv, Staged, Covered, Executed
<1>8. AnswersInTurn'
  <2>1. ret = "ASYNC" => refcount > 0
    BY <1>1, <1>2, <1>4
  <2>2. QED
    BY <1>1, <1>5, <2>1 DEF AnswersInTurn, PartlyStarted
<1>9. Verdict'
  <2>1. ret = "OK" => EmptyTail
    BY <1>1 DEF UnmapInv, Verdict
  <2>2. status # "ASYNC"
    BY <1>1 DEF UnmapInv, Verdict, Staged
  <2>3. QED
    BY <1>1, <1>3, <1>5, <2>1, <2>2 DEF Verdict
<1>10. OkMeansUnmapped'
  BY <1>1 DEF OkMeansUnmapped
<1>11. QED
  BY <1>3, <1>6, <1>7, <1>8, <1>9, <1>10 DEF UnmapInv

\* The command processor answers with the error of a WRITE SAME; parts that were
\* started may have ended before, and the last of them have answered.
LEMMA AnswerReturnedStep ==
  ASSUME UnmapInv, AnswerReturned
  PROVE  UnmapInv'
<1>1. /\ UNCHANGED <<req, pool, i, lba, nlbas, lbas, ret, refcount, error, status, freed, parts, unmapped>>
      /\ pc = "answer" /\ pc' = "returned" /\ answers' = Append(answers, ret)
  BY DEF AnswerReturned, Answer, locals, state
<1>2. /\ ret \in Statuses \ {"ASYNC"} /\ answers \in Seq(Statuses \ {"ASYNC"}) /\ parts \in Seq(Part)
      /\ req.kind = "writesame" /\ error /\ (parts = <<>> => answers = <<>>)
      /\ (freed => refcount = 0) /\ (ret = "OK" => EmptyTail)
  BY <1>1 DEF UnmapInv, Typed, TypeOK, AnswersInTurn, Verdict
<1>3. Outstanding' = Outstanding /\ Given' = Given /\ Requested' = Requested
      /\ EmptyTail' = EmptyTail /\ Counted' /\ Within'
  BY <1>1, PartsKept
<1>4. answers' \in Seq(Statuses \ {"ASYNC"}) /\ answers' # <<>> /\ Len(answers') = Len(answers) + 1
  BY <1>1, <1>2
<1>5. Typed'
  BY <1>1, <1>4 DEF UnmapInv, Typed, TypeOK
<1>6. Staged' /\ Covered' /\ Executed'
  BY <1>1, <1>2, <1>3 DEF UnmapInv, Staged, Covered, Executed
<1>7. parts = <<>> => refcount = 0 /\ Len(answers') = 1
  <2>1. SUFFICES ASSUME parts = <<>> PROVE refcount = 0 /\ Len(answers') = 1
    OBVIOUS
  <2>2. Outstanding = {}
    BY <2>1 DEF Outstanding
  <2>3. refcount = 0
    BY <2>2, FS_EmptySet DEF UnmapInv, Counted
  <2>4. QED
    BY <1>2, <1>4, <2>1, <2>3
<1>8. AnswersInTurn'
  BY <1>1, <1>2, <1>4, <1>7 DEF AnswersInTurn, PartlyStarted
<1>9. Verdict'
  BY <1>1, <1>2, <1>4 DEF UnmapInv, Verdict
<1>10. OkMeansUnmapped'
  <2>1. SUFFICES ASSUME answers'[1] = "OK", ~EmptyTail, ~PartlyStarted' PROVE FALSE
    BY <1>3 DEF OkMeansUnmapped
  <2>2. answers = <<>>
    BY <1>1, <1>2, <2>1 DEF PartlyStarted
  <2>3. answers'[1] = ret
    BY <1>1, <2>2
  <2>4. QED
    BY <1>2, <2>1, <2>3
<1>11. QED
  BY <1>3, <1>5, <1>6, <1>8, <1>9, <1>10 DEF UnmapInv

-----------------------------------------------------------------------------
(* The parts.                                                              *)

\* The parts after a change of the state of one.
LEMMA PartChanged ==
  ASSUME parts \in Seq(Part), NEW p \in DOMAIN parts, NEW v \in {"queued", "ok", "failed", "done"},
         parts' = [parts EXCEPT ![p].at = v]
  PROVE  /\ parts' \in Seq(Part) /\ DOMAIN parts' = DOMAIN parts /\ parts' # <<>> /\ parts # <<>>
         /\ parts'[p].at = v
         /\ \A q \in DOMAIN parts : /\ parts'[q] \in Part /\ BlocksIn(parts'[q]) = BlocksIn(parts[q])
                                    /\ q # p => parts'[q] = parts[q]
<1>1. parts[p] \in Part
  OBVIOUS
<1>2. DOMAIN parts' = DOMAIN parts /\ parts'[p] = [parts[p] EXCEPT !.at = v]
      /\ \A q \in DOMAIN parts : q # p => parts'[q] = parts[q]
  OBVIOUS
<1>3. parts'[p] \in Part /\ parts'[p].at = v
      /\ parts'[p].lba = parts[p].lba /\ parts'[p].len = parts[p].len
  BY <1>1, <1>2 DEF Part
<1>4. parts' \in Seq(Part)
  BY <1>1, <1>2, <1>3
<1>5. QED
  BY <1>2, <1>3, <1>4 DEF BlocksIn

\* The handler executes a part, or fails to.
LEMMA PartRunStep ==
  ASSUME UnmapInv, NEW p \in DOMAIN parts, PartRun(p)
  PROVE  UnmapInv'
<1>1. /\ UNCHANGED <<req, pool, pc, i, lba, nlbas, lbas, ret, refcount, error, status, freed, answers>>
      /\ parts[p].at = "queued" /\ parts \in Seq(Part)
  BY DEF PartRun, locals, state, UnmapInv, Typed
<1>2. PICK v \in {"ok", "failed"} :
         /\ parts' = [parts EXCEPT ![p].at = v]
         /\ unmapped' = IF v = "ok" THEN unmapped \cup BlocksIn(parts[p]) ELSE unmapped
  BY DEF PartRun, BlocksIn
<1>3. /\ parts' \in Seq(Part) /\ DOMAIN parts' = DOMAIN parts /\ parts' # <<>> /\ parts # <<>>
      /\ parts'[p].at = v
      /\ \A q \in DOMAIN parts : /\ parts'[q] \in Part /\ BlocksIn(parts'[q]) = BlocksIn(parts[q])
                                 /\ q # p => parts'[q] = parts[q]
  BY <1>1, <1>2, PartChanged
<1>4. /\ Outstanding' = Outstanding /\ Given' = Given /\ Requested' = Requested /\ EmptyTail' = EmptyTail
      /\ unmapped \subseteq unmapped' /\ unmapped' \subseteq Requested \cap (0 .. NumLbas - 1)
  <2>1. Outstanding' = Outstanding
    BY <1>1, <1>3 DEF Outstanding
  <2>2. Given' = Given
    BY <1>3 DEF Given
  <2>3. Requested' = Requested /\ EmptyTail' = EmptyTail
    BY <1>1 DEF Requested, EmptyTail
  <2>4. unmapped \subseteq unmapped' /\ unmapped' \subseteq Requested \cap (0 .. NumLbas - 1)
    BY <1>2 DEF UnmapInv, Within, UnmapsOnlyRequested
  <2>5. QED
    BY <2>1, <2>2, <2>3, <2>4
<1>5. Typed'
  <2>1. unmapped' \subseteq Nat
    BY <1>4, UnmapAssumption
  <2>2. \A q \in DOMAIN parts' : parts'[q] \in Part
    BY <1>3
  <2>3. QED
    BY <1>1, <1>3, <2>1, <2>2 DEF UnmapInv, Typed, TypeOK, Part
<1>6. Counted'
  BY <1>1, <1>4 DEF UnmapInv, Counted
<1>7. Staged'
  <2>1. pc \notin {"answer", "returned"} => \A q \in DOMAIN parts' : parts'[q].at # "done"
    BY <1>3 DEF UnmapInv, Staged
  <2>2. QED
    BY <1>1, <1>3, <2>1 DEF UnmapInv, Staged
<1>8. Within'
  BY <1>3, <1>4 DEF UnmapInv, Within, UnmapsOnlyRequested
<1>9. Covered'
  BY <1>1, <1>4 DEF UnmapInv, Covered
<1>10. Executed'
  BY <1>1, <1>2, <1>3, <1>4 DEF UnmapInv, Executed
<1>11. AnswersInTurn'
  BY <1>1, <1>3 DEF UnmapInv, AnswersInTurn, PartlyStarted
<1>12. Verdict'
  BY <1>1, <1>3, <1>4 DEF UnmapInv, Verdict
<1>13. OkMeansUnmapped'
  BY <1>1, <1>3, <1>4 DEF UnmapInv, OkMeansUnmapped, PartlyStarted
<1>14. QED
  BY <1>5, <1>6, <1>7, <1>8, <1>9, <1>10, <1>11, <1>12, <1>13 DEF UnmapInv

\* The callback of a part; the last one answers.
LEMMA CallbackStep ==
  ASSUME UnmapInv, NEW p \in DOMAIN parts, PartCallback(p)
  PROVE  UnmapInv'
<1> DEFINE r == IF parts[p].at = "ok" THEN "OK" ELSE "HW_ERR"
<1>1. /\ UNCHANGED <<req, pool, pc, i, lba, nlbas, lbas, ret, unmapped>>
      /\ parts[p].at \in {"ok", "failed"} /\ parts \in Seq(Part) /\ parts # <<>>
      /\ parts' = [parts EXCEPT ![p].at = "done"]
      /\ refcount' = refcount - 1
  BY DEF PartCallback, locals, UnmapInv, Typed
<1>2. pc \in {"answer", "returned"} /\ pc' = pc
  BY <1>1 DEF PartCallback, LockFree, UnmapInv, Staged
<1>3. /\ parts' \in Seq(Part) /\ DOMAIN parts' = DOMAIN parts /\ parts' # <<>>
      /\ parts'[p].at = "done"
      /\ \A q \in DOMAIN parts : /\ parts'[q] \in Part /\ BlocksIn(parts'[q]) = BlocksIn(parts[q])
                                 /\ q # p => parts'[q] = parts[q]
  BY <1>1, PartChanged
<1>4. /\ \/ ~error /\ r # "OK" /\ error' = TRUE /\ status' = r
         \/ ~(~error /\ r # "OK") /\ UNCHANGED <<error, status>>
      /\ \/ refcount' > 0 /\ UNCHANGED <<freed, answers>>
         \/ ~(refcount' > 0) /\ freed' = TRUE /\ answers' = Append(answers, IF error' THEN status' ELSE r)
  BY DEF PartCallback, Answer
<1>5. Given' = Given /\ Requested' = Requested /\ EmptyTail' = EmptyTail
  <2>1. Given' = Given
    BY <1>3 DEF Given
  <2>2. QED
    BY <1>1, <2>1 DEF Requested, EmptyTail
<1>6. Outstanding' = Outstanding \ {p} /\ p \in Outstanding
  BY <1>1, <1>3 DEF Outstanding
<1>7. Counted' /\ refcount' \in Nat /\ refcount > 0
  <2>1. Cardinality(Outstanding \ {p}) = Cardinality(Outstanding) - 1
    BY <1>1, <1>6, OutstandingFinite, FS_RemoveElement
  <2>2. Cardinality(Outstanding) > 0 /\ Cardinality(Outstanding) \in Nat
    BY <1>1, <1>6, OutstandingFinite
  <2>3. QED
    BY <1>1, <1>6, <2>1, <2>2 DEF UnmapInv, Counted
<1>8. /\ error \in BOOLEAN /\ status \in Statuses /\ answers \in Seq(Statuses \ {"ASYNC"}) /\ r \in Statuses \ {"ASYNC"}
      /\ (error => status # "ASYNC") /\ freed \in BOOLEAN
  BY DEF UnmapInv, Typed, TypeOK, Verdict, Statuses
<1> HIDE DEF r
<1>9. /\ error' \in BOOLEAN /\ status' \in Statuses /\ (error' => status' # "ASYNC")
      /\ (error => error') /\ freed' \in BOOLEAN
  <2>1. freed' \in BOOLEAN
    <3>1. CASE refcount' > 0
      BY <1>4, <1>8, <3>1
    <3>2. CASE ~(refcount' > 0)
      BY <1>4, <3>2
    <3>3. QED
      BY <3>1, <3>2
  <2>2. CASE ~error /\ r # "OK"
    <3>1. error' = TRUE /\ status' = r
      BY <1>4, <2>2
    <3>2. QED
      BY <1>8, <2>1, <3>1
  <2>3. CASE ~(~error /\ r # "OK")
    <3>1. error' = error /\ status' = status
      BY <1>4, <2>3
    <3>2. QED
      BY <1>8, <2>1, <3>1
  <2>4. QED
    BY <2>2, <2>3
<1>10. (IF error' THEN status' ELSE r) \in Statuses \ {"ASYNC"}
  BY <1>8, <1>9
<1>11. answers' \in Seq(Statuses \ {"ASYNC"})
  BY <1>4, <1>8, <1>10
<1>12. Typed'
  <2>1. \A q \in DOMAIN parts' : parts'[q] \in Part
    BY <1>3
  <2>2. QED
    BY <1>1, <1>3, <1>7, <1>9, <1>11, <2>1, ZenonT(60) DEF UnmapInv, Typed, TypeOK, Part
<1>13. Staged'
  BY <1>1, <1>2, <1>3 DEF UnmapInv, Staged
<1>14. Within'
  BY <1>1, <1>3, <1>5 DEF UnmapInv, Within, UnmapsOnlyRequested
<1>15. Covered'
  BY <1>1, <1>2, <1>5 DEF UnmapInv, Covered
<1>16. Executed'
  <2>1. error' \/ BlocksIn(parts[p]) \subseteq unmapped
    <3>1. CASE parts[p].at = "ok"
      BY <3>1 DEF UnmapInv, Executed
    <3>2. CASE parts[p].at # "ok"
      BY <1>4, <1>9, <3>2 DEF r
    <3>3. QED
      BY <3>1, <3>2
  <2>2. QED
    BY <1>1, <1>3, <1>9, <2>1 DEF UnmapInv, Executed
<1>17. PartlyStarted' = PartlyStarted
  BY <1>1, <1>3 DEF PartlyStarted
<1>18. pc = "answer" => PartlyStarted /\ error
  BY <1>1 DEF UnmapInv, AnswersInTurn, PartlyStarted
<1>19. ~(refcount' > 0) => Len(answers') = Len(answers) + 1 /\ answers' # <<>>
  BY <1>4, <1>8
<1>20. AnswersInTurn'
  <2>1. freed' => refcount' = 0
    <3>1. ~freed
      BY <1>2, <1>7 DEF UnmapInv, AnswersInTurn
    <3>2. refcount' > 0 => ~freed'
      BY <1>4, <3>1
    <3>3. ~(refcount' > 0) => refcount' = 0
      BY <1>7
    <3>4. QED
      BY <3>2, <3>3
  <2>2. CASE PartlyStarted
    <3>1. pc = "returned" => answers' # <<>>
      BY <1>4, <1>19, <2>2 DEF UnmapInv, AnswersInTurn
    <3>2. pc = "answer" => req.kind = "writesame" /\ ret # "ASYNC" /\ error'
      BY <1>9 DEF UnmapInv, AnswersInTurn
    <3>3. QED
      BY <1>1, <1>2, <1>3, <1>17, <2>1, <2>2, <3>1, <3>2 DEF AnswersInTurn
  <2>3. CASE ~PartlyStarted
    <3>1. answers = <<>>
      BY <1>2, <1>7, <1>18, <2>3 DEF UnmapInv, AnswersInTurn
    <3>2. Len(answers) = 0
      BY <3>1
    <3>3. IF refcount' > 0 THEN answers' = <<>> ELSE Len(answers') = 1
      BY <1>4, <1>19, <3>1, <3>2
    <3>4. pc' = "returned"
      BY <1>2, <1>18, <2>3
    <3>5. QED
      BY <1>17, <2>1, <2>3, <3>3, <3>4 DEF AnswersInTurn
  <2>4. QED
    BY <2>2, <2>3
<1>21. Verdict'
  <2>1. pc = "returned" /\ error' => status' # "OK" \/ EmptyTail \/ answers' # <<>>
    <3>1. CASE ~error
      BY <1>4, <3>1
    <3>2. CASE error
      <4>1. pc = "returned" => status # "OK" \/ EmptyTail \/ answers # <<>>
        BY <3>2 DEF UnmapInv, Verdict
      <4>2. answers # <<>> => answers' # <<>>
        BY <1>4, <1>19
      <4>3. QED
        BY <1>4, <3>2, <4>1, <4>2
    <3>3. QED
      BY <3>1, <3>2
  <2>2. ~error' => ret = "ASYNC"
    BY <1>1, <1>2, <1>9, <1>18 DEF UnmapInv, Verdict
  <2>3. pc = "answer" /\ ret = "OK" => EmptyTail
    BY DEF UnmapInv, Verdict
  <2>4. QED
    BY <1>1, <1>2, <1>5, <1>9, <2>1, <2>2, <2>3 DEF Verdict
<1>22. OkMeansUnmapped'
  <2>1. SUFFICES ASSUME answers' # <<>>, answers'[1] = "OK", req.head = "good", ~EmptyTail, ~PartlyStarted
                 PROVE  unmapped = Requested
    BY <1>1, <1>5, <1>17 DEF OkMeansUnmapped
  <2>2. CASE answers # <<>>
    <3>1. answers'[1] = answers[1]
      BY <1>4, <1>8, <1>10, <2>2
    <3>2. QED
      BY <2>1, <2>2, <3>1 DEF UnmapInv, OkMeansUnmapped
  <2>3. CASE answers = <<>>
    <3>1. ~(refcount' > 0) /\ answers'[1] = IF error' THEN status' ELSE r
      BY <1>4, <2>1, <2>3
    <3>2. ~error'
      <4>1. SUFFICES ASSUME error', status' = "OK" PROVE FALSE
        BY <2>1, <3>1
      <4>2. error /\ status = "OK"
        BY <1>4, <4>1
      <4>3. QED
        BY <1>2, <1>18, <2>1, <2>3, <4>2 DEF UnmapInv, Verdict
    <3>3. ret = "ASYNC" /\ Requested \subseteq Given
      BY <1>1, <1>2, <1>9, <1>18, <3>2 DEF UnmapInv, Verdict, Covered
    <3>4. Outstanding' = {}
      <4>1. IsFiniteSet(Outstanding \ {p})
        BY <1>1, OutstandingFinite, FS_Subset
      <4>2. Cardinality(Outstanding \ {p}) = 0
        BY <1>6, <1>7, <3>1 DEF Counted
      <4>3. QED
        BY <1>6, <4>1, <4>2, FS_EmptySet
    <3>5. \A q \in DOMAIN parts : BlocksIn(parts[q]) \subseteq unmapped
      <4>1. \A q \in DOMAIN parts : parts'[q].at = "done"
        BY <1>3, <3>4 DEF Outstanding
      <4>2. QED
        BY <1>1, <1>3, <1>16, <3>2, <4>1 DEF Executed
    <3>6. Given \subseteq unmapped
      BY <3>5, GivenBlocks
    <3>7. unmapped \subseteq Requested
      BY DEF UnmapInv, Within, UnmapsOnlyRequested
    <3>8. QED
      BY <3>3, <3>6, <3>7
  <2>4. QED
    BY <2>2, <2>3
<1>23. QED
  BY <1>7, <1>12, <1>13, <1>14, <1>15, <1>16, <1>20, <1>21, <1>22 DEF UnmapInv

-----------------------------------------------------------------------------
(* The invariant holds, and what follows from it.                          *)

\* The invariant holds when the command begins.
LEMMA UnmapInit == Init => UnmapInv
<1> SUFFICES ASSUME Init PROVE UnmapInv
  OBVIOUS
<1>1. Typed
  <2>1. req \in Requests /\ {pool, error, freed} \subseteq BOOLEAN
    BY DEF Init
  <2>2. {ret, status} \subseteq Statuses /\ answers \in Seq(Statuses \ {"ASYNC"}) /\ parts \in Seq(Part)
    BY DEF Init, Statuses
  <2>3. DOMAIN parts = {}
    BY DEF Init
  <2>4. QED
    BY <2>1, <2>2, <2>3 DEF Init, Typed, TypeOK
<1>2. Outstanding = {} /\ Given = {}
  BY DEF Init, Outstanding, Given
<1>3. Counted
  BY <1>2, FS_EmptySet DEF Init, Counted
<1>4. Staged /\ Within /\ Covered /\ Executed /\ AnswersInTurn /\ Verdict /\ OkMeansUnmapped
  BY DEF Init, Staged, Within, UnmapsOnlyRequested, Covered, Executed, AnswersInTurn, Verdict,
         OkMeansUnmapped
<1>5. QED
  BY <1>1, <1>3, <1>4 DEF UnmapInv

\* Every step keeps it.
LEMMA UnmapStep == UnmapInv /\ [Next]_vars => UnmapInv'
<1> SUFFICES ASSUME UnmapInv, [Next]_vars PROVE UnmapInv'
  OBVIOUS
<1>1. CASE CmdprocStep
  BY <1>1, RejectStep, BeginStep, DescriptorStep, DispatchStep, DispatchFailsStep, UnlockUnmapStep,
     UnlockWriteSameStep, AnswerReturnedStep DEF CmdprocStep
<1>2. ASSUME NEW p \in DOMAIN parts, PartRun(p) \/ PartCallback(p) PROVE UnmapInv'
  BY <1>2, PartRunStep, CallbackStep
<1>3. CASE UNCHANGED vars
  <2>1. UNCHANGED <<req, parts, unmapped, refcount>>
    BY <1>3 DEF vars
  <2>2. /\ Outstanding' = Outstanding /\ Given' = Given /\ Requested' = Requested
        /\ EmptyTail' = EmptyTail /\ Counted' /\ Within'
    BY <2>1, PartsKept
  <2>3. Typed' /\ Staged' /\ Covered' /\ Executed'
    BY <1>3, <2>2 DEF vars, UnmapInv, Typed, TypeOK, Staged, Covered, Executed
  <2>4. AnswersInTurn' /\ Verdict' /\ OkMeansUnmapped'
    BY <1>3, <2>2 DEF vars, UnmapInv, AnswersInTurn, PartlyStarted, Verdict, OkMeansUnmapped
  <2>5. QED
    BY <2>2, <2>3, <2>4 DEF UnmapInv
<1>4. QED
  BY <1>1, <1>2, <1>3 DEF Next, Returned

\* One answer and no part left behind it.
LEMMA InvAnswersOnce == UnmapInv => AnsweredOnceAfterParts
<1> SUFFICES ASSUME UnmapInv PROVE AnsweredOnceAfterParts
  OBVIOUS
<1>1. parts \in Seq(Part) /\ refcount \in Nat /\ pc \in {"start", "desc", "split", "unlock", "answer", "returned"}
  BY DEF UnmapInv, Typed, TypeOK
<1>2. refcount = 0 => Outstanding = {}
  BY <1>1, OutstandingFinite, FS_EmptySet DEF UnmapInv, Counted
<1>3. freed => Outstanding = {} /\ pc \in {"answer", "returned"}
  BY <1>1, <1>2 DEF UnmapInv, Staged, AnswersInTurn
<1>4. answers # <<>> /\ ~PartlyStarted => Len(answers) = 1 /\ Outstanding = {}
  BY <1>1, <1>2 DEF UnmapInv, Staged, AnswersInTurn, PartlyStarted
<1>5. QED
  BY <1>3, <1>4 DEF AnsweredOnceAfterParts, PartlyStarted

\* For every device, granularity and command, however many parts it is split
\* into and in whatever order they end or fail: it is answered once and not
\* before its last part (a WRITE SAME of which only some parts could be started
\* excepted), its state is freed then, and no block is unmapped that it does not
\* name or that lies beyond the device.
THEOREM UnmapsOnlyWhatIsAsked == Spec => []UnmapsAsAsked
<1>1. UnmapInv => UnmapsAsAsked
  BY InvAnswersOnce DEF UnmapInv, Typed, Within, UnmapsAsAsked
<1>2. QED
  BY <1>1, UnmapInit, UnmapStep, PTL DEF Spec

\* A command whose first answer is GOOD has unmapped every block it names, though
\* parts fail or, of an UNMAP, cannot be started: the first error reaches the
\* answer, unless the last descriptor is empty.  The statement says nothing of a
\* WRITE SAME of which only some parts could be started.
THEOREM GoodIsComplete == Spec => []OkMeansUnmapped
<1>1. UnmapInv => OkMeansUnmapped
  BY DEF UnmapInv
<1>2. QED
  BY <1>1, UnmapInit, UnmapStep, PTL DEF Spec

=============================================================================
