--------------------------- MODULE CommandService ---------------------------
(***************************************************************************)
(* What the command ring promises the kernel: every command it submits is  *)
(* answered at most once, with the outcome the runner decided for that     *)
(* very command; a command the kernel gave up on gets no second answer; a  *)
(* ring reset hands every open command back for a retry.                   *)
(***************************************************************************)
CONSTANTS Ids,      \* command identifiers
          Outcomes, \* what the runner may decide for a command
          Undecided, TimedOut, Retry  \* no answer yet; the two answers of the kernel's own

VARIABLES stage,    \* where each command is in its life
          outcome,  \* what was decided, for commands that are "decided"
          reply     \* the answer the initiator got to the last command, per identifier

svcVars == <<stage, outcome, reply>>

Init ==
    /\ stage = [i \in Ids |-> "idle"]
    /\ outcome = [i \in Ids |-> Undecided]
    /\ reply = [i \in Ids |-> Undecided]

Submit(i) ==
    /\ stage[i] = "idle"
    /\ stage' = [stage EXCEPT ![i] = "open"]
    /\ reply' = [reply EXCEPT ![i] = Undecided]
    /\ UNCHANGED outcome

Decide(i) ==
    /\ stage[i] \in {"open", "expired"}
    /\ stage' = [stage EXCEPT ![i] = IF @ = "open" THEN "decided" ELSE "late"]
    /\ \E o \in Outcomes : outcome' = [outcome EXCEPT ![i] = o]
    /\ UNCHANGED reply

Answer(i) ==
    /\ stage[i] \in {"decided", "late"}
    /\ reply' = IF stage[i] = "decided" THEN [reply EXCEPT ![i] = outcome[i]] ELSE reply
    /\ stage' = [stage EXCEPT ![i] = "idle"]
    /\ outcome' = [outcome EXCEPT ![i] = Undecided]

Expire(i) ==
    /\ stage[i] \in {"open", "decided"}
    /\ stage' = [stage EXCEPT ![i] = IF @ = "open" THEN "expired" ELSE "late"]
    /\ reply' = [reply EXCEPT ![i] = TimedOut]
    /\ UNCHANGED outcome

Reset ==
    /\ reply' = [i \in Ids |-> IF stage[i] \in {"open", "decided"} THEN Retry ELSE reply[i]]
    /\ stage' = [i \in Ids |-> "idle"]
    /\ outcome' = [i \in Ids |-> Undecided]

Next == Reset \/ \E i \in Ids : Submit(i) \/ Decide(i) \/ Answer(i) \/ Expire(i)

Spec == Init /\ [][Next]_svcVars

=============================================================================
