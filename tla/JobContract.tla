---------------------------- MODULE JobContract -----------------------------
(***************************************************************************)
(* What a provisioning job promises whoever asked for it, with no queue,   *)
(* no runner and no fault in sight: once asked for, a job's steps complete *)
(* one at a time and in order; it finishes only when all have; a job that  *)
(* gave up can be reopened, which takes the substrate steps back; and a    *)
(* finished job stays as it is.                                            *)
(***************************************************************************)
EXTENDS Naturals

CONSTANTS
  Jobs,       \* the jobs
  NumSteps,   \* length of a saga
  Substrate   \* the steps a reopened job performs again

VARIABLES
  phase,      \* per job: "absent", "open", "done" or "dead"
  completed   \* per job: the steps on record as completed

Init ==
  /\ phase = [j \in Jobs |-> "absent"]
  /\ completed = [j \in Jobs |-> {}]

Move(j, from, to) == phase[j] = from /\ phase' = [phase EXCEPT ![j] = to]

Ask(j) == Move(j, "absent", "open") /\ UNCHANGED completed

Complete(j, s) ==
  /\ phase[j] = "open"
  /\ 1 .. s - 1 \subseteq completed[j]
  /\ completed' = [completed EXCEPT ![j] = @ \cup {s}]
  /\ UNCHANGED phase

Finish(j) ==
  /\ completed[j] = 1..NumSteps
  /\ Move(j, "open", "done")
  /\ UNCHANGED completed

GiveUp(j) == Move(j, "open", "dead") /\ UNCHANGED completed

Reopen(j) ==
  /\ Move(j, "dead", "open")
  /\ completed' = [completed EXCEPT ![j] = @ \ Substrate]

Next ==
  \E j \in Jobs :
    \/ Ask(j) \/ Finish(j) \/ GiveUp(j) \/ Reopen(j)
    \/ \E s \in 1..NumSteps : Complete(j, s)

Spec == Init /\ [][Next]_<<phase, completed>>
=============================================================================
