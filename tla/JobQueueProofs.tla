--------------------------- MODULE JobQueueProofs ---------------------------
(***************************************************************************)
(* Theorems about JobQueue, for every number of jobs, runners, steps,      *)
(* attempts, retries and faults.                                           *)
(*                                                                         *)
(* Typing holds whatever the faults are.  The rest is proved for processes *)
(* that may crash but do not stall ("stall" \notin FaultKinds): nothing in *)
(* the code fences a process that stops for longer than its heartbeat and  *)
(* then goes on, and then two runners execute the saga.                   *)
(***************************************************************************)
EXTENDS JobQueue, TLAPS

NoStalls == "stall" \notin FaultKinds

-----------------------------------------------------------------------------
(* Typing *)

LEMMA TypeOK_Init == Init => TypeOK
  BY ConstantsAssumption DEF Init, TypeOK, Row, RowStates, Idle, NoDelivery, Locations,
     Beating, InSaga, Steps, Ids, Plain

\* The parts of TypeOK.
RowOK == row \in [Jobs -> Row]
RunOK ==
  /\ run \in [Runners -> [pc : Locations, id : Ids \cup {NoDelivery}, done : SUBSET Steps]]
  /\ \A r \in Runners : run[r].pc # "idle" => JobOf(r) \in Jobs
RedisOK == DOMAIN redis \subseteq Ids /\ \A id \in DOMAIN redis : redis[id] \in Delivery
RestOK ==
  /\ failed \subseteq Jobs
  /\ stalled \subseteq Runners
  /\ sweep \in [todo : SUBSET (Jobs \X Nat), marking : SUBSET Jobs]
  /\ api \in [Jobs -> SUBSET {"enqueue", "recover"}]
  /\ retries \in [Jobs -> Nat]
  /\ verified \in [Jobs -> SUBSET Steps]
  /\ faults \in Nat

LEMMA Parts == TypeOK <=> RowOK /\ RunOK /\ RedisOK /\ RestOK
  BY DEF TypeOK, RowOK, RunOK, RedisOK, RestOK

LEMMA PartsNext == TypeOK' <=> RowOK' /\ RunOK' /\ RedisOK' /\ RestOK'
  BY Parts, PTL

LEMMA FreshIsDelivery == Fresh \in Delivery /\ Finished \in Delivery
  BY DEF Fresh, Finished, Delivery

LEMMA DeliveryUpdates ==
  ASSUME NEW d \in Delivery
  PROVE  /\ \A r \in Runners : [d EXCEPT !.st = "active", !.by = {r}] \in Delivery
         /\ [d EXCEPT !.st = "wait"] \in Delivery
         /\ \A n \in Nat : [d EXCEPT !.tries = n, !.by = {}, !.st = "delayed"] \in Delivery
         /\ \A n \in Nat : [d EXCEPT !.st = "wait", !.by = {}, !.stalls = n] \in Delivery
         /\ d.tries + 1 \in Nat /\ d.stalls + 1 \in Nat
  <1>1. ASSUME NEW r \in Runners PROVE [d EXCEPT !.st = "active", !.by = {r}] \in Delivery
    BY DEF Delivery
  <1>2. [d EXCEPT !.st = "wait"] \in Delivery
    BY DEF Delivery
  <1>3. ASSUME NEW n \in Nat
        PROVE  [d EXCEPT !.tries = n, !.by = {}, !.st = "delayed"] \in Delivery
    BY DEF Delivery
  <1>4. ASSUME NEW n \in Nat
        PROVE  [d EXCEPT !.st = "wait", !.by = {}, !.stalls = n] \in Delivery
    BY DEF Delivery
  <1>5. d.tries + 1 \in Nat /\ d.stalls + 1 \in Nat
    BY DEF Delivery
  <1> QED
    BY <1>1, <1>2, <1>3, <1>4, <1>5

LEMMA SetDeliveryTyped ==
  ASSUME RedisOK, NEW id \in DOMAIN redis, NEW d \in Delivery, SetDelivery(id, d)
  PROVE  RedisOK'
  BY DEF RedisOK, SetDelivery

LEMMA AddTyped ==
  ASSUME RedisOK, NEW id \in Ids, Add(id)
  PROVE  RedisOK'
  BY FreshIsDelivery DEF RedisOK, Add

\* A runner that moves within execute, taking its delivery along.
LEMMA MoveTyped ==
  ASSUME RunOK, NEW r \in Runners, run[r].pc # "idle", NEW pc \in Locations,
         NEW done \in SUBSET Steps,
         run' = [run EXCEPT ![r].pc = pc, ![r].done = done]
  PROVE  RunOK'
  BY DEF RunOK, JobOf

LEMMA GotoTyped ==
  ASSUME RunOK, NEW r \in Runners, run[r].pc # "idle", NEW pc \in Locations, Goto(r, pc)
  PROVE  RunOK'
  BY DEF RunOK, JobOf, Goto

LEMMA IdleTyped ==
  ASSUME RunOK, NEW r \in Runners, run' = [run EXCEPT ![r] = Idle]
  PROVE  RunOK'
  BY DEF RunOK, JobOf, Idle, Locations

\* One step per action: the parts it disturbs, then the parts it leaves alone.
LEMMA TypeOK_Next == TypeOK /\ [Next]_vars => TypeOK'
  <1> SUFFICES ASSUME TypeOK, [Next]_vars PROVE TypeOK'
    OBVIOUS
  <1>0. RowOK /\ RunOK /\ RedisOK /\ RestOK
    BY Parts
  <1>p. \A r \in Runners : run[r].pc # "idle" => JobOf(r) \in Jobs
    BY <1>0 DEF RunOK
  <1>1. ASSUME NEW r \in Runners, NEW id \in DOMAIN redis, Deliver(r, id)
        PROVE  TypeOK'
    <2>1. [redis[id] EXCEPT !.st = "active", !.by = {r}] \in Delivery /\ id \in Ids
      BY <1>0, DeliveryUpdates DEF RedisOK
    <2>2. RedisOK'
      BY <1>0, <1>1, <2>1, SetDeliveryTyped DEF Deliver
    <2>a. id[1] \in Jobs
      BY <2>1 DEF Ids
    <2>3. RunOK'
      BY <1>0, <1>1, <2>1, <2>a DEF Deliver, RunOK, JobOf, Locations
    <2> QED
      BY <1>0, <1>1, <2>2, <2>3, PartsNext DEF Deliver, RowOK, RestOK
  <1>2. ASSUME NEW r \in Runners, Ack(r) \/ Nack(r)
        PROVE  TypeOK'
    <2>1. ASSUME run[r].id \in DOMAIN redis
          PROVE  [redis[run[r].id] EXCEPT !.tries = @ + 1, !.by = {}, !.st = "delayed"]
                    \in Delivery
      BY <1>0, <2>1, DeliveryUpdates DEF RedisOK
    <2>2. RedisOK'
      BY <1>0, <1>2, <2>1, SetDeliveryTyped, FreshIsDelivery DEF Ack, Nack, RedisOK
    <2>3. run' = [run EXCEPT ![r] = Idle]
          /\ UNCHANGED <<row, failed, stalled, sweep, api, retries, verified, faults>>
      BY <1>2 DEF Ack, Nack
    <2> QED
      BY <1>0, <2>2, <2>3, IdleTyped, PartsNext DEF RowOK, RestOK
  <1>3. ASSUME NEW id \in DOMAIN redis, BackoffElapsed(id) \/ LockExpired(id)
        PROVE  TypeOK'
    <2>1. [redis[id] EXCEPT !.st = "wait"] \in Delivery
          /\ [redis[id] EXCEPT !.st = "wait", !.by = {}, !.stalls = @ + 1] \in Delivery
      BY <1>0, DeliveryUpdates DEF RedisOK
    <2>2. RedisOK'
      BY <1>0, <1>3, <2>1, SetDeliveryTyped, FreshIsDelivery DEF BackoffElapsed, LockExpired
    <2>3. UNCHANGED <<row, failed, run, stalled, sweep, api, retries, verified, faults>>
      BY <1>3 DEF BackoffElapsed, LockExpired
    <2> QED
      BY <1>0, <2>2, <2>3, PartsNext DEF RowOK, RunOK, RestOK, JobOf
  <1>4. ASSUME NEW id \in DOMAIN redis, Forget(id)
        PROVE  TypeOK'
    <2>1. RedisOK'
      BY <1>0, <1>4 DEF Forget, RedisOK
    <2> QED
      BY <1>0, <1>4, <2>1, PartsNext DEF Forget, Fault, RowOK, RunOK, RestOK, JobOf
  <1>5. ASSUME NEW r \in Runners, Claim(r)
        PROVE  TypeOK'
    <2>1. run[r].pc = "got" /\ JobOf(r) \in Jobs
          /\ UNCHANGED <<failed, redis, stalled, sweep, api, retries, verified, faults>>
      BY <1>5, <1>p DEF Claim
    <2>2. ASSUME Claimable(JobOf(r))
          PROVE  RowOK' /\ RunOK'
      <3> DEFINE pc == IF JobOf(r) \in Unregistered THEN "refuse" ELSE "next"
      <3>1. row' = [row EXCEPT ![JobOf(r)].st = "running", ![JobOf(r)].attempts = @ + 1,
                               ![JobOf(r)].fresh = TRUE]
            /\ run' = [run EXCEPT ![r].pc = pc, ![r].done = row[JobOf(r)].done]
        BY <1>0, <1>5, <2>2 DEF Claim, RunOK
      <3>2. pc \in Locations /\ row[JobOf(r)].done \in SUBSET Steps
        BY <1>0, <2>1 DEF Locations, Beating, InSaga, RowOK, Row
      <3>3. RunOK'
        BY <1>0, <2>1, <3>1, <3>2, MoveTyped
      <3>4. RowOK'
        BY <1>0, <2>1, <3>1 DEF RowOK, Row, RowStates
      <3> QED
        BY <3>3, <3>4
    <2>3. ASSUME ~Claimable(JobOf(r))
          PROVE  RowOK' /\ RunOK'
      BY <1>0, <1>5, <2>1, <2>3, GotoTyped DEF Claim, Locations, RowOK
    <2> QED
      BY <1>0, <2>1, <2>2, <2>3, PartsNext DEF RedisOK, RestOK
  <1>6. ASSUME NEW r \in Runners, BeginStep(r) \/ StepThrows(r)
        PROVE  TypeOK'
    <2>1. RunOK'
      BY <1>0, <1>6, GotoTyped DEF BeginStep, StepThrows, Locations, Beating, InSaga
    <2> QED
      BY <1>0, <1>6, <2>1, PartsNext DEF BeginStep, StepThrows, RowOK, RedisOK, RestOK
  <1>7. ASSUME NEW r \in Runners, StepCompletes(r)
        PROVE  TypeOK'
    <2>1. PICK s \in Steps :
            /\ run' = [run EXCEPT ![r].pc = "save", ![r].done = @ \cup {s}]
            /\ verified' = [verified EXCEPT ![JobOf(r)] = @ \cup {s}]
      BY <1>7 DEF StepCompletes
    <2>2. run[r].pc = "step" /\ run[r].done \cup {s} \in SUBSET Steps /\ "save" \in Locations
          /\ UNCHANGED <<row, failed, redis, stalled, sweep, api, retries, faults>>
      BY <1>0, <1>7 DEF StepCompletes, RunOK, Locations, Beating, InSaga
    <2>3. run' = [run EXCEPT ![r].pc = "save", ![r].done = run[r].done \cup {s}]
      BY <1>0, <2>1 DEF RunOK
    <2>4. RunOK'
      BY <1>0, <2>2, <2>3, MoveTyped
    <2>5. RestOK'
      BY <1>0, <2>1, <2>2 DEF RestOK
    <2> QED
      BY <1>0, <2>2, <2>4, <2>5, PartsNext DEF RowOK, RedisOK
  <1>8. ASSUME NEW r \in Runners, SaveCheckpoint(r)
        PROVE  TypeOK'
    <2>1. RunOK'
      BY <1>0, <1>8, GotoTyped DEF SaveCheckpoint, Locations, Beating, InSaga
    <2>2. RowOK'
      <3>1. run[r].done \in SUBSET Steps
        BY <1>0 DEF RunOK
      <3> QED
        BY <1>0, <1>8, <3>1 DEF SaveCheckpoint, RowOK, Row
    <2> QED
      BY <1>0, <1>8, <2>1, <2>2, PartsNext DEF SaveCheckpoint, RedisOK, RestOK
  <1>9. ASSUME NEW r \in Runners, Succeed(r)
        PROVE  TypeOK'
    <2>1. RunOK'
      BY <1>0, <1>9, GotoTyped DEF Succeed, Locations
    <2>2. RowOK'
      BY <1>0, <1>9 DEF Succeed, RowOK, Row, RowStates
    <2> QED
      BY <1>0, <1>9, <2>1, <2>2, PartsNext DEF Succeed, RedisOK, RestOK
  <1>10. ASSUME NEW r \in Runners, Fail(r)
         PROVE  TypeOK'
    <2> DEFINE st == IF Exhausted(r) THEN "dead_letter" ELSE "pending"
               pc == IF Exhausted(r) /\ run[r].pc = "fail" THEN "hook" ELSE "throw"
    <2>1. run[r].pc # "idle" /\ Goto(r, pc)
          /\ row' = [row EXCEPT ![JobOf(r)].st = st, ![JobOf(r)].fresh = FALSE]
          /\ UNCHANGED <<failed, redis, stalled, sweep, api, retries, verified, faults>>
      BY <1>10 DEF Fail, FailWith
    <2>2. pc \in Locations /\ st \in RowStates
      BY DEF Locations, Beating, RowStates
    <2>3. RunOK'
      BY <1>0, <2>1, <2>2, GotoTyped
    <2>4. RowOK'
      <3> HIDE DEF st
      <3> QED
        BY <1>0, <2>1, <2>2 DEF RowOK, Row
    <2> QED
      BY <1>0, <2>1, <2>3, <2>4, PartsNext DEF RedisOK, RestOK
  <1>11. ASSUME NEW r \in Runners, OnDeadLetter(r)
         PROVE  TypeOK'
    <2>1. RunOK'
      BY <1>0, <1>11, GotoTyped DEF OnDeadLetter, Locations
    <2> QED
      BY <1>0, <1>11, <1>p, <2>1, PartsNext DEF OnDeadLetter, RowOK, RedisOK, RestOK
  <1>12. ASSUME NEW r \in Runners, Beat(r)
         PROVE  TypeOK'
    <2>1. RowOK'
      BY <1>0, <1>12 DEF Beat, RowOK, Row
    <2> QED
      BY <1>0, <1>12, <2>1, PartsNext DEF Beat, RunOK, RedisOK, RestOK, JobOf
  <1>13. ASSUME NEW j \in Jobs, HeartbeatExpires(j)
         PROVE  TypeOK'
    <2>1. RowOK'
      BY <1>0, <1>13 DEF HeartbeatExpires, RowOK, Row
    <2> QED
      BY <1>0, <1>13, <2>1, PartsNext DEF HeartbeatExpires, RunOK, RedisOK, RestOK, JobOf
  <1>14. ASSUME NEW r \in Runners, DbError(r)
         PROVE  TypeOK'
    <2>1. PICK pc \in {"fail", "ok", "throw"} : Goto(r, pc)
      BY <1>14 DEF DbError
    <2>2. RunOK'
      BY <1>0, <1>14, <2>1, GotoTyped DEF DbError, Locations, Beating, InSaga
    <2> QED
      BY <1>0, <1>14, <2>2, PartsNext DEF DbError, Fault, RowOK, RedisOK, RestOK
  <1>15. ASSUME NEW r \in Runners, Crash(r)
         PROVE  TypeOK'
    <2>1. RedisOK'
      BY <1>0, <1>15 DEF Crash, RedisOK, Delivery
    <2>2. run' = [run EXCEPT ![r] = Idle]
          /\ stalled' = stalled \ {r} /\ faults' = faults + 1
          /\ UNCHANGED <<row, failed, sweep, api, retries, verified>>
      BY <1>15 DEF Crash, Fault
    <2>3. RestOK'
      BY <1>0, <2>2 DEF RestOK
    <2>4. RunOK'
      BY <1>0, <2>2, IdleTyped
    <2> QED
      BY <1>0, <2>1, <2>2, <2>3, <2>4, PartsNext DEF RowOK
  <1>16. ASSUME NEW r \in Runners, Stall(r) \/ Resume(r)
         PROVE  TypeOK'
    BY <1>0, <1>16, PartsNext DEF Stall, Resume, Fault, RowOK, RunOK, RedisOK, RestOK, JobOf
  <1>17. ASSUME SweepRead
         PROVE  TypeOK'
    <2> DEFINE batch == {j \in Orphans : Cardinality({k \in Orphans : k < j}) < BatchSize}
    <2>1. \A j \in batch : j \in Jobs /\ row[j].attempts \in Nat
      BY <1>0 DEF Orphans, RowOK, Row
    <2>2. sweep' = [todo |-> {<<j, row[j].attempts>> : j \in batch}, marking |-> {}]
      BY <1>17 DEF SweepRead
    <2>3. sweep' \in [todo : SUBSET (Jobs \X Nat), marking : SUBSET Jobs]
      <3> HIDE DEF batch
      <3> QED
        BY <2>1, <2>2
    <2>4. RestOK'
      BY <1>0, <1>17, <2>3 DEF SweepRead, RestOK
    <2> QED
      BY <1>0, <1>17, <2>4, PartsNext DEF SweepRead, RowOK, RunOK, RedisOK, JobOf
  <1>18. ASSUME NEW t \in sweep.todo, SweepDeliver(t)
         PROVE  TypeOK'
    <2>1. t \in Jobs \X Nat
      BY <1>0 DEF RestOK
    <2>2. RecoveryId(t[1], t[2]) \in Ids
      BY <2>1 DEF RecoveryId, Ids
    <2>3. RedisOK'
      BY <1>0, <1>18, <2>2, AddTyped DEF SweepDeliver, RedisOK
    <2>4. RestOK'
      BY <1>0, <1>18, <2>1 DEF SweepDeliver, RestOK
    <2> QED
      BY <1>0, <1>18, <2>3, <2>4, PartsNext DEF SweepDeliver, RowOK, RunOK, JobOf
  <1>19. ASSUME NEW j \in Jobs, SweepMark(j)
         PROVE  TypeOK'
    <2>1. RowOK'
      BY <1>0, <1>19 DEF SweepMark, RowOK, Row, RowStates
    <2> QED
      BY <1>0, <1>19, <2>1, PartsNext DEF SweepMark, RunOK, RedisOK, RestOK, JobOf
  <1>20. ASSUME SweepAborts
         PROVE  TypeOK'
    BY <1>0, <1>20, PartsNext DEF SweepAborts, Fault, RowOK, RunOK, RedisOK, RestOK, JobOf
  <1>21. ASSUME NEW j \in Jobs, Request(j)
         PROVE  TypeOK'
    <2>1. RowOK'
      BY <1>0, <1>21 DEF Request, RowOK, Row, RowStates
    <2> QED
      BY <1>0, <1>21, <2>1, PartsNext DEF Request, RunOK, RedisOK, RestOK, JobOf
  <1>22. ASSUME NEW j \in Jobs, Retry(j)
         PROVE  TypeOK'
    <2>1. RowOK'
      <3> DEFINE reset == [st |-> "pending", attempts |-> 0, fresh |-> FALSE,
                           done |-> row[j].done \ Substrate]
      <3>1. reset \in Row
        BY <1>0 DEF RowOK, Row, RowStates
      <3>2. row' = [row EXCEPT ![j] = reset]
        BY <1>22 DEF Retry, RetryWithout
      <3> HIDE DEF reset
      <3> QED
        BY <1>0, <3>1, <3>2 DEF RowOK
    <2>2. RestOK'
      BY <1>0, <1>22 DEF Retry, RetryWithout, RestOK
    <2> QED
      BY <1>0, <1>22, <2>1, <2>2, PartsNext DEF Retry, RetryWithout, RunOK, RedisOK, JobOf
  <1>23. ASSUME NEW j \in Jobs, Enqueue(j) \/ EnqueueRetry(j)
         PROVE  TypeOK'
    <2>1. <<j, Plain>> \in Ids /\ RecoveryId(j, retries[j]) \in Ids
      BY <1>0 DEF RecoveryId, Ids, RestOK
    <2>2. RedisOK'
      BY <1>0, <1>23, <2>1, AddTyped DEF Enqueue, EnqueueRetry, RedisOK
    <2>3. RestOK'
      BY <1>0, <1>23 DEF Enqueue, EnqueueRetry, RestOK
    <2> QED
      BY <1>0, <1>23, <2>2, <2>3, PartsNext DEF Enqueue, EnqueueRetry, RowOK, RunOK, JobOf
  <1>24. ASSUME NEW j \in Jobs, EnqueueFails(j)
         PROVE  TypeOK'
    <2>1. RestOK'
      BY <1>0, <1>24 DEF EnqueueFails, RestOK
    <2> QED
      BY <1>0, <1>24, <2>1, PartsNext DEF EnqueueFails, RowOK, RunOK, RedisOK, JobOf
  <1>25. ASSUME UNCHANGED vars
         PROVE  TypeOK'
    BY <1>0, <1>25, PartsNext DEF vars, RowOK, RunOK, RedisOK, RestOK, JobOf
  <1> QED
    BY <1>1, <1>2, <1>3, <1>4, <1>5, <1>6, <1>7, <1>8, <1>9, <1>10, <1>11, <1>12, <1>13,
       <1>14, <1>15, <1>16, <1>17, <1>18, <1>19, <1>20, <1>21, <1>22, <1>23, <1>24, <1>25
       DEF Next

\* Every variable keeps its type, under every fault.
THEOREM Typing == Spec => []TypeOK
  BY TypeOK_Init, TypeOK_Next, PTL DEF Spec

-----------------------------------------------------------------------------
(* The inductive invariant: who may touch a row, and what a runner's copy  *)
(* of the checkpoint is worth.                                             *)

\* A runner between the claim and the end of its dead-letter hook owns its row:
\* inside the saga the row is running and its heartbeat fresh, so no claim takes it;
\* in the hook the row is a dead letter that its project does not know of yet, so no
\* retry takes it.  Its copy of the checkpoint extends the row's by completed steps.
Owns(r) == run[r].pc \in Beating
RunnerInv(r) ==
  LET j == JobOf(r)
  IN /\ Owns(r) => j \notin Unregistered
     /\ run[r].pc = "hook" => row[j].st = "dead_letter" /\ j \notin failed
     /\ run[r].pc \in InSaga =>
          /\ row[j].st = "running" /\ row[j].fresh
          /\ row[j].done \subseteq run[r].done
          /\ run[r].done \subseteq verified[j]
     /\ run[r].pc \in {"next", "step"} => run[r].done = row[j].done
     /\ run[r].pc = "save" =>
          \E s \in Steps : 1 .. s - 1 \subseteq row[j].done /\ run[r].done = row[j].done \cup {s}
     /\ run[r].pc = "refuse" => j \in Unregistered /\ row[j].st # "none"

JobInv(j) ==
  /\ row[j].done \subseteq verified[j]
  /\ row[j].st = "succeeded" => j \notin Unregistered /\ row[j].done = Steps
  /\ j \in failed => j \notin Unregistered /\ row[j].st = "dead_letter"
  /\ row[j].st = "dead_letter" => row[j].attempts >= MaxAttempts

OneOwner == \A r, q \in Runners : Owns(r) /\ Owns(q) /\ JobOf(r) = JobOf(q) => r = q

IInv ==
  /\ TypeOK
  /\ stalled = {}
  /\ \A r \in Runners : RunnerInv(r)
  /\ \A j \in Jobs : JobInv(j)
  /\ OneOwner

LEMMA IInv_Init == Init => IInv
  <1> SUFFICES ASSUME Init PROVE IInv
    OBVIOUS
  <1>1. TypeOK
    BY TypeOK_Init
  <1>2. \A r \in Runners : run[r].pc = "idle"
    BY DEF Init, Idle
  <1>3. \A r \in Runners : RunnerInv(r) /\ ~Owns(r)
    BY <1>2 DEF RunnerInv, Owns, Beating, InSaga
  <1>4. \A j \in Jobs : JobInv(j)
    BY DEF Init, JobInv
  <1> QED
    BY <1>1, <1>3, <1>4 DEF Init, IInv, OneOwner

\* What the others may do around a runner without its noticing.
LEMMA RunnerFrame ==
  ASSUME NEW q \in Runners, RunnerInv(q), run'[q] = run[q],
         Owns(q) => /\ row'[JobOf(q)] = row[JobOf(q)]
                    /\ verified[JobOf(q)] \subseteq verified'[JobOf(q)]
                    /\ JobOf(q) \in failed' => JobOf(q) \in failed,
         run[q].pc = "refuse" => row'[JobOf(q)].st # "none"
  PROVE  RunnerInv(q)'
  BY DEF RunnerInv, JobOf, Owns, Beating, InSaga

\* Nobody becomes an owner: there still is one owner at most.
LEMMA OneOwnerKept ==
  ASSUME OneOwner,
         \A q \in Runners : Owns(q)' => Owns(q) /\ JobOf(q)' = JobOf(q)
  PROVE  OneOwner'
  BY DEF OneOwner

\* Steps that touch neither the rows nor where the runners are.
LEMMA QuietStep ==
  ASSUME IInv, TypeOK', UNCHANGED <<row, failed, run, stalled, verified>>
  PROVE  IInv'
  <1>1. \A q \in Runners : RunnerInv(q)'
    BY RunnerFrame DEF IInv, RunnerInv
  <1>2. \A j \in Jobs : JobInv(j)'
    BY DEF IInv, JobInv
  <1>3. OneOwner'
    BY OneOwnerKept DEF IInv, Owns, JobOf
  <1> QED
    BY <1>1, <1>2, <1>3 DEF IInv

\* Steps that only move a runner out of the way.
LEMMA LeavingStep ==
  ASSUME IInv, TypeOK', NEW r \in Runners, stalled' = {},
         UNCHANGED <<row, failed, verified>>,
         \A q \in Runners \ {r} : run'[q] = run[q],
         run'[r].pc \in {"idle", "got", "ok", "throw"}
  PROVE  IInv'
  <1>1. ASSUME NEW q \in Runners PROVE RunnerInv(q)'
    <2>1. CASE q = r
      BY <2>1 DEF RunnerInv, Owns, Beating, InSaga
    <2>2. CASE q # r
      BY <2>2, RunnerFrame DEF IInv, RunnerInv
    <2> QED
      BY <2>1, <2>2
  <1>2. \A j \in Jobs : JobInv(j)'
    BY DEF IInv, JobInv
  <1>3. OneOwner'
    <2>1. ~Owns(r)'
      BY DEF Owns, Beating, InSaga
    <2> QED
      BY <2>1, OneOwnerKept DEF IInv, Owns, JobOf
  <1> QED
    BY <1>1, <1>2, <1>3 DEF IInv

\* What a step may do to the rows of the other jobs.
RowsKept(ks) ==
  \A k \in ks : row'[k] = row[k] /\ verified'[k] = verified[k] /\ (k \in failed' => k \in failed)

\* A step on the row of j disturbs no runner that does not own j.
LEMMA BystanderKept ==
  ASSUME IInv, NEW j \in Jobs, RowsKept(Jobs \ {j}), row'[j].st # "none",
         NEW q \in Runners, run'[q] = run[q], Owns(q) => JobOf(q) # j
  PROVE  RunnerInv(q)'
  <1>1. RunnerInv(q) /\ (Owns(q) => JobOf(q) \in Jobs)
    BY DEF IInv, TypeOK, Owns, Beating, InSaga
  <1>3. run[q].pc = "refuse" => row'[JobOf(q)].st # "none"
    <2>1. run[q].pc = "refuse" => JobOf(q) \in Jobs /\ row[JobOf(q)].st # "none"
      BY <1>1 DEF IInv, TypeOK, RunnerInv
    <2> QED
      BY <2>1 DEF RowsKept
  <1>2. ASSUME Owns(q)
        PROVE  /\ row'[JobOf(q)] = row[JobOf(q)]
               /\ verified[JobOf(q)] \subseteq verified'[JobOf(q)]
               /\ JobOf(q) \in failed' => JobOf(q) \in failed
    BY <1>1, <1>2 DEF RowsKept
  <1> QED
    BY <1>1, <1>2, <1>3, RunnerFrame

LEMMA JobsKept ==
  ASSUME IInv, NEW j \in Jobs, RowsKept(Jobs \ {j}), JobInv(j)', NEW k \in Jobs
  PROVE  JobInv(k)'
  <1>1. CASE k = j
    BY <1>1
  <1>2. CASE k # j
    BY <1>2 DEF IInv, JobInv, RowsKept
  <1> QED
    BY <1>1, <1>2

\* A runner that owns its row works on it: nobody else's view changes.
LEMMA OwnerStep ==
  ASSUME IInv, TypeOK', NEW r \in Runners, NEW j \in Jobs, Owns(r), j = JobOf(r),
         stalled' = {}, row'[j].st # "none",
         \A q \in Runners \ {r} : run'[q] = run[q],
         run'[r].id = run[r].id,
         RowsKept(Jobs \ {j}), RunnerInv(r)', JobInv(j)'
  PROVE  IInv'
  <1>1. ASSUME NEW q \in Runners PROVE RunnerInv(q)'
    <2>1. CASE q = r
      BY <2>1
    <2>2. CASE q # r
      <3>1. Owns(q) => JobOf(q) # j
        BY <2>2 DEF IInv, OneOwner
      <3> QED
        BY <2>2, <3>1, BystanderKept
    <2> QED
      BY <2>1, <2>2
  <1>2. OneOwner'
    <2>1. JobOf(r)' = JobOf(r)
      BY DEF JobOf
    <2>2. \A q \in Runners \ {r} : Owns(q)' = Owns(q) /\ JobOf(q)' = JobOf(q)
      BY DEF Owns, JobOf
    <2> QED
      BY <2>1, <2>2, OneOwnerKept DEF IInv
  <1> QED
    BY <1>1, <1>2, JobsKept DEF IInv

\* A row that nobody owns changes.
LEMMA UnownedRowStep ==
  ASSUME IInv, TypeOK', NEW j \in Jobs, \A q \in Runners : Owns(q) => JobOf(q) # j,
         UNCHANGED <<run, stalled>>, RowsKept(Jobs \ {j}), JobInv(j)',
         row'[j].st # "none"
  PROVE  IInv'
  <1>1. \A q \in Runners : RunnerInv(q)'
    BY BystanderKept
  <1>2. OneOwner'
    BY OneOwnerKept DEF IInv, Owns, JobOf
  <1> QED
    BY <1>1, <1>2, JobsKept DEF IInv

\* The one step that makes an owner.
LEMMA ClaimStep ==
  ASSUME IInv, TypeOK', NEW r \in Runners, Claim(r)
  PROVE  IInv'
  <1> DEFINE j == JobOf(r)
  <1>1. run \in [Runners -> [pc : Locations, id : Ids \cup {NoDelivery}, done : SUBSET Steps]]
        /\ row \in [Jobs -> Row] /\ j \in Jobs
        /\ run[r].pc = "got" /\ stalled' = {} /\ UNCHANGED <<failed, verified>>
    BY DEF IInv, TypeOK, Claim
  <1>2. CASE ~Claimable(j)
    BY <1>1, <1>2, LeavingStep DEF Claim, Goto
  <1>3. CASE Claimable(j)
    <2>1. row' = [row EXCEPT ![j].st = "running", ![j].attempts = @ + 1, ![j].fresh = TRUE]
          /\ run' = [run EXCEPT ![r].done = row[j].done,
                                ![r].pc = IF j \in Unregistered THEN "refuse" ELSE "next"]
      BY <1>3 DEF Claim
    <2>2. row'[j].st = "running" /\ row'[j].fresh /\ row'[j].done = row[j].done
          /\ \A k \in Jobs \ {j} : row'[k] = row[k]
      BY <1>1, <2>1 DEF Row
    <2>3. run'[r].id = run[r].id /\ run'[r].done = row[j].done
          /\ run'[r].pc = (IF j \in Unregistered THEN "refuse" ELSE "next")
          /\ \A q \in Runners \ {r} : run'[q] = run[q]
      BY <1>1, <2>1
    <2>4. JobInv(j) /\ \A q \in Runners : RunnerInv(q)
      BY <1>1 DEF IInv
    <2>5. \A q \in Runners : Owns(q) => JobOf(q) # j
      BY <1>3, <2>4 DEF RunnerInv, Owns, Claimable, Beating
    <2>6. ASSUME NEW q \in Runners PROVE RunnerInv(q)'
      <3>1. CASE q = r
        BY <1>1, <2>2, <2>3, <2>4, <3>1
           DEF RunnerInv, JobInv, Owns, JobOf, Beating, InSaga
      <3>2. CASE q # r
        <4>1. Owns(q) => JobOf(q) \in Jobs
          BY DEF IInv, TypeOK, Owns, Beating, InSaga
        <4>2. run[q].pc = "refuse" => row'[JobOf(q)].st # "none"
          <5>1. run[q].pc = "refuse" => JobOf(q) \in Jobs /\ row[JobOf(q)].st # "none"
            BY <2>4 DEF IInv, TypeOK, RunnerInv
          <5> QED
            BY <2>2, <5>1
        <4> QED
          BY <1>1, <2>2, <2>3, <2>4, <2>5, <3>2, <4>1, <4>2, RunnerFrame
      <3> QED
        BY <3>1, <3>2
    <2>7. ASSUME NEW k \in Jobs PROVE JobInv(k)'
      BY <1>1, <1>3, <2>2 DEF IInv, JobInv, Claimable
    <2>8. OneOwner'
      BY <2>3, <2>5 DEF IInv, OneOwner, Owns, JobOf
    <2> QED
      BY <1>1, <2>6, <2>7, <2>8 DEF IInv
  <1> QED
    BY <1>2, <1>3

\* A job of a type without a saga fails: no owner, no checkpoint, no project to mark.
LEMMA RefuseStep ==
  ASSUME IInv, TypeOK', NEW r \in Runners, run[r].pc = "refuse", Fail(r)
  PROVE  IInv'
  <1>j. PICK j \in Jobs : j = JobOf(r)
    BY DEF IInv, TypeOK
  <1>1. j \in Unregistered
    BY <1>j DEF IInv, RunnerInv
  <1>2. run' = [run EXCEPT ![r].pc = "throw"] /\ stalled' = {} /\ UNCHANGED <<failed, verified>>
    BY DEF Fail, FailWith, Goto, IInv
  <1>3. PICK st \in {"dead_letter", "pending"} :
          /\ row' = [row EXCEPT ![j].st = st, ![j].fresh = FALSE]
          /\ st = "dead_letter" <=> row[j].attempts >= MaxAttempts
    BY <1>j DEF Fail, FailWith, Exhausted
  <1>4. row \in [Jobs -> Row] /\ \A q \in Runners : RunnerInv(q)
    BY DEF IInv, TypeOK
  <1>5. row'[j].st = st /\ row'[j].done = row[j].done /\ row'[j].attempts = row[j].attempts
        /\ RowsKept(Jobs \ {j})
    BY <1>1, <1>2, <1>3, <1>4 DEF Row, RowsKept
  <1>6. \A q \in Runners : Owns(q) => JobOf(q) # j
    BY <1>1, <1>4 DEF RunnerInv
  <1>7. run'[r].pc = "throw" /\ \A q \in Runners \ {r} : run'[q] = run[q]
    BY <1>2 DEF IInv, TypeOK
  <1>8. ASSUME NEW q \in Runners PROVE RunnerInv(q)'
    <2>1. CASE q = r
      BY <1>7, <2>1 DEF RunnerInv, Owns, Beating, InSaga
    <2>2. CASE q # r
      BY <1>1, <1>5, <1>6, <1>7, <2>2, BystanderKept
    <2> QED
      BY <2>1, <2>2
  <1>9. JobInv(j)'
    <2>1. JobInv(j)
      BY <1>1 DEF IInv
    <2> QED
      BY <1>1, <1>2, <1>3, <1>5, <2>1 DEF JobInv
  <1>10. OneOwner'
    <2>1. ~Owns(r)'
      BY <1>7 DEF Owns, Beating, InSaga
    <2>2. \A q \in Runners \ {r} : Owns(q)' = Owns(q) /\ JobOf(q)' = JobOf(q)
      BY <1>7 DEF Owns, JobOf
    <2> QED
      BY <2>1, <2>2, OneOwnerKept DEF IInv
  <1>11. \A k \in Jobs : JobInv(k)'
    BY <1>1, <1>5, <1>9, JobsKept
  <1> QED
    BY <1>2, <1>8, <1>10, <1>11 DEF IInv

\* The steps of an owner, one by one.
LEMMA SagaStep ==
  ASSUME IInv, TypeOK', NEW r \in Runners,
         \/ BeginStep(r) \/ StepCompletes(r) \/ StepThrows(r) \/ SaveCheckpoint(r)
         \/ Succeed(r) \/ OnDeadLetter(r) \/ Beat(r)
         \/ (Fail(r) /\ run[r].pc = "fail")
  PROVE  IInv'
  <1>j. PICK j \in Jobs : j = JobOf(r)
    BY DEF IInv, TypeOK, Beating, InSaga, BeginStep, StepCompletes, StepThrows,
           SaveCheckpoint, Succeed, Fail, FailWith, OnDeadLetter, Beat
  <1>1. Owns(r) /\ RunnerInv(r) /\ j \in Jobs /\ JobInv(j) /\ stalled' = {}
    BY DEF IInv, TypeOK, Owns, Beating, InSaga, BeginStep, StepCompletes, StepThrows,
           SaveCheckpoint, Succeed, Fail, FailWith, OnDeadLetter, Beat
  <1>2. run \in [Runners -> [pc : Locations, id : Ids \cup {NoDelivery}, done : SUBSET Steps]]
        /\ row \in [Jobs -> Row] /\ verified \in [Jobs -> SUBSET Steps]
    BY DEF IInv, TypeOK
  <1>n. row[j].st # "none"
    BY <1>j, <1>1 DEF RunnerInv, Owns, Beating
  <1> USE <1>1, <1>2, <1>j
  <1>s. SUFFICES /\ \A q \in Runners \ {r} : run'[q] = run[q]
                 /\ run'[r].id = run[r].id
                 /\ row'[j].st # "none"
                 /\ RowsKept(Jobs \ {j}) /\ RunnerInv(r)' /\ JobInv(j)'
    BY OwnerStep
  <1>3. ASSUME BeginStep(r) \/ StepThrows(r)
        PROVE  /\ \A q \in Runners \ {r} : run'[q] = run[q]
               /\ run'[r].id = run[r].id
               /\ row'[j].st # "none"
               /\ RowsKept(Jobs \ {j}) /\ RunnerInv(r)' /\ JobInv(j)'
    <2>1. \A q \in Runners \ {r} : run'[q] = run[q]
      BY <1>3 DEF BeginStep, StepThrows, Goto
    <2>2. run'[r].id = run[r].id /\ run'[r].done = run[r].done
          /\ UNCHANGED <<row, failed, verified>>
          /\ \/ run[r].pc = "next" /\ run'[r].pc = "step"
             \/ run[r].pc = "step" /\ run'[r].pc = "fail"
      BY <1>3 DEF BeginStep, StepThrows, Goto
    <2>3. RunnerInv(r)'
      BY <2>2 DEF RunnerInv, JobOf, Owns, Beating, InSaga
    <2> QED
      BY <1>n, <2>1, <2>2, <2>3 DEF RowsKept, JobInv
  <1>4. ASSUME StepCompletes(r)
        PROVE  /\ \A q \in Runners \ {r} : run'[q] = run[q]
               /\ run'[r].id = run[r].id
               /\ row'[j].st # "none"
               /\ RowsKept(Jobs \ {j}) /\ RunnerInv(r)' /\ JobInv(j)'
    <2>1. PICK s \in Steps :
            /\ IsNext(r, s)
            /\ run' = [run EXCEPT ![r].pc = "save", ![r].done = @ \cup {s}]
            /\ verified' = [verified EXCEPT ![j] = @ \cup {s}]
            /\ run[r].pc = "step" /\ UNCHANGED <<row, failed>>
      BY <1>4 DEF StepCompletes
    <2>2. run'[r].pc = "save" /\ run'[r].done = run[r].done \cup {s} /\ run'[r].id = run[r].id
          /\ \A q \in Runners \ {r} : run'[q] = run[q]
      BY <2>1
    <2>3. verified'[j] = verified[j] \cup {s} /\ RowsKept(Jobs \ {j})
      BY <2>1 DEF RowsKept
    <2>4. run[r].done = row[j].done /\ 1 .. s - 1 \subseteq row[j].done
      <3>1. run[r].done = row[j].done
        BY <2>1 DEF RunnerInv
      <3>2. ASSUME NEW t \in 1 .. s - 1 PROVE t \in run[r].done
        BY <2>1, <3>2, ConstantsAssumption DEF IsNext, Todo, Steps
      <3> QED
        BY <3>1, <3>2
    <2>5. RunnerInv(r)'
      BY <2>1, <2>2, <2>3, <2>4 DEF RunnerInv, JobOf, Owns, Beating, InSaga
    <2>6. JobInv(j)'
      BY <2>1, <2>3 DEF JobInv
    <2> QED
      BY <1>n, <2>1, <2>2, <2>3, <2>5, <2>6
  <1>5. ASSUME SaveCheckpoint(r)
        PROVE  /\ \A q \in Runners \ {r} : run'[q] = run[q]
               /\ run'[r].id = run[r].id
               /\ row'[j].st # "none"
               /\ RowsKept(Jobs \ {j}) /\ RunnerInv(r)' /\ JobInv(j)'
    <2>1. row' = [row EXCEPT ![j].done = run[r].done]
          /\ run' = [run EXCEPT ![r].pc = "next"]
          /\ run[r].pc = "save" /\ UNCHANGED <<failed, verified>>
      BY <1>5 DEF SaveCheckpoint, Goto
    <2>2. run'[r].pc = "next" /\ run'[r].done = run[r].done /\ run'[r].id = run[r].id
          /\ \A q \in Runners \ {r} : run'[q] = run[q]
      BY <2>1
    <2>3. row'[j].st = row[j].st /\ row'[j].fresh = row[j].fresh /\ row'[j].done = run[r].done
          /\ row'[j].attempts = row[j].attempts
          /\ RowsKept(Jobs \ {j})
      BY <2>1 DEF Row, RowsKept
    <2>4. RunnerInv(r)'
      BY <2>1, <2>2, <2>3 DEF RunnerInv, JobOf, Owns, Beating, InSaga
    <2>5. JobInv(j)'
      BY <2>1, <2>3 DEF JobInv, RunnerInv, InSaga
    <2> QED
      BY <1>n, <2>2, <2>3, <2>4, <2>5
  <1>6. ASSUME Succeed(r)
        PROVE  /\ \A q \in Runners \ {r} : run'[q] = run[q]
               /\ run'[r].id = run[r].id
               /\ row'[j].st # "none"
               /\ RowsKept(Jobs \ {j}) /\ RunnerInv(r)' /\ JobInv(j)'
    <2>1. row' = [row EXCEPT ![j].st = "succeeded", ![j].fresh = FALSE]
          /\ run' = [run EXCEPT ![r].pc = "ok"]
          /\ run[r].pc = "next" /\ Todo(r) = {} /\ UNCHANGED <<failed, verified>>
      BY <1>6 DEF Succeed, Goto
    <2>2. run'[r].pc = "ok" /\ run'[r].id = run[r].id
          /\ \A q \in Runners \ {r} : run'[q] = run[q]
      BY <2>1
    <2>3. row'[j].done = row[j].done /\ row'[j].st = "succeeded" /\ RowsKept(Jobs \ {j})
      BY <2>1 DEF Row, RowsKept
    <2>4. row[j].done = Steps /\ row[j].st = "running" /\ j \notin Unregistered
      BY <2>1 DEF RunnerInv, Todo, Owns, InSaga
    <2>5. RunnerInv(r)'
      BY <2>2 DEF RunnerInv, Owns, Beating, InSaga
    <2>6. JobInv(j)'
      BY <2>1, <2>3, <2>4 DEF JobInv
    <2> QED
      BY <2>2, <2>3, <2>5, <2>6
  <1>7. ASSUME Fail(r), run[r].pc = "fail"
        PROVE  /\ \A q \in Runners \ {r} : run'[q] = run[q]
               /\ run'[r].id = run[r].id
               /\ row'[j].st # "none"
               /\ RowsKept(Jobs \ {j}) /\ RunnerInv(r)' /\ JobInv(j)'
    <2>1. PICK st \in {"dead_letter", "pending"} :
            /\ row' = [row EXCEPT ![j].st = st, ![j].fresh = FALSE]
            /\ st = "dead_letter" => row[j].attempts >= MaxAttempts
            /\ run' = [run EXCEPT ![r].pc = IF st = "dead_letter" THEN "hook" ELSE "throw"]
            /\ UNCHANGED <<failed, verified>>
      <3>1. CASE Exhausted(r)
        BY <1>7, <3>1 DEF Fail, FailWith, Goto, Exhausted
      <3>2. CASE ~Exhausted(r)
        BY <1>7, <3>2 DEF Fail, FailWith, Goto
      <3> QED
        BY <3>1, <3>2
    <2>2. run'[r].pc = (IF st = "dead_letter" THEN "hook" ELSE "throw") /\ run'[r].id = run[r].id
          /\ \A q \in Runners \ {r} : run'[q] = run[q]
      BY <2>1
    <2>3. row'[j].st = st /\ row'[j].done = row[j].done /\ row'[j].attempts = row[j].attempts
          /\ RowsKept(Jobs \ {j})
      BY <2>1 DEF Row, RowsKept
    <2>4. row[j].st = "running" /\ j \notin Unregistered /\ j \notin failed
      BY <1>7 DEF RunnerInv, JobInv, Owns, InSaga
    <2>5. RunnerInv(r)'
      <3>1. JobOf(r)' = j /\ failed' = failed
        BY <2>1, <2>2 DEF JobOf
      <3>2. CASE st = "dead_letter"
        <4>1. run'[r].pc = "hook" /\ row'[j].st = "dead_letter" /\ j \notin failed'
          BY <2>2, <2>3, <2>4, <3>1, <3>2
        <4> QED
          BY <2>4, <3>1, <4>1 DEF RunnerInv, InSaga
      <3>3. CASE st = "pending"
        <4>1. run'[r].pc = "throw"
          BY <2>2, <3>3
        <4> QED
          BY <4>1 DEF RunnerInv, Owns, Beating, InSaga
      <3> QED
        BY <3>2, <3>3
    <2>6. JobInv(j)'
      BY <2>1, <2>3, <2>4 DEF JobInv
    <2> QED
      BY <2>2, <2>3, <2>5, <2>6
  <1>8. ASSUME OnDeadLetter(r)
        PROVE  /\ \A q \in Runners \ {r} : run'[q] = run[q]
               /\ run'[r].id = run[r].id
               /\ row'[j].st # "none"
               /\ RowsKept(Jobs \ {j}) /\ RunnerInv(r)' /\ JobInv(j)'
    <2>1. run' = [run EXCEPT ![r].pc = "ok"] /\ failed' = failed \cup {j}
          /\ run[r].pc = "hook" /\ UNCHANGED <<row, verified>>
      BY <1>8 DEF OnDeadLetter, Goto
    <2>2. run'[r].pc = "ok" /\ run'[r].id = run[r].id
          /\ \A q \in Runners \ {r} : run'[q] = run[q]
      BY <2>1
    <2>3. RunnerInv(r)'
      BY <2>2 DEF RunnerInv, Owns, Beating, InSaga
    <2>4. JobInv(j)'
      BY <2>1 DEF JobInv, RunnerInv, Owns, Beating
    <2> QED
      BY <1>n, <2>1, <2>2, <2>3, <2>4 DEF RowsKept
  <1>9. ASSUME Beat(r)
        PROVE  /\ \A q \in Runners \ {r} : run'[q] = run[q]
               /\ run'[r].id = run[r].id
               /\ row'[j].st # "none"
               /\ RowsKept(Jobs \ {j}) /\ RunnerInv(r)' /\ JobInv(j)'
    <2>1. row' = [row EXCEPT ![j].fresh = TRUE] /\ UNCHANGED <<run, failed, verified>>
      BY <1>9 DEF Beat
    <2>2. row'[j].st = row[j].st /\ row'[j].done = row[j].done /\ row'[j].fresh
          /\ row'[j].attempts = row[j].attempts
          /\ RowsKept(Jobs \ {j})
      BY <2>1 DEF Row, RowsKept
    <2>3. RunnerInv(r)'
      BY <2>1, <2>2 DEF RunnerInv, JobOf, Owns, Beating, InSaga
    <2>4. JobInv(j)'
      BY <2>1, <2>2 DEF JobInv
    <2> QED
      BY <1>n, <2>1, <2>2, <2>3, <2>4
  <1> QED
    BY <1>3, <1>4, <1>5, <1>6, <1>7, <1>8, <1>9

\* The steps on a row nobody owns: a heartbeat expires only without an owner to beat
\* it, and an owner's row is neither pending, nor absent, nor failed.
LEMMA UnownedSteps ==
  ASSUME IInv, TypeOK', NEW j \in Jobs,
         HeartbeatExpires(j) \/ SweepMark(j) \/ Request(j) \/ Retry(j)
  PROVE  IInv'
  <1>1. row \in [Jobs -> Row] /\ verified \in [Jobs -> SUBSET Steps] /\ stalled = {} /\ JobInv(j)
    BY DEF IInv, TypeOK
  <1>2. \A r \in Runners : Owns(r) /\ JobOf(r) = j =>
          \/ row[j].st = "running"
          \/ row[j].st = "dead_letter" /\ j \notin failed
    BY DEF IInv, RunnerInv, Owns, Beating
  <1>3. UNCHANGED <<run, stalled>>
    BY DEF HeartbeatExpires, SweepMark, Request, Retry, RetryWithout
  <1>4. ASSUME HeartbeatExpires(j) PROVE IInv'
    <2>1. \A r \in Runners : Owns(r) => JobOf(r) # j
      BY <1>1, <1>4 DEF HeartbeatExpires, Awake, Owns
    <2>2. row' = [row EXCEPT ![j].fresh = FALSE] /\ UNCHANGED <<failed, verified>>
      BY <1>4 DEF HeartbeatExpires
    <2>3. RowsKept(Jobs \ {j}) /\ row'[j].st = row[j].st /\ row'[j].done = row[j].done
          /\ row'[j].attempts = row[j].attempts
      BY <1>1, <2>2 DEF RowsKept, Row
    <2>4. JobInv(j)'
      BY <1>1, <2>2, <2>3 DEF JobInv
    <2> QED
      BY <1>3, <1>4, <2>1, <2>3, <2>4, UnownedRowStep DEF HeartbeatExpires
  <1>5. ASSUME SweepMark(j) PROVE IInv'
    <2>1. row' = (IF row[j].st = "pending" THEN [row EXCEPT ![j].st = "enqueued"] ELSE row)
          /\ UNCHANGED <<failed, verified>>
      BY <1>5 DEF SweepMark
    <2>2. CASE row[j].st = "pending"
      <3>1. RowsKept(Jobs \ {j}) /\ row'[j].st = "enqueued" /\ row'[j].done = row[j].done
        BY <1>1, <2>1, <2>2 DEF RowsKept, Row
      <3>2. JobInv(j)'
        BY <1>1, <2>1, <2>2, <3>1 DEF JobInv
      <3> QED
        BY <1>2, <1>3, <2>2, <3>1, <3>2, UnownedRowStep
    <2>3. CASE row[j].st # "pending"
      BY <1>3, <2>1, <2>3, QuietStep
    <2> QED
      BY <2>2, <2>3
  <1>6. ASSUME Request(j) PROVE IInv'
    <2>1. row' = [row EXCEPT ![j].st = "pending"] /\ row[j].st = "none"
          /\ UNCHANGED <<failed, verified>>
      BY <1>6 DEF Request
    <2>2. RowsKept(Jobs \ {j}) /\ row'[j].st = "pending" /\ row'[j].done = row[j].done
      BY <1>1, <2>1 DEF RowsKept, Row
    <2>3. JobInv(j)'
      BY <1>1, <2>1, <2>2 DEF JobInv
    <2> QED
      BY <1>2, <1>3, <2>1, <2>2, <2>3, UnownedRowStep
  <1>7. ASSUME Retry(j) PROVE IInv'
    <2>1. row' = [row EXCEPT ![j] = [st |-> "pending", attempts |-> 0, fresh |-> FALSE,
                                     done |-> row[j].done \ Substrate]]
          /\ row[j].st = "dead_letter" /\ j \in failed /\ failed' = failed \ {j}
          /\ verified' = [verified EXCEPT ![j] = @ \ Substrate]
      BY <1>7 DEF Retry, RetryWithout
    <2>2. RowsKept(Jobs \ {j}) /\ row'[j].st = "pending"
          /\ row'[j].done = row[j].done \ Substrate
          /\ verified'[j] = verified[j] \ Substrate
      BY <1>1, <2>1 DEF RowsKept
    <2>3. JobInv(j)'
      BY <1>1, <2>1, <2>2 DEF JobInv
    <2> QED
      BY <1>2, <1>3, <2>1, <2>2, <2>3, UnownedRowStep
  <1> QED
    BY <1>4, <1>5, <1>6, <1>7

LEMMA IInv_Next == NoStalls /\ IInv /\ [Next]_vars => IInv'
  <1> SUFFICES ASSUME NoStalls, IInv, [Next]_vars PROVE IInv'
    OBVIOUS
  <1>1. TypeOK' /\ stalled = {}
    BY TypeOK_Next DEF IInv
  <1>r. run \in [Runners -> [pc : Locations, id : Ids \cup {NoDelivery}, done : SUBSET Steps]]
    BY DEF IInv, TypeOK
  <1>2. ASSUME NEW r \in Runners, NEW id \in DOMAIN redis, Deliver(r, id)
        PROVE  IInv'
    BY <1>1, <1>r, <1>2, LeavingStep DEF Deliver
  <1>3. ASSUME NEW r \in Runners, Ack(r) \/ Nack(r)
        PROVE  IInv'
    <2>1. run' = [run EXCEPT ![r] = Idle] /\ UNCHANGED <<row, failed, stalled, verified>>
      BY <1>3 DEF Ack, Nack
    <2>2. run'[r].pc = "idle" /\ \A q \in Runners \ {r} : run'[q] = run[q]
      BY <1>r, <2>1 DEF Idle
    <2> QED
      BY <1>1, <2>1, <2>2, LeavingStep
  <1>4. ASSUME NEW r \in Runners, Crash(r)
        PROVE  IInv'
    <2>1. run' = [run EXCEPT ![r] = Idle] /\ stalled' = {} /\ UNCHANGED <<row, failed, verified>>
      BY <1>1, <1>4 DEF Crash, Fault
    <2>2. run'[r].pc = "idle" /\ \A q \in Runners \ {r} : run'[q] = run[q]
      BY <1>r, <2>1 DEF Idle
    <2> QED
      BY <1>1, <2>1, <2>2, LeavingStep
  <1>5. ASSUME NEW r \in Runners, DbError(r)
        PROVE  IInv'
    <2>1. UNCHANGED <<row, failed, stalled, verified>>
          /\ \/ run[r].pc \in {"next", "save"} /\ Goto(r, "fail")
             \/ Goto(r, "ok") \/ Goto(r, "throw")
      BY <1>5 DEF DbError, Fault
    <2>2. ASSUME Goto(r, "ok") \/ Goto(r, "throw") PROVE IInv'
      BY <1>1, <1>r, <2>1, <2>2, LeavingStep DEF Goto
    <2>3. ASSUME run[r].pc \in {"next", "save"}, Goto(r, "fail") PROVE IInv'
      <3>1. Owns(r) /\ RunnerInv(r) /\ JobOf(r) \in Jobs
        BY <2>3 DEF IInv, TypeOK, Owns, Beating, InSaga
      <3>2. run'[r].pc = "fail" /\ run'[r].id = run[r].id /\ run'[r].done = run[r].done
            /\ \A q \in Runners \ {r} : run'[q] = run[q]
        BY <1>r, <2>3 DEF Goto
      <3>3. RunnerInv(r)'
        BY <2>1, <2>3, <3>1, <3>2 DEF RunnerInv, JobOf, Owns, Beating, InSaga
      <3>4. PICK j \in Jobs : j = JobOf(r)
        BY <3>1
      <3>5. RowsKept(Jobs \ {j}) /\ JobInv(j)' /\ row'[j].st # "none"
        BY <2>1, <2>3, <3>1, <3>4 DEF RowsKept, IInv, JobInv, RunnerInv, InSaga
      <3> QED
        BY <1>1, <2>1, <3>1, <3>2, <3>3, <3>4, <3>5, OwnerStep
    <2> QED
      BY <2>1, <2>2, <2>3
  <1>6. ASSUME NEW r \in Runners, Claim(r)
        PROVE  IInv'
    BY <1>1, <1>6, ClaimStep
  <1>7. ASSUME NEW r \in Runners,
               \/ BeginStep(r) \/ StepCompletes(r) \/ StepThrows(r) \/ SaveCheckpoint(r)
               \/ Succeed(r) \/ Fail(r) \/ OnDeadLetter(r) \/ Beat(r)
        PROVE  IInv'
    <2>1. Fail(r) => run[r].pc \in {"fail", "refuse"}
      BY DEF Fail, FailWith
    <2>2. CASE Fail(r) /\ run[r].pc = "refuse"
      BY <1>1, <2>2, RefuseStep
    <2>3. CASE ~(Fail(r) /\ run[r].pc = "refuse")
      <3>1. Fail(r) => run[r].pc = "fail"
        BY <2>1, <2>3
      <3> QED
        BY <1>1, <1>7, <3>1, SagaStep
    <2> QED
      BY <2>2, <2>3
  <1>8. ASSUME NEW r \in Runners, Stall(r) \/ Resume(r)
        PROVE  IInv'
    BY <1>1, <1>8 DEF Stall, Resume, Fault, NoStalls
  <1>9. ASSUME NEW j \in Jobs,
               HeartbeatExpires(j) \/ SweepMark(j) \/ Request(j) \/ Retry(j)
        PROVE  IInv'
    BY <1>1, <1>9, UnownedSteps
  <1>10. ASSUME UNCHANGED <<row, failed, run, stalled, verified>>
         PROVE  IInv'
    BY <1>1, <1>10, QuietStep
  <1>11. ASSUME NEW id \in DOMAIN redis, BackoffElapsed(id) \/ LockExpired(id) \/ Forget(id)
         PROVE  IInv'
    BY <1>10, <1>11 DEF BackoffElapsed, LockExpired, Forget
  <1>12. ASSUME NEW j \in Jobs, Enqueue(j) \/ EnqueueRetry(j) \/ EnqueueFails(j)
         PROVE  IInv'
    BY <1>10, <1>12 DEF Enqueue, EnqueueRetry, EnqueueFails
  <1>13. ASSUME SweepRead \/ SweepAborts \/ \E t \in sweep.todo : SweepDeliver(t)
         PROVE  IInv'
    BY <1>10, <1>13 DEF SweepRead, SweepAborts, SweepDeliver
  <1>14. ASSUME UNCHANGED vars
         PROVE  IInv'
    BY <1>10, <1>14 DEF vars
  <1> QED
    BY <1>2, <1>3, <1>4, <1>5, <1>6, <1>7, <1>8, <1>9, <1>11, <1>12, <1>13, <1>14 DEF Next

\* IInv holds as long as no process stalls.
THEOREM Invariance == ASSUME NoStalls PROVE Spec => []IInv
  BY IInv_Init, IInv_Next, PTL DEF Spec

-----------------------------------------------------------------------------
(* The invariants of the runs *)

\* repo.claim keeps two runners out of one saga.
THEOREM Exclusion == ASSUME NoStalls PROVE Spec => []OneExecutor
  <1>1. IInv => OneExecutor
    BY DEF IInv, OneOwner, OneExecutor, Executes, Owns, Beating
  <1> QED
    BY <1>1, Invariance, PTL

\* runner.execute saves a checkpoint only after its step.
THEOREM Honesty == ASSUME NoStalls PROVE Spec => []CheckpointHonest
  <1>1. IInv => CheckpointHonest
    BY DEF IInv, JobInv, CheckpointHonest
  <1> QED
    BY <1>1, Invariance, PTL

\* repo.succeed is reached with every step completed since the last retry.
THEOREM Completeness == ASSUME NoStalls PROVE Spec => []SuccessIsComplete
  <1>1. IInv => SuccessIsComplete
    <2> SUFFICES ASSUME IInv, NEW j \in Jobs, row[j].st = "succeeded" PROVE verified[j] = Steps
      BY DEF SuccessIsComplete
    <2>1. JobInv(j) /\ verified[j] \subseteq Steps
      BY DEF IInv, TypeOK
    <2> QED
      BY <2>1 DEF JobInv
  <1> QED
    BY <1>1, Invariance, PTL

\* What a process that stalls and goes on may still write is true, until a retry takes
\* steps back: nobody holds or has saved a step that did not complete.
Unretried(j) ==
  retries[j] = 0 =>
    /\ row[j].done \subseteq verified[j]
    /\ \A r \in Runners : run[r].pc # "idle" /\ JobOf(r) = j => run[r].done \subseteq verified[j]
    /\ row[j].st = "succeeded" => verified[j] = Steps

LEMMA Unretried_Next ==
  ASSUME TypeOK, [Next]_vars, NEW j \in Jobs, Unretried(j)
  PROVE  Unretried(j)'
  <1>0. /\ \A r \in Runners : run[r].done \subseteq Steps /\ (run[r].pc # "idle" => JobOf(r) \in Jobs)
        /\ retries \in [Jobs -> Nat] /\ verified \in [Jobs -> SUBSET Steps]
        /\ row \in [Jobs -> Row] /\ run \in [Runners -> [pc : Locations, id : Ids \cup {NoDelivery}, done : SUBSET Steps]]
    BY DEF TypeOK
  <1>1. ASSUME NEW r \in Runners, Claim(r)
        PROVE  Unretried(j)'
    <2>1. UNCHANGED <<retries, verified>> /\ row'[j].done = row[j].done
          /\ (row'[j].st = "succeeded" => row[j].st = "succeeded")
      BY <1>0, <1>1 DEF Claim, Row
    <2>2. ASSUME NEW q \in Runners, retries[j] = 0, run'[q].pc # "idle", JobOf(q)' = j
          PROVE  run'[q].done \subseteq verified[j]
      <3>1. CASE Claimable(JobOf(r)) /\ q = r
        <4>1. run'[r].done = row[JobOf(r)].done /\ JobOf(r) = j
          BY <1>0, <1>1, <2>2, <3>1 DEF Claim, JobOf
        <4> QED
          BY <2>2, <3>1, <4>1 DEF Unretried
      <3>2. CASE ~Claimable(JobOf(r)) \/ q # r
        <4>1. run'[q].done = run[q].done /\ run[q].pc # "idle" /\ JobOf(q) = j
          BY <1>0, <1>1, <2>2, <3>2 DEF Claim, Goto, JobOf
        <4> QED
          BY <2>2, <4>1 DEF Unretried
      <3> QED
        BY <3>1, <3>2
    <2> QED
      BY <2>1, <2>2 DEF Unretried
  <1>2. ASSUME NEW r \in Runners, StepCompletes(r)
        PROVE  Unretried(j)'
    <2>1. PICK s \in Steps :
            /\ run' = [run EXCEPT ![r].pc = "save", ![r].done = @ \cup {s}]
            /\ verified' = [verified EXCEPT ![JobOf(r)] = @ \cup {s}]
            /\ run[r].pc = "step" /\ UNCHANGED <<row, retries>>
      BY <1>2 DEF StepCompletes
    <2>2. verified[j] \subseteq verified'[j] /\ verified'[j] \subseteq Steps
      BY <1>0, <2>1
    <2>3. ASSUME NEW q \in Runners, retries[j] = 0, run'[q].pc # "idle", JobOf(q)' = j
          PROVE  run'[q].done \subseteq verified'[j]
      <3>1. CASE q = r
        <4>1. JobOf(r) = j /\ run'[r].done = run[r].done \cup {s} /\ verified'[j] = verified[j] \cup {s}
          BY <1>0, <2>1, <2>3, <3>1 DEF JobOf
        <4>2. run[r].done \subseteq verified[j]
          BY <2>1, <2>3, <4>1 DEF Unretried
        <4> QED
          BY <3>1, <4>1, <4>2
      <3>2. CASE q # r
        <4>1. run'[q] = run[q] /\ JobOf(q) = j
          BY <1>0, <2>1, <2>3, <3>2 DEF JobOf
        <4> QED
          BY <2>2, <2>3, <4>1 DEF Unretried
      <3> QED
        BY <3>1, <3>2
    <2> QED
      BY <2>1, <2>2, <2>3 DEF Unretried
  <1>3. ASSUME NEW r \in Runners, SaveCheckpoint(r) \/ Succeed(r)
        PROVE  Unretried(j)'
    <2>1. /\ UNCHANGED <<retries, verified>> /\ run[r].pc # "idle"
          /\ \A q \in Runners : run'[q].done = run[q].done /\ JobOf(q)' = JobOf(q)
                             /\ (run'[q].pc # "idle" => run[q].pc # "idle")
      BY <1>0, <1>3 DEF SaveCheckpoint, Succeed, Goto, JobOf
    <2>2. CASE JobOf(r) # j
      <3>1. row'[j] = row[j]
        BY <1>0, <1>3, <2>2 DEF SaveCheckpoint, Succeed
      <3> QED
        BY <2>1, <3>1 DEF Unretried
    <2>3. CASE JobOf(r) = j /\ SaveCheckpoint(r)
      <3>1. row'[j].done = run[r].done /\ row'[j].st = row[j].st
        BY <1>0, <2>3 DEF SaveCheckpoint, Row
      <3> QED
        BY <2>1, <2>3, <3>1 DEF Unretried
    <2>4. CASE JobOf(r) = j /\ Succeed(r)
      <3>1. row'[j].done = row[j].done /\ run[r].done = Steps
        BY <1>0, <2>4 DEF Succeed, Todo, Row
      <3> QED
        BY <1>0, <2>1, <2>4, <3>1 DEF Unretried
    <2> QED
      BY <1>3, <2>2, <2>3, <2>4
  <1>4. ASSUME NEW r \in Runners, Fail(r)
        PROVE  Unretried(j)'
    BY <1>0, <1>4 DEF Fail, FailWith, Goto, Unretried, JobOf, Row
  <1>5. ASSUME NEW r \in Runners, BeginStep(r) \/ StepThrows(r) \/ OnDeadLetter(r) \/ DbError(r)
        PROVE  Unretried(j)'
    BY <1>0, <1>5 DEF BeginStep, StepThrows, OnDeadLetter, DbError, Goto, Unretried, JobOf
  <1>6. ASSUME NEW r \in Runners, Ack(r) \/ Nack(r) \/ Crash(r)
        PROVE  Unretried(j)'
    BY <1>0, <1>6 DEF Ack, Nack, Crash, Idle, Unretried, JobOf
  <1>7. ASSUME NEW r \in Runners, NEW id \in DOMAIN redis, Deliver(r, id)
        PROVE  Unretried(j)'
    BY <1>0, <1>7 DEF Deliver, Unretried, JobOf
  <1>8. ASSUME NEW r \in Runners, Beat(r)
        PROVE  Unretried(j)'
    BY <1>0, <1>8 DEF Beat, Unretried, JobOf, Row
  <1>9. ASSUME NEW k \in Jobs, HeartbeatExpires(k) \/ SweepMark(k) \/ Request(k)
        PROVE  Unretried(j)'
    BY <1>0, <1>9 DEF HeartbeatExpires, SweepMark, Request, Unretried, JobOf, Row
  <1>10. ASSUME NEW k \in Jobs, Retry(k)
         PROVE  Unretried(j)'
    <2>1. CASE k = j
      BY <1>0, <1>10, <2>1 DEF Retry, RetryWithout, Unretried
    <2>2. CASE k # j
      BY <1>0, <1>10, <2>2 DEF Retry, RetryWithout, Unretried, JobOf
    <2> QED
      BY <2>1, <2>2
  <1>11. ASSUME UNCHANGED <<row, run, retries, verified>>
         PROVE  Unretried(j)'
    BY <1>11 DEF Unretried, JobOf
  <1> QED
    BY <1>1, <1>2, <1>3, <1>4, <1>5, <1>6, <1>7, <1>8, <1>9, <1>10, <1>11
       DEF Next, vars, Stall, Resume, BackoffElapsed, LockExpired, Forget, Enqueue, EnqueueRetry,
           EnqueueFails, SweepRead, SweepAborts, SweepDeliver

\* Whatever crashes or stalls, and however many runners are in one saga: as long as a build
\* has not been retried, its checkpoint is honest, and it succeeds only with every step done.
THEOREM FirstBuild ==
  Spec => [](\A j \in Jobs : retries[j] = 0 =>
               /\ row[j].done \subseteq verified[j]
               /\ row[j].st = "succeeded" => verified[j] = Steps)
  <1> DEFINE Inv == TypeOK /\ \A j \in Jobs : Unretried(j)
  <1>1. Init => Inv
    BY TypeOK_Init DEF Init, Unretried, Idle
  <1>2. Inv /\ [Next]_vars => Inv'
    BY TypeOK_Next, Unretried_Next
  <1>3. Inv => \A j \in Jobs : retries[j] = 0 =>
                 /\ row[j].done \subseteq verified[j]
                 /\ row[j].st = "succeeded" => verified[j] = Steps
    BY DEF Unretried
  <1> QED
    BY <1>1, <1>2, <1>3, PTL DEF Spec

\* So where builds are not retried, success is complete under every fault.
THEOREM CompletenessUnderStalls == ASSUME MaxRetries = 0 PROVE Spec => []SuccessIsComplete
  <1> DEFINE Inv == TypeOK /\ \A j \in Jobs : Unretried(j) /\ retries[j] = 0
  <1>1. Init => Inv
    BY TypeOK_Init DEF Init, Unretried, Idle
  <1>2. Inv /\ [Next]_vars => Inv'
    <2>1. \A j \in Jobs : ~Retry(j) \/ ~(\A k \in Jobs : retries[k] = 0)
      BY DEF Retry, RetryWithout
    <2>2. (\A k \in Jobs : retries[k] = 0) /\ [Next]_vars => retries' = retries
      BY <2>1 DEF Next, vars, Claim, BeginStep, StepCompletes, StepThrows, SaveCheckpoint, Succeed,
         Fail, FailWith, OnDeadLetter, Ack, Nack, Beat, DbError, Crash, Stall, Resume, Deliver,
         BackoffElapsed, LockExpired, Forget, HeartbeatExpires, SweepMark, Request, Enqueue,
         EnqueueRetry, EnqueueFails, SweepRead, SweepAborts, SweepDeliver
    <2> QED
      BY <2>2, TypeOK_Next, Unretried_Next
  <1>3. Inv => SuccessIsComplete
    BY DEF Unretried, SuccessIsComplete
  <1> QED
    BY <1>1, <1>2, <1>3, PTL DEF Spec

\* onDeadLetter marks a project failed only while its build is a dead letter, and
\* only requestRetry, which unmarks it, revives the build.
THEOREM FailedBuilds == ASSUME NoStalls PROVE Spec => []FailedHasDeadBuild
  <1>1. IInv => FailedHasDeadBuild
    BY DEF IInv, TypeOK, JobInv, FailedHasDeadBuild
  <1> QED
    BY <1>1, Invariance, PTL

-----------------------------------------------------------------------------
(* What a step does to a row *)

OpenStates == {"pending", "enqueued", "running"}

\* One row changes, in one of the ways JobContract knows, or without its noticing.
RowStep(j) ==
  LET old == row[j]
      new == row'[j]
  IN /\ \A k \in Jobs \ {j} : row'[k] = row[k]
     /\ \/ old.st \in OpenStates /\ new.st \in OpenStates /\ new.done = old.done
        \/ old.st = "dead_letter" /\ new.st = "dead_letter" /\ new.done = old.done
        \/ old.st = "none" /\ new.st \in OpenStates /\ new.done = old.done
        \/ /\ old.st \in OpenStates /\ new.st \in OpenStates
           /\ \E s \in Steps : 1 .. s - 1 \subseteq old.done /\ new.done = old.done \cup {s}
        \/ /\ old.st \in OpenStates /\ new.st = "succeeded"
           /\ old.done = Steps /\ new.done = Steps
        \/ old.st \in OpenStates /\ new.st = "dead_letter" /\ new.done = old.done
        \/ old.st = "dead_letter" /\ new.st \in OpenStates /\ new.done = old.done \ Substrate

LEMMA RowSteps ==
  ASSUME IInv, [Next]_vars
  PROVE  row' = row \/ \E j \in Jobs : RowStep(j)
  <1>1. row \in [Jobs -> Row] /\ (\A r \in Runners : run[r].pc # "idle" => JobOf(r) \in Jobs)
        /\ \A r \in Runners : RunnerInv(r)
    BY DEF IInv, TypeOK
  <1>2. ASSUME NEW r \in Runners, Claim(r)
        PROVE  row' = row \/ RowStep(JobOf(r))
    BY <1>1, <1>2 DEF Claim, Claimable, RowStep, OpenStates, Row
  <1>3. ASSUME NEW r \in Runners, SaveCheckpoint(r)
        PROVE  RowStep(JobOf(r))
    <2>1. PICK s \in Steps :
            1 .. s - 1 \subseteq row[JobOf(r)].done /\ run[r].done = row[JobOf(r)].done \cup {s}
      BY <1>1, <1>3 DEF SaveCheckpoint, RunnerInv
    <2>2. row[JobOf(r)].st = "running"
      BY <1>1, <1>3 DEF SaveCheckpoint, RunnerInv, InSaga
    <2> QED
      BY <1>1, <1>3, <2>1, <2>2 DEF SaveCheckpoint, RowStep, OpenStates, Row
  <1>4. ASSUME NEW r \in Runners, Succeed(r)
        PROVE  RowStep(JobOf(r))
    <2>1. row[JobOf(r)].st = "running" /\ row[JobOf(r)].done = run[r].done
      BY <1>1, <1>4 DEF Succeed, RunnerInv, InSaga
    <2>2. row[JobOf(r)].done = Steps
      BY <1>1, <1>4, <2>1 DEF Succeed, Todo, Row
    <2> QED
      BY <1>1, <1>4, <2>1, <2>2 DEF Succeed, RowStep, OpenStates, Row
  <1>5. ASSUME NEW r \in Runners, Fail(r)
        PROVE  RowStep(JobOf(r))
    <2>1. CASE run[r].pc = "fail"
      <3>1. row[JobOf(r)].st = "running"
        BY <1>1, <2>1 DEF RunnerInv, InSaga
      <3> QED
        BY <1>1, <1>5, <2>1, <3>1 DEF Fail, FailWith, RowStep, OpenStates, Row
    <2>2. CASE run[r].pc = "refuse"
      <3>1. JobInv(JobOf(r)) /\ RunnerInv(r) /\ JobOf(r) \in Jobs
        BY <1>1, <2>2 DEF IInv
      <3>2. \/ row[JobOf(r)].st \in OpenStates
            \/ row[JobOf(r)].st = "dead_letter" /\ Exhausted(r)
        BY <1>1, <2>2, <3>1 DEF JobInv, RunnerInv, Row, RowStates, OpenStates, Exhausted
      <3> QED
        BY <1>1, <1>5, <2>2, <3>1, <3>2 DEF Fail, FailWith, RowStep, OpenStates, Row
    <2> QED
      BY <1>5, <2>1, <2>2 DEF Fail, FailWith
  <1>6. ASSUME NEW r \in Runners, Beat(r)
        PROVE  RowStep(JobOf(r))
    BY <1>1, <1>6 DEF Beat, RowStep, OpenStates, Row, Beating, InSaga
  <1>7. ASSUME NEW j \in Jobs, HeartbeatExpires(j) \/ SweepMark(j) \/ Request(j)
        PROVE  row' = row \/ RowStep(j)
    BY <1>1, <1>7 DEF HeartbeatExpires, SweepMark, Request, RowStep, OpenStates, Row
  <1>8. ASSUME NEW j \in Jobs, Retry(j)
        PROVE  RowStep(j)
    BY <1>1, <1>8 DEF Retry, RetryWithout, RowStep, OpenStates, Row
  <1>10. ASSUME NEW r \in Runners,
                \/ BeginStep(r) \/ StepCompletes(r) \/ StepThrows(r) \/ OnDeadLetter(r)
                \/ Ack(r) \/ Nack(r) \/ DbError(r) \/ Crash(r) \/ Stall(r) \/ Resume(r)
                \/ \E id \in DOMAIN redis : Deliver(r, id)
         PROVE  row' = row
    BY <1>10 DEF BeginStep, StepCompletes, StepThrows, OnDeadLetter, Ack, Nack, DbError,
                 Crash, Stall, Resume, Deliver
  <1>11. ASSUME \/ \E id \in DOMAIN redis : BackoffElapsed(id) \/ LockExpired(id) \/ Forget(id)
                \/ \E j \in Jobs : Enqueue(j) \/ EnqueueRetry(j) \/ EnqueueFails(j)
                \/ SweepRead \/ SweepAborts \/ (\E t \in sweep.todo : SweepDeliver(t))
                \/ UNCHANGED vars
         PROVE  row' = row
    BY <1>11 DEF BackoffElapsed, LockExpired, Forget, Enqueue, EnqueueRetry, EnqueueFails,
                 SweepRead, SweepAborts, SweepDeliver, vars
  <1>12. \A r \in Runners : SaveCheckpoint(r) \/ Succeed(r) \/ Fail(r) \/ Beat(r) \/ Claim(r)
            => JobOf(r) \in Jobs
    BY <1>1 DEF SaveCheckpoint, Succeed, Fail, FailWith, Beat, Beating, InSaga, Claim
  <1> QED
    BY <1>2, <1>3, <1>4, <1>5, <1>6, <1>7, <1>8, <1>10, <1>11, <1>12 DEF Next

\* A succeeded row is out of every UPDATE's reach.
THEOREM Finality == ASSUME NoStalls PROVE Spec => SuccessIsFinal
  <1>1. ASSUME IInv, [Next]_vars
        PROVE  \A j \in Jobs : row[j].st = "succeeded" => row'[j] = row[j]
    BY <1>1, RowSteps DEF RowStep, OpenStates
  <1>2. ASSUME IInv, [Next]_vars
        PROVE  [\A j \in Jobs : row[j].st = "succeeded" => row'[j] = row[j]]_vars
    BY <1>1, <1>2
  <1> QED
    BY <1>2, Invariance, PTL DEF Spec, SuccessIsFinal

\* The step loop of runner.execute skips nothing.
THEOREM Order == ASSUME NoStalls PROVE Spec => StepsInOrder
  <1>1. ASSUME IInv
        PROVE  \A r \in Runners, s \in Steps :
                 run[r].pc = "next" /\ run'[r].pc = "step" /\ IsNext(r, s)
                   => 1 .. s - 1 \subseteq verified[JobOf(r)]
    <2> SUFFICES ASSUME NEW r \in Runners, NEW s \in Steps, run[r].pc = "next", IsNext(r, s),
                        NEW t \in 1 .. s - 1
                 PROVE  t \in verified[JobOf(r)]
      OBVIOUS
    <2>1. t \in run[r].done
      BY ConstantsAssumption DEF IsNext, Todo, Steps
    <2>2. run[r].done \subseteq verified[JobOf(r)]
      BY <1>1 DEF IInv, RunnerInv, InSaga
    <2> QED
      BY <2>1, <2>2
  <1>2. IInv => [\A r \in Runners, s \in Steps :
                   run[r].pc = "next" /\ run'[r].pc = "step" /\ IsNext(r, s)
                     => 1 .. s - 1 \subseteq verified[JobOf(r)]]_vars
    BY <1>1
  <1> QED
    BY <1>2, Invariance, PTL DEF Spec, StepsInOrder

-----------------------------------------------------------------------------
(* The rows implement JobContract *)

LEMMA ContractInit == Init => Contract!Init
  BY DEF Init, Contract!Init, Phase, phaseOf, completedOf

LEMMA ContractStep ==
  ASSUME IInv, [Next]_vars
  PROVE  [Contract!Next]_<<phaseOf, completedOf>>
  <1>1. CASE row' = row
    BY <1>1 DEF phaseOf, completedOf
  <1>2. ASSUME NEW j \in Jobs, RowStep(j)
        PROVE  Contract!Next \/ UNCHANGED <<phaseOf, completedOf>>
    <2> DEFINE from == Phase(row[j].st)
               to == Phase(row'[j].st)
               done == row[j].done
               new == row'[j].done
    <2>1. phaseOf' = [phaseOf EXCEPT ![j] = to] /\ phaseOf[j] = from
          /\ completedOf' = [completedOf EXCEPT ![j] = new] /\ completedOf[j] = done
      BY <1>2 DEF RowStep, phaseOf, completedOf
    <2>2. \/ from = to /\ new = done
          \/ from = "absent" /\ to = "open" /\ new = done
          \/ /\ from = "open" /\ to = "open"
             /\ \E s \in 1..NumSteps : 1 .. s - 1 \subseteq done /\ new = done \cup {s}
          \/ from = "open" /\ to = "done" /\ done = 1..NumSteps /\ new = done
          \/ from = "open" /\ to = "dead" /\ new = done
          \/ from = "dead" /\ to = "open" /\ new = done \ Substrate
      BY <1>2 DEF RowStep, OpenStates, Phase, Steps
    <2> HIDE DEF from, to, done, new
    <2>3. CASE from = to /\ new = done
      <3>1. phaseOf' = phaseOf /\ completedOf' = completedOf
        BY <2>1, <2>3 DEF phaseOf, completedOf
      <3> QED
        BY <3>1
    <2>4. CASE new = done /\ ~(from = to)
      <3>1. completedOf' = completedOf
        BY <2>1, <2>4 DEF completedOf
      <3>2. Contract!Ask(j) \/ Contract!Finish(j) \/ Contract!GiveUp(j) \/ from = "dead"
        BY <2>1, <2>2, <2>4, <3>1
           DEF Contract!Ask, Contract!Finish, Contract!GiveUp, Contract!Move
      <3>3. from = "dead" => Contract!Reopen(j)
        BY <2>1, <2>2, <2>4 DEF Contract!Reopen, Contract!Move
      <3> QED
        BY <3>2, <3>3 DEF Contract!Next
    <2>5. CASE from = "dead" /\ to = "open" /\ new = done \ Substrate
      <3>1. Contract!Reopen(j)
        BY <2>1, <2>5 DEF Contract!Reopen, Contract!Move
      <3> QED
        BY <3>1 DEF Contract!Next
    <2>6. ASSUME NEW s \in 1..NumSteps, from = "open", to = "open",
                 1 .. s - 1 \subseteq done, new = done \cup {s}
          PROVE  Contract!Next
      <3>1. phaseOf' = phaseOf
        BY <2>1, <2>6 DEF phaseOf
      <3>2. Contract!Complete(j, s)
        BY <2>1, <2>6, <3>1 DEF Contract!Complete
      <3> QED
        BY <3>2 DEF Contract!Next
    <2> QED
      BY <2>2, <2>3, <2>4, <2>5, <2>6
  <1> QED
    BY <1>1, <1>2, RowSteps

\* Through all the deliveries, crashes, sweeps and retries, a job's row goes through
\* the steps JobContract allows and no others.
THEOREM Implementation == ASSUME NoStalls PROVE Spec => ImplementsContract
  BY ContractInit, ContractStep, Invariance, PTL
     DEF Spec, ImplementsContract, Contract!Spec
=============================================================================
