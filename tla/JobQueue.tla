------------------------------ MODULE JobQueue ------------------------------
(***************************************************************************)
(* How a provisioning job is delivered and run.                            *)
(*                                                                         *)
(* A job is a row of provisioning_jobs (Postgres, the state of record).    *)
(* BullMQ (Redis) only carries deliveries: a delivery names a job, and any *)
(* runner handed one tries to claim the row with a conditional UPDATE.     *)
(* The claimer runs the saga step by step, saving a checkpoint after each  *)
(* step and beating a heartbeat from a timer.  The API creates the row and *)
(* then, best effort, its first delivery; the sweeper re-delivers rows     *)
(* that are pending, enqueued, or running with a stale heartbeat.          *)
(*                                                                         *)
(* Clocks are abstracted: a heartbeat is fresh or stale, and an enqueued   *)
(* row counts as old at once.  Every fault draws on one budget, MaxFaults. *)
(***************************************************************************)
EXTENDS Integers, FiniteSets

CONSTANTS
  Jobs,          \* job rows, numbered in order of created_at
  Unregistered,  \* the jobs whose job_type has no saga
  Runners,       \* handler slots of the worker processes
  NumSteps,      \* length of a saga
  Substrate,     \* the steps a retry takes out of the checkpoint
  MaxAttempts,   \* provisioning_jobs.max_attempts
  BullAttempts,  \* BullMQ attempts of one delivery
  MaxStalls,     \* BullMQ maxStalledCount
  BatchSize,     \* the sweeper's LIMIT
  MaxRetries,    \* bound on POST /retry requests per job
  FaultKinds,    \* which faults may happen
  MaxFaults      \* bound on the number of faults of a behaviour

Steps == 1..NumSteps

ASSUME ConstantsAssumption ==
  /\ Jobs \subseteq Nat
  /\ Unregistered \subseteq Jobs
  /\ NumSteps \in Nat \ {0}
  /\ Substrate \subseteq Steps
  /\ MaxAttempts \in Nat \ {0}
  /\ BullAttempts \in Nat \ {0}
  /\ MaxStalls \in Nat
  /\ BatchSize \in Nat \ {0}
  /\ MaxRetries \in Nat
  /\ FaultKinds \subseteq {"crash", "stall", "redis", "db"}
  /\ MaxFaults \in Nat

VARIABLES
  row,       \* provisioning_jobs: state, attempts, checkpoint, heartbeat
  failed,    \* the jobs whose project has status 'failed'
  redis,     \* BullMQ's records, by delivery id: a partial function
  run,       \* per runner: its delivery, where it is in execute, its locals
  stalled,   \* runners that are alive but stopped (event loop blocked, VM paused)
  sweep,     \* the sweeper: rows still to redeliver, row to mark enqueued
  api,       \* per job: the enqueue calls the API still owes after a COMMIT
  retries,   \* per job: project.retry_requested audit rows
  verified,  \* history: steps completed since the build was last asked for
  faults     \* faults so far

vars == <<row, failed, redis, run, stalled, sweep, api, retries, verified, faults>>

-----------------------------------------------------------------------------
(* Values *)

RowStates == {"none", "pending", "enqueued", "running", "succeeded", "dead_letter"}
Row == [st : RowStates, attempts : Nat, done : SUBSET Steps, fresh : BOOLEAN]

\* A delivery id is the idempotency key itself, or key#recover-n.
Plain == -1
Ids == Jobs \X (Nat \cup {Plain})
Delivery == [st : {"wait", "active", "delayed", "finished"},
             by : SUBSET Runners, tries : Nat, stalls : Nat]
Fresh == [st |-> "wait", by |-> {}, tries |-> 0, stalls |-> 0]
Finished == [Fresh EXCEPT !.st = "finished"]

\* Where a runner is.  "got": holds a delivery; "next": head of the step loop;
\* "step": inside step.run; "save": about to saveCheckpoint; "fail", "refuse":
\* about to call repo.fail; "hook": awaiting onDeadLetter; "ok", "throw": the
\* handler has returned or thrown and BullMQ settles the delivery.
InSaga  == {"next", "step", "save", "fail"}
Beating == InSaga \cup {"hook"}
Locations == Beating \cup {"idle", "got", "refuse", "ok", "throw"}
NoDelivery == <<0, Plain>>
Idle == [pc |-> "idle", id |-> NoDelivery, done |-> {}]

JobOf(r) == run[r].id[1]
Executes(r, j) == run[r].pc \in InSaga /\ JobOf(r) = j
Awake(r) == r \notin stalled

Init ==
  /\ row = [j \in Jobs |-> [st |-> "none", attempts |-> 0, done |-> {}, fresh |-> FALSE]]
  /\ failed = {}
  /\ redis = [id \in {} |-> Fresh]
  /\ run = [r \in Runners |-> Idle]
  /\ stalled = {}
  /\ sweep = [todo |-> {}, marking |-> {}]
  /\ api = [j \in Jobs |-> {}]
  /\ retries = [j \in Jobs |-> 0]
  /\ verified = [j \in Jobs |-> {}]
  /\ faults = 0

Fault(kind) ==
  /\ kind \in FaultKinds
  /\ faults < MaxFaults
  /\ faults' = faults + 1

-----------------------------------------------------------------------------
(* BullMQ (external) *)

Add(id) == redis' = [i \in DOMAIN redis \cup {id} |-> IF i = id THEN Fresh ELSE redis[i]]

SetDelivery(id, d) == redis' = [redis EXCEPT ![id] = d]

\* A waiting delivery is handed to an idle slot.
Deliver(r, id) ==
  /\ run[r].pc = "idle" /\ Awake(r)
  /\ id \in DOMAIN redis /\ redis[id].st = "wait"
  /\ SetDelivery(id, [redis[id] EXCEPT !.st = "active", !.by = {r}])
  /\ run' = [run EXCEPT ![r] = [pc |-> "got", id |-> id, done |-> {}]]
  /\ UNCHANGED <<row, failed, stalled, sweep, api, retries, verified, faults>>

\* The handler returned: the delivery is completed, if this slot still holds its lock.
Ack(r) ==
  /\ run[r].pc = "ok" /\ Awake(r)
  /\ IF run[r].id \in DOMAIN redis /\ redis[run[r].id].by = {r}
     THEN SetDelivery(run[r].id, Finished)
     ELSE UNCHANGED redis
  /\ run' = [run EXCEPT ![r] = Idle]
  /\ UNCHANGED <<row, failed, stalled, sweep, api, retries, verified, faults>>

\* The handler threw: backoff, until the delivery's own attempts are spent.
Nack(r) ==
  /\ run[r].pc = "throw" /\ Awake(r)
  /\ IF run[r].id \in DOMAIN redis /\ redis[run[r].id].by = {r}
     THEN LET d == redis[run[r].id]
          IN SetDelivery(run[r].id,
               IF d.tries + 1 < BullAttempts
               THEN [d EXCEPT !.tries = @ + 1, !.by = {}, !.st = "delayed"]
               ELSE Finished)
     ELSE UNCHANGED redis
  /\ run' = [run EXCEPT ![r] = Idle]
  /\ UNCHANGED <<row, failed, stalled, sweep, api, retries, verified, faults>>

BackoffElapsed(id) ==
  /\ id \in DOMAIN redis /\ redis[id].st = "delayed"
  /\ SetDelivery(id, [redis[id] EXCEPT !.st = "wait"])
  /\ UNCHANGED <<row, failed, run, stalled, sweep, api, retries, verified, faults>>

\* lockDuration passed with nobody renewing the lock: the holder crashed or is stalled.
LockExpired(id) ==
  /\ id \in DOMAIN redis /\ redis[id].st = "active"
  /\ redis[id].by \subseteq stalled
  /\ SetDelivery(id, IF redis[id].stalls < MaxStalls
                     THEN [redis[id] EXCEPT !.st = "wait", !.by = {}, !.stalls = @ + 1]
                     ELSE Finished)
  /\ UNCHANGED <<row, failed, run, stalled, sweep, api, retries, verified, faults>>

\* Redis forgets a record: data loss, or removeOnComplete/removeOnFail retention.
Forget(id) ==
  /\ id \in DOMAIN redis
  /\ Fault("redis")
  /\ redis' = [i \in DOMAIN redis \ {id} |-> redis[i]]
  /\ UNCHANGED <<row, failed, run, stalled, sweep, api, retries, verified>>

-----------------------------------------------------------------------------
(* repo.claim and runner.execute *)

\* Mutant: anything that has not succeeded can be claimed.
ClaimableUnlessDone(j) == row[j].st \notin {"none", "succeeded"}

Claimable(j) ==
  \/ row[j].st \in {"pending", "enqueued"}
  \/ row[j].st = "running" /\ ~row[j].fresh

Goto(r, pc) == run' = [run EXCEPT ![r].pc = pc]

Todo(r) == Steps \ run[r].done
IsNext(r, s) == s \in Todo(r) /\ \A t \in Todo(r) : s <= t

\* Mutant: the claimer starts from an empty checkpoint.
ClaimFromScratch(r) ==
  /\ run[r].pc = "got" /\ Awake(r)
  /\ Claimable(JobOf(r))
  /\ row' = [row EXCEPT ![JobOf(r)].st = "running", ![JobOf(r)].attempts = @ + 1,
                        ![JobOf(r)].fresh = TRUE]
  /\ Goto(r, "next")
  /\ UNCHANGED <<failed, redis, stalled, sweep, api, retries, verified, faults>>

\* byIdempotencyKey, then the claim UPDATE; a row that cannot be claimed is skipped.
Claim(r) ==
  LET j == JobOf(r)
  IN /\ run[r].pc = "got" /\ Awake(r)
     /\ IF Claimable(j)
        THEN /\ row' = [row EXCEPT ![j].st = "running", ![j].attempts = @ + 1,
                                   ![j].fresh = TRUE]
             /\ run' = [run EXCEPT ![r].done = row[j].done,
                                   ![r].pc = IF j \in Unregistered THEN "refuse" ELSE "next"]
        ELSE /\ Goto(r, "ok")
             /\ UNCHANGED row
     /\ UNCHANGED <<failed, redis, stalled, sweep, api, retries, verified, faults>>

BeginStep(r) ==
  /\ run[r].pc = "next" /\ Awake(r)
  /\ Todo(r) # {}
  /\ Goto(r, "step")
  /\ UNCHANGED <<row, failed, redis, stalled, sweep, api, retries, verified, faults>>

StepCompletes(r) ==
  /\ run[r].pc = "step" /\ Awake(r)
  /\ \E s \in Steps :
       /\ IsNext(r, s)
       /\ run' = [run EXCEPT ![r].pc = "save", ![r].done = @ \cup {s}]
       /\ verified' = [verified EXCEPT ![JobOf(r)] = @ \cup {s}]
  /\ UNCHANGED <<row, failed, redis, stalled, sweep, api, retries, faults>>

\* Mutant: a step that throws is checkpointed all the same.
StepThrowsUnnoticed(r) ==
  /\ run[r].pc = "step" /\ Awake(r)
  /\ \E s \in Steps :
       /\ IsNext(r, s)
       /\ run' = [run EXCEPT ![r].pc = "save", ![r].done = @ \cup {s}]
  /\ UNCHANGED <<row, failed, redis, stalled, sweep, api, retries, verified, faults>>

StepThrows(r) ==
  /\ run[r].pc = "step" /\ Awake(r)
  /\ Goto(r, "fail")
  /\ UNCHANGED <<row, failed, redis, stalled, sweep, api, retries, verified, faults>>

\* The UPDATE names the row only: it does not ask who holds the claim.
SaveCheckpoint(r) ==
  /\ run[r].pc = "save" /\ Awake(r)
  /\ row' = [row EXCEPT ![JobOf(r)].done = run[r].done]
  /\ Goto(r, "next")
  /\ UNCHANGED <<failed, redis, stalled, sweep, api, retries, verified, faults>>

Succeed(r) ==
  /\ run[r].pc = "next" /\ Awake(r)
  /\ Todo(r) = {}
  /\ row' = [row EXCEPT ![JobOf(r)].st = "succeeded", ![JobOf(r)].fresh = FALSE]
  /\ Goto(r, "ok")
  /\ UNCHANGED <<failed, redis, stalled, sweep, api, retries, verified, faults>>

FailWith(r, st, hook) ==
  /\ run[r].pc \in {"fail", "refuse"} /\ Awake(r)
  /\ row' = [row EXCEPT ![JobOf(r)].st = st, ![JobOf(r)].fresh = FALSE]
  /\ Goto(r, IF hook THEN "hook" ELSE "throw")
  /\ UNCHANGED <<failed, redis, stalled, sweep, api, retries, verified, faults>>

Exhausted(r) == row[JobOf(r)].attempts >= MaxAttempts

\* repo.fail: pending again, or dead_letter once the attempts are spent.  A
\* dead letter goes to the hook and completes the delivery, any other failure is
\* rethrown to BullMQ.  The unregistered path throws before the hook is in scope.
Fail(r) ==
  FailWith(r, IF Exhausted(r) THEN "dead_letter" ELSE "pending",
              Exhausted(r) /\ run[r].pc = "fail")

\* main.ts's onDeadLetter: a building saga that gave up marks its project failed.
OnDeadLetter(r) ==
  /\ run[r].pc = "hook" /\ Awake(r)
  /\ failed' = failed \cup {JobOf(r)}
  /\ Goto(r, "ok")
  /\ UNCHANGED <<row, redis, stalled, sweep, api, retries, verified, faults>>

\* The heartbeat timer, which runs from the claim to the end of execute.
Beat(r) ==
  LET j == JobOf(r)
  IN /\ run[r].pc \in Beating /\ Awake(r)
     /\ row[j].st = "running" /\ ~row[j].fresh
     /\ row' = [row EXCEPT ![j].fresh = TRUE]
     /\ UNCHANGED <<failed, redis, run, stalled, sweep, api, retries, verified, faults>>

\* staleAfterMs passed without a beat: no awake runner is beating for the row.
HeartbeatExpires(j) ==
  /\ row[j].st = "running" /\ row[j].fresh
  /\ ~ \E r \in Runners : run[r].pc \in Beating /\ JobOf(r) = j /\ Awake(r)
  /\ row' = [row EXCEPT ![j].fresh = FALSE]
  /\ UNCHANGED <<failed, redis, run, stalled, sweep, api, retries, verified, faults>>

\* A query of execute throws.  In the step loop that is caught like a step's own
\* error; from repo.fail it leaves execute; from the hook it is only logged.
DbError(r) ==
  /\ run[r].pc \in {"got", "next", "save", "fail", "refuse", "hook"} /\ Awake(r)
  /\ run[r].pc = "next" => Todo(r) = {}
  /\ Fault("db")
  /\ Goto(r, CASE run[r].pc \in {"next", "save"} -> "fail"
               [] run[r].pc = "hook" -> "ok"
               [] OTHER -> "throw")
  /\ UNCHANGED <<row, failed, redis, stalled, sweep, api, retries, verified>>

\* The process dies and restarts with an idle slot; its delivery stays active.
Crash(r) ==
  /\ run[r].pc # "idle"
  /\ Fault("crash")
  /\ run' = [run EXCEPT ![r] = Idle]
  /\ redis' = [id \in DOMAIN redis |-> [redis[id] EXCEPT !.by = @ \ {r}]]
  /\ stalled' = stalled \ {r}
  /\ UNCHANGED <<row, failed, sweep, api, retries, verified>>

Stall(r) ==
  /\ run[r].pc # "idle" /\ Awake(r)
  /\ Fault("stall")
  /\ stalled' = stalled \cup {r}
  /\ UNCHANGED <<row, failed, redis, run, sweep, api, retries, verified>>

Resume(r) ==
  /\ r \in stalled
  /\ stalled' = stalled \ {r}
  /\ UNCHANGED <<row, failed, redis, run, sweep, api, retries, verified, faults>>

-----------------------------------------------------------------------------
(* The sweeper, and the producer side in the API *)

\* enqueueRecovery: the plain key if it is free, else key#recover-n if that is.
RecoveryId(j, n) == IF <<j, Plain>> \notin DOMAIN redis THEN <<j, Plain>> ELSE <<j, n>>

\* Mutant: findOrphans looks at undelivered rows only.
OrphansNotRunning == {j \in Jobs : row[j].st \in {"pending", "enqueued"}}

Orphans == {j \in Jobs : Claimable(j)}

\* findOrphans: the oldest BatchSize orphans, with the attempts they had then.
SweepRead ==
  LET batch == {j \in Orphans : Cardinality({k \in Orphans : k < j}) < BatchSize}
  IN /\ sweep = [todo |-> {}, marking |-> {}]
     /\ batch # {}
     /\ sweep' = [todo |-> {<<j, row[j].attempts>> : j \in batch}, marking |-> {}]
     /\ UNCHANGED <<row, failed, redis, run, stalled, api, retries, verified, faults>>

SweepDeliver(t) ==
  LET id == RecoveryId(t[1], t[2])
  IN /\ sweep.marking = {}
     /\ t \in sweep.todo /\ \A u \in sweep.todo : t[1] <= u[1]
     /\ IF id \in DOMAIN redis
        THEN /\ sweep' = [sweep EXCEPT !.todo = @ \ {t}]
             /\ UNCHANGED redis
        ELSE /\ Add(id)
             /\ sweep' = [todo |-> sweep.todo \ {t}, marking |-> {t[1]}]
     /\ UNCHANGED <<row, failed, run, stalled, api, retries, verified, faults>>

\* markEnqueued: only from pending.
SweepMark(j) ==
  /\ j \in sweep.marking
  /\ row' = IF row[j].st = "pending" THEN [row EXCEPT ![j].st = "enqueued"] ELSE row
  /\ sweep' = [sweep EXCEPT !.marking = {}]
  /\ UNCHANGED <<failed, redis, run, stalled, api, retries, verified, faults>>

\* The sweep throws or its process dies: the rest of the batch waits for the next one.
SweepAborts ==
  /\ sweep # [todo |-> {}, marking |-> {}]
  /\ Fault("crash")
  /\ sweep' = [todo |-> {}, marking |-> {}]
  /\ UNCHANGED <<row, failed, redis, run, stalled, api, retries, verified>>

\* createProject's transaction: the job row is committed before anything is enqueued.
Request(j) ==
  /\ row[j].st = "none"
  /\ \A k \in Jobs : k < j => row[k].st # "none"
  /\ row' = [row EXCEPT ![j].st = "pending"]
  /\ api' = [api EXCEPT ![j] = {"enqueue"}]
  /\ UNCHANGED <<failed, redis, run, stalled, sweep, retries, verified, faults>>

\* enqueueProvisioning: a no-op when the key is already a delivery.
Enqueue(j) ==
  /\ "enqueue" \in api[j]
  /\ IF <<j, Plain>> \in DOMAIN redis THEN UNCHANGED redis ELSE Add(<<j, Plain>>)
  /\ api' = [api EXCEPT ![j] = @ \ {"enqueue"}]
  /\ UNCHANGED <<row, failed, run, stalled, sweep, retries, verified, faults>>

\* requestRetry's transaction on a failed project with a dead-lettered build, which
\* takes the steps of `undone` out of the checkpoint.
RetryWithout(j, undone) ==
  /\ j \in failed
  /\ row[j].st = "dead_letter"
  /\ retries[j] < MaxRetries
  /\ row' = [row EXCEPT ![j] = [st |-> "pending", attempts |-> 0, fresh |-> FALSE,
                                done |-> row[j].done \ undone]]
  /\ failed' = failed \ {j}
  /\ retries' = [retries EXCEPT ![j] = @ + 1]
  /\ verified' = [verified EXCEPT ![j] = @ \ Substrate]
  /\ api' = [api EXCEPT ![j] = @ \cup {"recover"}]
  /\ UNCHANGED <<redis, run, stalled, sweep, faults>>

Retry(j) == RetryWithout(j, Substrate)

\* The retry route's enqueueRecovery, numbered by the count of retries.
EnqueueRetry(j) ==
  LET id == RecoveryId(j, retries[j])
  IN /\ "recover" \in api[j]
     /\ IF id \in DOMAIN redis THEN UNCHANGED redis ELSE Add(id)
     /\ api' = [api EXCEPT ![j] = @ \ {"recover"}]
     /\ UNCHANGED <<row, failed, run, stalled, sweep, retries, verified, faults>>

\* Redis is down or the API dies after the COMMIT: no delivery, no error to the caller.
EnqueueFails(j) ==
  /\ api[j] # {}
  /\ \E call \in api[j] : api' = [api EXCEPT ![j] = @ \ {call}]
  /\ UNCHANGED <<row, failed, redis, run, stalled, sweep, retries, verified, faults>>

-----------------------------------------------------------------------------
(* The specification *)

\* What one runner does by itself.
Works(r) ==
  \/ Claim(r) \/ BeginStep(r) \/ StepCompletes(r) \/ StepThrows(r) \/ SaveCheckpoint(r)
  \/ Succeed(r) \/ Fail(r) \/ OnDeadLetter(r) \/ Ack(r) \/ Nack(r)

Next ==
  \/ \E r \in Runners :
       \/ Claim(r) \/ BeginStep(r) \/ StepCompletes(r) \/ StepThrows(r)
       \/ SaveCheckpoint(r) \/ Succeed(r) \/ Fail(r) \/ OnDeadLetter(r)
       \/ Ack(r) \/ Nack(r) \/ Beat(r) \/ DbError(r)
       \/ Crash(r) \/ Stall(r) \/ Resume(r)
       \/ \E id \in DOMAIN redis : Deliver(r, id)
  \/ \E id \in DOMAIN redis : BackoffElapsed(id) \/ LockExpired(id) \/ Forget(id)
  \/ \E j \in Jobs :
       \/ HeartbeatExpires(j) \/ SweepMark(j) \/ Request(j) \/ Enqueue(j)
       \/ Retry(j) \/ EnqueueRetry(j) \/ EnqueueFails(j)
  \/ SweepRead \/ SweepAborts
  \/ \E t \in sweep.todo : SweepDeliver(t)

Spec == Init /\ [][Next]_vars

\* Awake slots run their handler, BullMQ hands out what it holds and times out what
\* it lent, a stalled process is resumed, the heartbeat timer and the sweeper's
\* interval come round.  Nothing is assumed of users, of faults, of a step's outcome,
\* nor of which waiting delivery BullMQ hands out first.
Sweeps == SweepRead \/ (\E t \in sweep.todo : SweepDeliver(t)) \/ (\E j \in Jobs : SweepMark(j))
Fairness ==
  /\ \A r \in Runners : WF_vars(Works(r)) /\ WF_vars(Beat(r)) /\ WF_vars(Resume(r))
  /\ WF_vars(\E r \in Runners, id \in DOMAIN redis : Deliver(r, id))
  /\ WF_vars(\E id \in DOMAIN redis : BackoffElapsed(id) \/ LockExpired(id))
  /\ \A j \in Jobs : WF_vars(HeartbeatExpires(j))
  /\ WF_vars(Sweeps)

FairSpec == Spec /\ Fairness

-----------------------------------------------------------------------------
(* What a job promises, seen through the columns of its row *)

Phase(st) ==
  CASE st = "none" -> "absent"
    [] st \in {"pending", "enqueued", "running"} -> "open"
    [] st = "succeeded" -> "done"
    [] st = "dead_letter" -> "dead"

phaseOf == [j \in Jobs |-> Phase(row[j].st)]
completedOf == [j \in Jobs |-> row[j].done]

Contract == INSTANCE JobContract WITH phase <- phaseOf, completed <- completedOf

-----------------------------------------------------------------------------
(* Properties *)

\* Every variable has its type.
TypeOK ==
  /\ row \in [Jobs -> Row]
  /\ failed \subseteq Jobs
  /\ DOMAIN redis \subseteq Ids
  /\ \A id \in DOMAIN redis : redis[id] \in Delivery
  /\ run \in [Runners -> [pc : Locations, id : Ids \cup {NoDelivery}, done : SUBSET Steps]]
  /\ \A r \in Runners : run[r].pc # "idle" => JobOf(r) \in Jobs
  /\ stalled \subseteq Runners
  /\ sweep \in [todo : SUBSET (Jobs \X Nat), marking : SUBSET Jobs]
  /\ api \in [Jobs -> SUBSET {"enqueue", "recover"}]
  /\ retries \in [Jobs -> Nat]
  /\ verified \in [Jobs -> SUBSET Steps]
  /\ faults \in Nat

\* repo.claim is the mutex: no two runners are inside the saga of one job, whatever
\* deliveries, redeliveries, sweeps, crashes and retries there are.
OneExecutor ==
  \A r, q \in Runners, j \in Jobs : Executes(r, j) /\ Executes(q, j) => r = q

\* The checkpoint records only steps that completed (it is saved after the step).
CheckpointHonest == \A j \in Jobs : row[j].done \subseteq verified[j]

\* A succeeded job has completed every step since its build was last asked for.
SuccessIsComplete == \A j \in Jobs : row[j].st = "succeeded" => verified[j] = Steps

\* requestRetry finds what it needs: a project the hook marked failed has a dead-lettered
\* build, so its owner is not told that there is "no failed build to retry".
FailedHasDeadBuild == \A j \in failed : row[j].st = "dead_letter"

\* A step starts only when every step before it has completed.
StepsInOrder ==
  [][\A r \in Runners, s \in Steps :
       run[r].pc = "next" /\ run'[r].pc = "step" /\ IsNext(r, s)
         => 1 .. s - 1 \subseteq verified[JobOf(r)]]_vars

\* No delivery, late failure or sweep disturbs a succeeded row.
SuccessIsFinal ==
  [][\A j \in Jobs : row[j].st = "succeeded" => row'[j] = row[j]]_vars

\* However it is delivered, a job goes through exactly the steps JobContract allows:
\* the checkpoint grows by the next step only while the row is open, success needs
\* all of it, and only a retry shrinks it.
ImplementsContract == Contract!Spec

\* The ids the sweeper would deliver a row's next recovery under are all taken, and
\* no delivery of the job is left to claim it: nothing will ever run it again.
Live(id) == redis[id].st # "finished"
Stranded(j) ==
  /\ Claimable(j)
  /\ \A id \in DOMAIN redis : id[1] = j => ~Live(id)
  /\ <<j, Plain>> \in DOMAIN redis /\ <<j, row[j].attempts>> \in DOMAIN redis
  /\ \A t \in sweep.todo : t[1] = j => <<j, t[2]>> \in DOMAIN redis
  /\ \A r \in Runners : JobOf(r) = j => run[r].pc \in {"idle", "ok", "throw"}
  /\ "recover" \in api[j] => <<j, retries[j]>> \in DOMAIN redis

\* A dead-lettered job whose hook was lost, or that had none: the project is never
\* marked failed, and requestRetry refuses it.
Unheard(j) ==
  /\ row[j].st = "dead_letter" /\ j \notin failed
  /\ \A r \in Runners : run[r].pc = "hook" => JobOf(r) # j

\* A job that was asked for is answered: it succeeds, or its project says failed.
\* The two ways out are the losses defined above.
EventuallyAnswered ==
  \A j \in Jobs : row[j].st # "none" ~>
    (row[j].st = "succeeded" \/ j \in failed \/ Stranded(j) \/ Unheard(j))

=============================================================================
