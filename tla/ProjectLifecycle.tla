-------------------------- MODULE ProjectLifecycle --------------------------
(***************************************************************************)
(* One project and everything that acts on it: the requests of the API     *)
(* (control-plane/store.pg.ts), the sagas of the worker (jobs/sagas.ts),   *)
(* the dead-letter hook (main.ts), the idle and purge scans, and the       *)
(* reconciler's repairs and zombies (reconcile.ts).                        *)
(*                                                                         *)
(* A job is what module JobQueue shows it to be: a row whose saga is       *)
(* performed by one runner at a time, step after step, each completed step *)
(* on record.  Nothing keeps two jobs of the project apart, so the steps   *)
(* of different jobs interleave.  A saga is listed with the steps that     *)
(* change what is modelled or decide on it; a step that only probes,       *)
(* configures or logs shows up as a step that throws.                      *)
(***************************************************************************)
EXTENDS Naturals, Sequences, FiniteSets

CONSTANTS
  Keys,        \* the idempotency keys that may come to exist: <<kind, n>>
  MaxTries,    \* provisioning_jobs.max_attempts
  RepairLimit, \* REPAIR_LIMIT_PER_HOUR
  FaultKinds,  \* which faults may happen
  MaxFaults    \* bound on the number of faults of a behaviour

Boxes == {"db", "pooler", "rest"}

Saga ==
  [provision |-> <<"allocate_node", "create_volume", "create_network", "start_container",
                   "wait_healthy", "store_credentials", "generate_api_keys",
                   "start_pooler", "start_postgrest", "mark_ready">>,
   pause     |-> <<"mark_pausing", "final_backup", "checkpoint_and_stop",
                   "remove_paused_containers", "mark_paused">>,
   resume    |-> <<"mark_resuming", "create_network", "start_container", "wait_healthy",
                   "start_pooler", "start_postgrest", "mark_resumed">>,
   delete    |-> <<"final_backup", "stop_postgrest", "stop_pooler", "stop_container",
                   "remove_network", "mark_soft_deleted">>,
   purge     |-> <<"verify_purgeable", "remove_container", "remove_network",
                   "remove_volume", "delete_credentials", "release_capacity",
                   "verify_gone", "mark_deleted">>]

\* A job_type by the key's kind: repairs are provisions, idle pauses are pauses.
TypeOf(k) == CASE k[1] = "repair" -> "provision" [] k[1] = "idlepause" -> "pause"
               [] OTHER -> k[1]
Steps(k) == LET s == Saga[TypeOf(k)] IN {s[i] : i \in DOMAIN s}
AllSteps == UNION {Steps(k) : k \in Keys}

Kinds == DOMAIN Saga \cup {"repair", "idlepause"}
First == <<"provision", 0>>

ASSUME LifecycleAssumption ==
  /\ Keys \subseteq Kinds \X Nat /\ First \in Keys
  /\ MaxTries \in Nat \ {0}
  /\ RepairLimit \in Nat
  /\ {"repair"} \X (0 .. RepairLimit - 1) \subseteq Keys
  /\ FaultKinds \subseteq {"throw", "crash", "dies"}
  /\ MaxFaults \in Nat

VARIABLES
  project,   \* projects: status, deleted_at set, purge_after passed
  place,     \* project_databases: status ("none": no row), RAM booked, container ids on record
  box,       \* per container: "none", "stopped" or "running"
  have,      \* what else exists: volume, network, secrets, keys, backup, fresh
  job,       \* per key: the row, or state "none"
  recon,     \* the reconciler's pass: where it is, the running containers it will stop
  recent,    \* repair jobs of the last hour
  idle,      \* the idle scan: where it is with this project
  faults     \* how many have happened

vars == <<project, place, box, have, job, recon, recent, idle, faults>>
nodeVars == <<box, have>>
dbVars == <<project, place>>
scanVars == <<recon, recent, idle>>

-----------------------------------------------------------------------------
(* Values *)

Statuses == {"creating", "ready", "failed", "pausing", "paused", "resuming",
             "deleting", "soft_deleted", "deleted"}
\* backup: one succeeded; fresh: the last one is younger than the last run of the database.
Things == {"volume", "network", "secrets", "keys", "backup", "fresh"}
NoPlace == [st |-> "none", ram |-> FALSE, ids |-> {}]
NoJob == [st |-> "none", done |-> {}, tries |-> 0, hook |-> FALSE]
Requested == [NoJob EXCEPT !.st = "open"]
Unplaced == place.st = "none"
Running == {b \in Boxes : box[b] = "running"}

\* A row is "open" while pending, enqueued or running; tries are the claims that
\* have ended; hook: onDeadLetter is still to run for the row.
Open(k) == job[k].st = "open"
Exists(k) == job[k].st # "none"
OfType(t) == {k \in Keys : TypeOf(k) = t}

\* POST /v1/projects has committed.
Init ==
  /\ project = [st |-> "creating", gone |-> FALSE, due |-> FALSE]
  /\ place = NoPlace
  /\ box = [b \in Boxes |-> "none"]
  /\ have = {}
  /\ job = [k \in Keys |-> IF k = First THEN Requested ELSE NoJob]
  /\ recon = [pc |-> "idle", stop |-> {}]
  /\ recent = 0
  /\ idle = "off"
  /\ faults = 0

Fault(kind) == kind \in FaultKinds /\ faults < MaxFaults /\ faults' = faults + 1

\* Mutant: no CHECK on projects.
AllowedAlways(st) == TRUE

\* CHECK ((status IN ('soft_deleted','deleted')) = (deleted_at IS NOT NULL) OR
\* status = 'deleting'), for an UPDATE that leaves deleted_at alone.
Allowed(st) == (st \in {"soft_deleted", "deleted"}) = project.gone \/ st = "deleting"

SetStatus(st) == Allowed(st) /\ project' = [project EXCEPT !.st = st]
Create(k) == k \in Keys /\ ~Exists(k) /\ job' = [job EXCEPT ![k] = Requested]

-----------------------------------------------------------------------------
(* The steps: when a step can complete, and what it then does *)

\* loadPlacement throws when there is no row, and so does bookRam.
NeedsPlace == {"create_volume", "start_container", "wait_healthy", "store_credentials",
               "start_pooler", "start_postgrest", "mark_ready", "checkpoint_and_stop",
               "mark_resuming", "stop_container"}

BoxOf(s) == CASE s \in {"start_container", "stop_container"} -> "db"
              [] s \in {"start_pooler", "stop_pooler"} -> "pooler"
              [] s \in {"start_postgrest", "stop_postgrest"} -> "rest"
Starts == {"start_container", "start_pooler", "start_postgrest"}
Stops == {"stop_container", "stop_pooler", "stop_postgrest"}
Removes == {"remove_container", "remove_paused_containers"}

\* Mutant: a database that is down needs no backup.
RestorableUnchecked == TRUE

\* final_backup, with SH_REQUIRE_FINAL_BACKUP: one is taken now or was before.
Restorable == "db" \in Running \/ "backup" \in have

\* mark_ready refuses what is not complete.
Complete ==
  /\ place.st = "running" /\ {"db", "pooler"} \subseteq place.ids
  /\ {"secrets", "keys"} \subseteq have

Able(s) ==
  /\ s \in NeedsPlace => ~Unplaced
  /\ s \in Starts => (box[BoxOf(s)] = "stopped" => "network" \in have)
  /\ s = "wait_healthy" => "db" \in place.ids /\ "db" \in Running
  /\ s = "store_credentials" => "db" \in Running
  /\ s = "start_pooler" => "secrets" \in have
  /\ s = "start_postgrest" => {"secrets", "keys"} \subseteq have
  /\ s = "mark_ready" => Complete /\ Allowed("ready")
  /\ s = "mark_pausing" => project.st \in {"ready", "pausing", "paused"}
  /\ s = "final_backup" => Restorable
  /\ s = "mark_paused" => Allowed("paused")
  /\ s = "mark_resuming" => project.st \in {"paused", "resuming", "pausing", "ready"}
  /\ s = "mark_resumed" => Allowed("ready")
  /\ s = "remove_network" => Running = {}
  /\ s = "verify_purgeable" =>
       project.st = "deleted" \/ (project.st = "soft_deleted" /\ project.due)
  /\ s = "remove_volume" => box["db"] = "none"
  /\ s = "verify_gone" =>
       /\ \A b \in Boxes : box[b] = "none"
       /\ have \cap {"volume", "network", "secrets"} = {}
       /\ Unplaced

\* Mutant: only what the row knows of is removed.
TargetsById == place.ids

\* Containers are removed by recorded id and by derived name.
Targets == Boxes

\* What a step leaves on the node.  stop_container goes by the recorded id alone.
NewBox(s) ==
  CASE s \in Starts -> [box EXCEPT ![BoxOf(s)] = "running"]
    [] s \in Stops /\ BoxOf(s) \in Running /\ (s = "stop_container" => "db" \in place.ids) ->
         [box EXCEPT ![BoxOf(s)] = "stopped"]
    [] s = "checkpoint_and_stop" ->
         [b \in Boxes |-> IF b \in Running \ {"rest"} THEN "stopped" ELSE box[b]]
    [] s \in Removes -> [b \in Boxes |-> IF b \in Targets THEN "none" ELSE box[b]]
    [] OTHER -> box

\* A container created anew brings its network, and the database its volume; what
\* the database runs on ages the last backup.
Gained(s) ==
  CASE s = "create_volume" -> {"volume"}
    [] s = "create_network" -> {"network"}
    [] s \in Starts /\ box[BoxOf(s)] = "none" ->
         {"network"} \cup (IF s = "start_container" THEN {"volume"} ELSE {})
    [] s = "store_credentials" -> {"secrets"}
    [] s = "generate_api_keys" /\ "keys" \notin have -> {"keys", "secrets"}
    [] s \in {"final_backup", "checkpoint_and_stop"} /\ "db" \in Running -> {"backup", "fresh"}
    [] OTHER -> {}
Lost(s) ==
  CASE s = "start_container" /\ "db" \notin Running -> {"fresh"}
    [] s = "remove_network" -> {"network"}
    [] s = "remove_volume" -> {"volume"}
    [] s = "delete_credentials" -> {"secrets"}
    [] OTHER -> {}
NewHave(s) == (have \cup Gained(s)) \ Lost(s)

\* Mutant: pause gives back the placement with the RAM (releaseNode).
UnbookedAndGone == NoPlace

\* releaseRam keeps the row.
Unbooked == [place EXCEPT !.st = "paused", !.ram = FALSE]

\* What a step writes to project_databases; an UPDATE without a row writes nothing.
NewPlace(s) ==
  IF Unplaced THEN
    IF s = "allocate_node" THEN [st |-> "provisioning", ram |-> TRUE, ids |-> {}] ELSE place
  ELSE
    CASE s = "release_capacity" -> NoPlace
      [] s \in Starts -> [place EXCEPT !.ids = @ \cup {BoxOf(s)}]
      [] s \in Removes -> [place EXCEPT !.ids = {}]
      [] s \in {"wait_healthy", "mark_resumed"} -> [place EXCEPT !.st = "running"]
      [] s = "mark_paused" -> Unbooked
      [] s = "mark_resuming" /\ project.st # "ready" -> [place EXCEPT !.ram = TRUE]
      [] s = "mark_soft_deleted" -> [place EXCEPT !.st = "deleting"]
      [] OTHER -> place

\* And to projects.
NewProject(s) ==
  CASE s \in {"mark_ready", "mark_resumed"} -> [project EXCEPT !.st = "ready"]
    [] s = "mark_pausing" /\ project.st # "paused" -> [project EXCEPT !.st = "pausing"]
    [] s = "mark_paused" -> [project EXCEPT !.st = "paused"]
    [] s = "mark_resuming" /\ project.st # "ready" -> [project EXCEPT !.st = "resuming"]
    [] s = "mark_soft_deleted" -> [project EXCEPT !.st = "soft_deleted", !.gone = TRUE]
    [] s = "mark_deleted" -> [project EXCEPT !.st = "deleted"]
    [] OTHER -> project

Nothing == UNCHANGED <<nodeVars, dbVars, recon>>

\* With a container goes the id by which the reconciler would have stopped it.
OnNode(s) ==
  /\ box' = NewBox(s) /\ have' = NewHave(s)
  /\ recon' = IF s \in Removes THEN [recon EXCEPT !.stop = {}] ELSE recon
Whole(s) == OnNode(s) /\ place' = NewPlace(s) /\ project' = NewProject(s)

\* A step that stops between its statements: the node comes before the database,
\* project_databases before projects except where the status is the announcement;
\* checkpoint_and_stop stops the pooler, backs up and stops the database; the
\* signing key comes before the api keys.
ProjectFirst == {"mark_resuming", "mark_soft_deleted"}
Half(s) ==
  \/ OnNode(s) /\ UNCHANGED dbVars
  \/ /\ OnNode(s)
     /\ IF s \in ProjectFirst THEN project' = NewProject(s) /\ UNCHANGED place
                              ELSE place' = NewPlace(s) /\ UNCHANGED project
  \/ /\ s = "checkpoint_and_stop"
     /\ box' = IF "pooler" \in Running THEN [box EXCEPT !["pooler"] = "stopped"] ELSE box
     /\ have' \in {have, NewHave(s)}
     /\ UNCHANGED <<dbVars, recon>>
  \/ /\ s = "generate_api_keys"
     /\ have' = have \cup {"secrets"}
     /\ UNCHANGED <<box, dbVars, recon>>

-----------------------------------------------------------------------------
(* Jobs *)

\* The first step of the saga that is not on record.
Upcoming(k) ==
  LET saga == Saga[TypeOf(k)]
      todo == {i \in DOMAIN saga : saga[i] \notin job[k].done}
  IN {saga[i] : i \in {n \in todo : \A m \in todo : n <= m}}

\* The step completes and is on record; after the last one the job succeeded.
StepCompletes(k, s) ==
  /\ Able(s)
  /\ Whole(s)
  /\ LET done == job[k].done \cup {s} IN
       job' = [job EXCEPT ![k] = IF done = Steps(k) THEN [NoJob EXCEPT !.st = "done"]
                                 ELSE [@ EXCEPT !.done = done]]
  /\ UNCHANGED <<recent, idle, faults>>

\* Mutant: the hook is for every saga.
FailedHooksAll(k) ==
  LET last == job[k].tries + 1 >= MaxTries IN
  job' = [job EXCEPT ![k] = [st |-> IF last THEN "dead" ELSE "open", done |-> @.done,
                             tries |-> @.tries + 1, hook |-> last]]

\* repo.fail: dead_letter on the last attempt; the hook is for the building sagas.
Failed(k) ==
  LET last == job[k].tries + 1 >= MaxTries IN
  job' = [job EXCEPT ![k] = [st |-> IF last THEN "dead" ELSE "open", done |-> @.done,
                             tries |-> @.tries + 1,
                             hook |-> last /\ TypeOf(k) = "provision"]]

\* The step refuses, having done what precedes the refusal: the CHECK comes after
\* project_databases, the connection after the secrets.
StepRefuses(k, s) ==
  /\ ~Able(s)
  /\ \/ /\ s \in {"mark_paused", "mark_resumed"}
        /\ place' = NewPlace(s)
        /\ UNCHANGED <<project, nodeVars, recon>>
     \/ /\ s = "store_credentials" /\ ~Unplaced
        /\ have' = NewHave(s)
        /\ UNCHANGED <<dbVars, box, recon>>
     \/ /\ s \notin {"mark_paused", "mark_resumed"} /\ (s = "store_credentials" => Unplaced)
        /\ Nothing
  /\ Failed(k)
  /\ UNCHANGED <<recent, idle, faults>>

\* A probe, a backup, Docker or a query fails on the way.
StepThrows(k, s) ==
  /\ Able(s)
  /\ Fault("throw")
  /\ Nothing \/ Half(s)
  /\ Failed(k)
  /\ UNCHANGED <<recent, idle>>

\* The worker dies before, within or after the step; the job is claimed again.
Crash(k, s) ==
  /\ Able(s)
  /\ Fault("crash")
  /\ Nothing \/ Half(s) \/ Whole(s)
  /\ job' = [job EXCEPT ![k].tries = @ + 1]
  /\ UNCHANGED <<recent, idle>>

\* onDeadLetter: UPDATE .. 'failed' WHERE status NOT IN ('deleted', 'soft_deleted').
Hook(k) ==
  /\ job[k].hook
  /\ job' = [job EXCEPT ![k].hook = FALSE]
  /\ IF project.st \in {"deleted", "soft_deleted"} THEN UNCHANGED project ELSE SetStatus("failed")
  /\ UNCHANGED <<place, nodeVars, scanVars, faults>>
LoseHook(k) ==
  /\ job[k].hook
  /\ Fault("crash")
  /\ job' = [job EXCEPT ![k].hook = FALSE]
  /\ UNCHANGED <<dbVars, nodeVars, scanVars>>

\* What the worker does with a job, and what may befall it.
Work(k) ==
  \/ Open(k) /\ \E s \in Upcoming(k) : StepCompletes(k, s) \/ StepRefuses(k, s)
  \/ Hook(k)
Mishap(k) ==
  \/ Open(k) /\ \E s \in Upcoming(k) : StepThrows(k, s) \/ Crash(k, s)
  \/ LoseHook(k)

-----------------------------------------------------------------------------
(* Requests *)

Count(t) == Cardinality({k \in OfType(t) : Exists(k)})

\* requestLifecycle
RequestLifecycle(kind, from, to) ==
  /\ project.st = from
  /\ ~ \E k \in OfType(kind) : Open(k)
  /\ Create(<<kind, Count(kind) + 1>>)
  /\ SetStatus(to)
  /\ UNCHANGED <<place, nodeVars, scanVars, faults>>
RequestPause == RequestLifecycle("pause", "ready", "pausing")
RequestResume == RequestLifecycle("resume", "paused", "resuming")

RequestDelete ==
  /\ project.st # "deleted"
  /\ Create(<<"delete", 0>>)
  /\ SetStatus("deleting")
  /\ UNCHANGED <<place, nodeVars, scanVars, faults>>

\* requestRetry: the youngest build that gave up starts again, its substrate
\* steps to be repeated.
Substrate == {"create_volume", "create_network", "start_container", "wait_healthy"}
Dead == {k \in OfType("provision") : job[k].st = "dead"}
Youngest(k) == \A k2 \in Dead : k2 = k \/ k2 = First \/ (k # First /\ k2[2] < k[2])
RequestRetry ==
  /\ project.st = "failed"
  /\ \E k \in Dead :
       /\ Youngest(k)
       /\ job' = [job EXCEPT ![k] = [st |-> "open", done |-> @.done \ Substrate,
                                     tries |-> 0, hook |-> @.hook]]
  /\ SetStatus("creating")
  /\ UNCHANGED <<place, nodeVars, scanVars, faults>>

-----------------------------------------------------------------------------
(* Scans *)

\* idle-scan: the candidate is read, asked for its connections (there are none),
\* given its one pause job, and marked whatever its status is by then.
IdleChoose ==
  /\ idle = "off" /\ <<"idlepause", 0>> \in Keys
  /\ project.st = "ready" /\ place.st = "running"
  /\ idle' = "chosen"
  /\ UNCHANGED <<dbVars, nodeVars, job, recon, recent, faults>>
IdleSkip ==
  /\ idle = "chosen" /\ Exists(<<"idlepause", 0>>)
  /\ idle' = "off"
  /\ UNCHANGED <<dbVars, nodeVars, job, recon, recent, faults>>
IdleInsert ==
  /\ idle = "chosen"
  /\ Create(<<"idlepause", 0>>)
  /\ idle' = "inserted"
  /\ UNCHANGED <<dbVars, nodeVars, recon, recent, faults>>
IdleMark ==
  /\ idle = "inserted"
  /\ IF Allowed("pausing") THEN SetStatus("pausing") ELSE UNCHANGED project
  /\ idle' = "off"
  /\ UNCHANGED <<place, nodeVars, job, recon, recent, faults>>
\* The pass dies with its process, or on a query.
IdleDies ==
  /\ idle # "off"
  /\ idle' = "off"
  /\ UNCHANGED <<dbVars, nodeVars, job, recon, recent, faults>>

\* purge_after passes.  Assumed: seven days outlast every job and every pass that
\* was at work on the project when it was soft-deleted.
WindowCloses ==
  /\ project.st = "soft_deleted" /\ ~project.due
  /\ \A k \in Keys : ~Open(k) /\ ~job[k].hook
  /\ recon.pc = "idle" /\ idle = "off"
  /\ project' = [project EXCEPT !.due = TRUE]
  /\ UNCHANGED <<place, nodeVars, job, scanVars, faults>>
PurgeScan ==
  /\ project.st = "soft_deleted" /\ project.due
  /\ Create(<<"purge", 0>>)
  /\ UNCHANGED <<dbVars, nodeVars, scanVars, faults>>

-----------------------------------------------------------------------------
(* The reconciler *)

ShouldRun == {"ready", "resuming"}
ShouldNotRun == {"soft_deleted", "deleted", "paused", "pausing"}
Goto(pc) == recon' = [recon EXCEPT !.pc = pc]

\* One query for what should run...
ReconcileDesired ==
  /\ recon.pc = "idle"
  /\ \/ project.st \in ShouldRun /\ Goto("up")
     \/ project.st \in ShouldNotRun /\ (project.st = "deleted" => ~Unplaced) /\ Goto("down")
  /\ UNCHANGED <<dbVars, nodeVars, job, recent, idle, faults>>

\* Mutant: poolers are not looked for.
WatchedNoPooler == {"db", "rest"}
Watched == Boxes

\* ... then one listing of what does.
ReconcileActual ==
  /\ \/ recon.pc = "up" /\ Goto(IF Running = Boxes THEN "idle" ELSE "suspect")
     \/ /\ recon.pc = "down"
        /\ recon' = [pc |-> "stop", stop |-> Running \cap Watched]
  /\ UNCHANGED <<dbVars, nodeVars, job, recent, idle, faults>>

\* Zombies are stopped by the ids they were listed with, the database last.
StopZombie(b) ==
  /\ recon.pc = "stop" /\ b \in recon.stop
  /\ b = "pooler" => "rest" \notin recon.stop
  /\ b = "db" => recon.stop = {"db"}
  /\ box' = [box EXCEPT ![b] = IF @ = "running" THEN "stopped" ELSE @]
  /\ recon' = [recon EXCEPT !.stop = @ \ {b}]
  /\ UNCHANGED <<dbVars, have, job, recent, idle, faults>>
AllStopped ==
  /\ recon.pc = "stop" /\ recon.stop = {} /\ Goto("idle")
  /\ UNCHANGED <<dbVars, nodeVars, job, recent, idle, faults>>

\* enqueueRepair: nobody is at work on the project...
RepairBusy ==
  /\ recon.pc = "suspect"
  /\ Goto(IF \E k \in Keys : Open(k) THEN "idle" ELSE "clear")
  /\ UNCHANGED <<dbVars, nodeVars, job, recent, idle, faults>>

\* ... and the hour's limit is not reached: a provision job under the hour's next
\* key, unless that key was used before.
Repair ==
  /\ recon.pc = "clear"
  /\ Goto("idle")
  /\ LET k == <<"repair", recent>> IN
     \/ /\ recent >= RepairLimit
        /\ IF Allowed("failed") THEN SetStatus("failed") ELSE UNCHANGED project
        /\ UNCHANGED <<job, recent>>
     \/ /\ recent < RepairLimit /\ Create(k)
        /\ recent' = recent + 1
        /\ UNCHANGED project
     \/ /\ recent < RepairLimit /\ Exists(k)
        /\ UNCHANGED <<job, recent, project>>
  /\ UNCHANGED <<place, nodeVars, idle, faults>>

HourPasses ==
  /\ recent > 0
  /\ recent' = 0
  /\ UNCHANGED <<dbVars, nodeVars, job, recon, idle, faults>>

Reconcile ==
  \/ ReconcileDesired \/ ReconcileActual \/ RepairBusy \/ Repair
  \/ \E b \in Boxes : StopZombie(b)
  \/ AllStopped

-----------------------------------------------------------------------------

\* A container dies and stays down.
Dies(b) ==
  /\ b \in Running /\ Fault("dies")
  /\ box' = [box EXCEPT ![b] = "stopped"]
  /\ UNCHANGED <<dbVars, have, job, scanVars>>

Workers == \E k \in Keys : Work(k)

Next ==
  \/ Workers \/ \E k \in Keys : Mishap(k)
  \/ RequestPause \/ RequestResume \/ RequestDelete \/ RequestRetry
  \/ IdleChoose \/ IdleSkip \/ IdleInsert \/ IdleMark \/ IdleDies
  \/ WindowCloses \/ PurgeScan
  \/ Reconcile \/ HourPasses
  \/ \E b \in Boxes : Dies(b)

Spec == Init /\ [][Next]_vars

\* The workers, the reconciler and the purge scan keep running.
Fairness == WF_vars(Workers) /\ WF_vars(Reconcile) /\ WF_vars(PurgeScan)
FairSpec == Spec /\ Fairness

-----------------------------------------------------------------------------
(* Safety *)

\* Every variable keeps its type; the dead-letter hook is pending for builds only
\* (main.ts: "Only the building sagas map to failed, and that is the whole subtlety").
TypeOK ==
  /\ project \in [st : Statuses, gone : BOOLEAN, due : BOOLEAN]
  /\ place \in [st : {"none", "provisioning", "running", "paused", "deleting"},
                ram : BOOLEAN, ids : SUBSET Boxes]
  /\ box \in [Boxes -> {"none", "stopped", "running"}]
  /\ have \subseteq Things
  /\ job \in [Keys -> [st : {"none", "open", "done", "dead"}, done : SUBSET AllSteps,
                       tries : Nat, hook : BOOLEAN]]
  /\ \A k \in Keys :
       /\ job[k].done \subseteq Steps(k)
       /\ job[k].hook => TypeOf(k) = "provision"
  /\ recon \in [pc : {"idle", "up", "down", "suspect", "clear", "stop"}, stop : SUBSET Boxes]
  /\ recent \in 0 .. RepairLimit
  /\ idle \in {"off", "chosen", "inserted"}
  /\ faults \in 0 .. MaxFaults

\* Whatever jobs crossed on the way, a project that is shown as usable, or as about
\* to be usable again, has its volume, its placement row, its credentials and its
\* api keys (mark_ready; pause keeps the volume and the placement, D-008).
UsableIsComplete ==
  project.st \in {"ready", "pausing", "paused", "resuming"} =>
    {"volume", "secrets", "keys"} \subseteq have /\ ~Unplaced

\* Once the delete saga has succeeded the project is in its recovery window or purged,
\* and stays so: no build, pause, resume, retry or scan that was under way brings it
\* back (the CHECK on projects is what refuses them).
DeletionWins ==
  \A k \in OfType("delete") : job[k].st = "done" => project.st \in {"soft_deleted", "deleted"}

\* A paused project has a backup behind it, though a pause may find its database
\* already stopped by somebody else (final_backup, D-078).
PausedIsRestorable == project.st = "paused" => "backup" \in have

\* The crossing jobs together keep the promises of ProjectContract.
Phase == IF project.st = "deleted" THEN "purged" ELSE IF project.gone THEN "buried" ELSE "open"
Covered == "backup" \in have
DataGone == project.gone /\ "volume" \notin have
Contract == INSTANCE ProjectContract WITH
  phase <- Phase, covered <- Covered, closed <- project.due, destroyed <- DataGone
ImplementsContract == Contract!Spec

\* The pause interlock: while a project is being paused its database is not stopped
\* before it has been backed up (docs/03-database-platform/05-backups-and-pitr.md:118,
\* "before the container stops ... a failure leaves the containers running").
PauseInterlock == project.st = "pausing" /\ "db" \notin Running => "fresh" \in have

-----------------------------------------------------------------------------
(* Liveness *)

\* A container that runs although its project is paused or soft-deleted is stopped,
\* whichever of the three it is (reconcile.ts, zombie_container).
ZombiesStopped ==
  \A b \in Boxes :
    (project.st \in {"soft_deleted", "paused"} /\ box[b] = "running") ~>
      (project.st \notin {"soft_deleted", "paused"} \/ box[b] # "running")

\* A project whose window has closed is purged, and then nothing of it is left on the
\* node or in the placement, whatever an earlier build or delete left behind
\* (purge-scan.ts, purge_project).
PurgeFinishes ==
  (project.st = "soft_deleted" /\ project.due) ~>
    (/\ project.st = "deleted" /\ Unplaced
     /\ \A b \in Boxes : box[b] = "none"
     /\ have \subseteq {"keys", "backup", "fresh"})
=============================================================================
