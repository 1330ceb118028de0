----------------------- MODULE ProjectLifecycleProofs ------------------------
(***************************************************************************)
(* For any set of jobs, any number of attempts and repairs and any number  *)
(* of faults: a project that is shown as usable is complete, a paused or   *)
(* buried one has a backup, deletion wins over whatever crosses it, and    *)
(* the data of a project is destroyed only after its window has closed.    *)
(*                                                                         *)
(* The argument is that what a project is made of only grows until its     *)
(* window closes (Kept, Backed), that after the burial nothing but the     *)
(* purge has a way to act (Grave, Window), and that each saga checks or    *)
(* does first what its last step announces.                                *)
(***************************************************************************)
EXTENDS ProjectLifecycle, TLAPS

(* CHECK on projects, and who wrote deleted_at: the one delete job. *)
Grave ==
  /\ project.gone <=> (project.st \in {"soft_deleted", "deleted"})
  /\ project.gone => <<"delete", 0>> \in Keys /\ Exists(<<"delete", 0>>)
  /\ \A k \in OfType("delete") :
       /\ Exists(k) => k = <<"delete", 0>>
       /\ job[k].st = "done" \/ "mark_soft_deleted" \in job[k].done => project.gone

(* Once the window has closed, only the purge is at work. *)
Window ==
  /\ project.due => project.gone
  /\ project.st = "deleted" => project.due
  /\ \A k \in OfType("purge") : Exists(k) => project.due
  /\ project.due =>
       /\ \A k \in Keys : (Open(k) => TypeOf(k) = "purge") /\ ~job[k].hook
       /\ recon.pc \in {"idle", "down", "stop"}
       /\ idle = "off"

Usable == project.st \in {"ready", "pausing", "paused", "resuming"}
Core == {"volume", "secrets", "keys"} \subseteq have /\ ~Unplaced

(* Until then what has been made is kept, and nobody acts on an unfinished project
   as if it were finished. *)
Kept ==
  ~project.due =>
    /\ ("backup" \in have \/ box["db"] # "none" \/ "db" \in place.ids) => "volume" \in have
    /\ Usable => Core
    /\ (\E k \in OfType("pause") \cup OfType("resume") : Exists(k)) => Core
    /\ idle # "off" => Core

(* A pause and a deletion have their backup. *)
Backed ==
  /\ \A k \in Keys : "final_backup" \in job[k].done => "backup" \in have
  /\ project.st = "paused" => "backup" \in have
  /\ project.gone => "backup" \in have

(* The row says 'deleted' of data that is gone. *)
Destroyed ==
  /\ \A k \in Keys : "remove_volume" \in job[k].done => project.due /\ "volume" \notin have
  /\ project.st = "deleted" => "volume" \notin have

IInv == TypeOK /\ Grave /\ Window /\ Kept /\ Backed /\ Destroyed

-----------------------------------------------------------------------------
(* Sagas *)

LEMMA Kind == ASSUME NEW k \in Keys PROVE TypeOf(k) \in DOMAIN Saga
BY LifecycleAssumption DEF TypeOf, Kinds, Saga

LEMMA StepsOf ==
  ASSUME NEW k \in Keys
  PROVE  /\ TypeOf(k) = "provision" => Steps(k) =
              {"allocate_node", "create_volume", "create_network", "start_container",
               "wait_healthy", "store_credentials", "generate_api_keys",
               "start_pooler", "start_postgrest", "mark_ready"}
         /\ TypeOf(k) = "pause" => Steps(k) =
              {"mark_pausing", "final_backup", "checkpoint_and_stop",
               "remove_paused_containers", "mark_paused"}
         /\ TypeOf(k) = "resume" => Steps(k) =
              {"mark_resuming", "create_network", "start_container", "wait_healthy",
               "start_pooler", "start_postgrest", "mark_resumed"}
         /\ TypeOf(k) = "delete" => Steps(k) =
              {"final_backup", "stop_postgrest", "stop_pooler", "stop_container",
               "remove_network", "mark_soft_deleted"}
         /\ TypeOf(k) = "purge" => Steps(k) =
              {"verify_purgeable", "remove_container", "remove_network",
               "remove_volume", "delete_credentials", "release_capacity",
               "verify_gone", "mark_deleted"}
<1>1. ASSUME TypeOf(k) = "provision"
      PROVE  Steps(k) =
              {"allocate_node", "create_volume", "create_network", "start_container",
               "wait_healthy", "store_credentials", "generate_api_keys",
               "start_pooler", "start_postgrest", "mark_ready"}
  BY <1>1 DEF Steps, Saga
<1>2. ASSUME TypeOf(k) = "pause"
      PROVE  Steps(k) = {"mark_pausing", "final_backup", "checkpoint_and_stop",
                         "remove_paused_containers", "mark_paused"}
  BY <1>2 DEF Steps, Saga
<1>3. ASSUME TypeOf(k) = "resume"
      PROVE  Steps(k) = {"mark_resuming", "create_network", "start_container", "wait_healthy",
                         "start_pooler", "start_postgrest", "mark_resumed"}
  BY <1>3 DEF Steps, Saga
<1>4. ASSUME TypeOf(k) = "delete"
      PROVE  Steps(k) = {"final_backup", "stop_postgrest", "stop_pooler", "stop_container",
                         "remove_network", "mark_soft_deleted"}
  BY <1>4 DEF Steps, Saga
<1>5. ASSUME TypeOf(k) = "purge"
      PROVE  Steps(k) = {"verify_purgeable", "remove_container", "remove_network",
                         "remove_volume", "delete_credentials", "release_capacity",
                         "verify_gone", "mark_deleted"}
  BY <1>5 DEF Steps, Saga
<1> QED
  BY <1>1, <1>2, <1>3, <1>4, <1>5

\* The upcoming step is one of the saga, and those that must precede it are on record.
LEMMA Before ==
  ASSUME NEW k \in Keys, NEW s \in Upcoming(k)
  PROVE  /\ s \in Steps(k)
         /\ TypeOf(k) = "pause" /\ s = "mark_paused" => "final_backup" \in job[k].done
         /\ TypeOf(k) = "delete" /\ s = "mark_soft_deleted" => "final_backup" \in job[k].done
         /\ TypeOf(k) = "purge" /\ s = "mark_deleted" => "remove_volume" \in job[k].done
<1> DEFINE saga == Saga[TypeOf(k)]
<1>1. PICK i \in DOMAIN saga :
        s = saga[i] /\ \A m \in DOMAIN saga : m < i => saga[m] \in job[k].done
  <2>1. TypeOf(k) \in DOMAIN Saga
    BY Kind
  <2>2. DOMAIN saga \subseteq Nat
    BY <2>1 DEF Saga
  <2> QED
    BY <2>2 DEF Upcoming
<1>2. s \in Steps(k)
  BY <1>1 DEF Steps
<1>3. ASSUME TypeOf(k) = "pause", s = "mark_paused" PROVE "final_backup" \in job[k].done
  <2>1. /\ DOMAIN saga = 1 .. 5
        /\ saga[1] = "mark_pausing"
        /\ saga[2] = "final_backup"
        /\ saga[3] = "checkpoint_and_stop"
        /\ saga[4] = "remove_paused_containers"
        /\ saga[5] = "mark_paused"
    BY <1>3 DEF Saga
  <2>2. i = 5
    BY <1>1, <1>3, <2>1
  <2> QED
    BY <1>1, <2>1, <2>2
<1>4. ASSUME TypeOf(k) = "delete", s = "mark_soft_deleted" PROVE "final_backup" \in job[k].done
  <2>1. /\ DOMAIN saga = 1 .. 6
        /\ saga[1] = "final_backup"
        /\ saga[2] = "stop_postgrest"
        /\ saga[3] = "stop_pooler"
        /\ saga[4] = "stop_container"
        /\ saga[5] = "remove_network"
        /\ saga[6] = "mark_soft_deleted"
    BY <1>4 DEF Saga
  <2>2. i = 6
    BY <1>1, <1>4, <2>1
  <2> QED
    BY <1>1, <2>1, <2>2
<1>5. ASSUME TypeOf(k) = "purge", s = "mark_deleted" PROVE "remove_volume" \in job[k].done
  <2>1. /\ DOMAIN saga = 1 .. 8
        /\ saga[1] = "verify_purgeable"
        /\ saga[2] = "remove_container"
        /\ saga[3] = "remove_network"
        /\ saga[4] = "remove_volume"
        /\ saga[5] = "delete_credentials"
        /\ saga[6] = "release_capacity"
        /\ saga[7] = "verify_gone"
        /\ saga[8] = "mark_deleted"
    BY <1>5 DEF Saga
  <2>2. i = 8
    BY <1>1, <1>5, <2>1
  <2> QED
    BY <1>1, <2>1, <2>2
<1> QED
  BY <1>2, <1>3, <1>4, <1>5

-----------------------------------------------------------------------------
(* What a step can change *)

ProjectType == [st : Statuses, gone : BOOLEAN, due : BOOLEAN]
PlaceType == [st : {"none", "provisioning", "running", "paused", "deleting"},
              ram : BOOLEAN, ids : SUBSET Boxes]
BoxType == [Boxes -> {"none", "stopped", "running"}]

LEMMA BoxFacts ==
  ASSUME NEW s, box \in BoxType
  PROVE  /\ NewBox(s) \in BoxType
         /\ NewBox(s)["db"] # "none" => box["db"] # "none" \/ s = "start_container"
<1>1. BoxOf(s) = "db" => s \notin {"start_pooler", "start_postgrest"}
  BY DEF BoxOf
<1>2. s \in Starts => BoxOf(s) \in Boxes
  BY DEF Starts, BoxOf, Boxes
<1>3. s \in Stops => BoxOf(s) \in Boxes
  BY DEF Stops, BoxOf, Boxes
<1>4. CASE s \in Starts
  BY <1>1, <1>2, <1>4 DEF NewBox, BoxType, Boxes, Starts
<1>5. CASE s \notin Starts
  <2>1. CASE s \in Stops
    BY <1>3, <1>5, <2>1 DEF NewBox, BoxType, Boxes, Stops, Removes, Running
  <2>2. CASE s \notin Stops
    BY <1>5, <2>2 DEF NewBox, BoxType, Boxes, Stops, Removes, Running
  <2> QED
    BY <2>1, <2>2
<1> QED
  BY <1>4, <1>5

LEMMA HaveFacts ==
  ASSUME NEW s, have \subseteq Things
  PROVE  /\ NewHave(s) \subseteq Things
         /\ "backup" \in have => "backup" \in NewHave(s)
         /\ "backup" \in NewHave(s) => "backup" \in have \/ "db" \in Running
         /\ s = "final_backup" /\ Able(s) => "backup" \in NewHave(s)
         /\ "keys" \in have => "keys" \in NewHave(s)
         /\ "secrets" \in have => "secrets" \in NewHave(s) \/ s = "delete_credentials"
         /\ "volume" \in have => "volume" \in NewHave(s) \/ s = "remove_volume"
         /\ "volume" \in NewHave(s) => "volume" \in have \/ s \in {"create_volume", "start_container"}
         /\ s = "remove_volume" => "volume" \notin NewHave(s)
         /\ s = "start_container" /\ box["db"] = "none" => "volume" \in NewHave(s)
<1>1. Gained(s) \subseteq Things
  BY DEF Gained, Things
<1>2. /\ "backup" \in Gained(s) => "db" \in Running
      /\ s = "final_backup" /\ "db" \in Running => "backup" \in Gained(s)
  BY DEF Gained, Starts
<1>3. "volume" \in Gained(s) => s \in {"create_volume", "start_container"}
  BY DEF Gained, Starts
<1>4. s = "start_container" /\ box["db"] = "none" => "volume" \in Gained(s)
  BY DEF Gained, Starts, BoxOf
<1>5. /\ "backup" \notin Lost(s) /\ "keys" \notin Lost(s)
      /\ "secrets" \in Lost(s) => s = "delete_credentials"
      /\ "volume" \in Lost(s) <=> s = "remove_volume"
  BY DEF Lost
<1>6. s = "final_backup" /\ Able(s) => "db" \in Running \/ "backup" \in have
  BY DEF Able, Restorable
<1> QED
  BY <1>1, <1>2, <1>3, <1>4, <1>5, <1>6 DEF NewHave

LEMMA PlaceFacts ==
  ASSUME NEW s, place \in PlaceType
  PROVE  /\ NewPlace(s) \in PlaceType
         /\ "db" \in NewPlace(s).ids => "db" \in place.ids \/ s = "start_container"
         /\ NewPlace(s).st = "none" => Unplaced \/ s = "release_capacity"
<1>1. s \in Starts => BoxOf(s) \in Boxes /\ (BoxOf(s) = "db" => s = "start_container")
  BY DEF Starts, BoxOf, Boxes
<1>2. CASE Unplaced
  BY <1>2 DEF NewPlace, Unplaced, PlaceType, NoPlace
<1>3. CASE ~Unplaced /\ s \in Starts
  BY <1>1, <1>3 DEF NewPlace, Unplaced, PlaceType, Starts
<1>4. CASE ~Unplaced /\ s \notin Starts
  BY <1>4 DEF NewPlace, Unplaced, PlaceType, NoPlace, Unbooked, Removes
<1> QED
  BY <1>2, <1>3, <1>4

LEMMA ProjectFacts ==
  ASSUME NEW s, project \in ProjectType, NewProject(s) # project
  PROVE  /\ NewProject(s) \in ProjectType
         /\ NewProject(s).due = project.due
         /\ \/ /\ s \in {"mark_ready", "mark_resumed"}
               /\ NewProject(s).st = "ready" /\ NewProject(s).gone = project.gone
            \/ /\ s = "mark_pausing"
               /\ NewProject(s).st = "pausing" /\ NewProject(s).gone = project.gone
            \/ /\ s = "mark_paused"
               /\ NewProject(s).st = "paused" /\ NewProject(s).gone = project.gone
            \/ /\ s = "mark_resuming"
               /\ NewProject(s).st = "resuming" /\ NewProject(s).gone = project.gone
            \/ /\ s = "mark_soft_deleted"
               /\ NewProject(s).st = "soft_deleted" /\ NewProject(s).gone
            \/ /\ s = "mark_deleted"
               /\ NewProject(s).st = "deleted" /\ NewProject(s).gone = project.gone
BY DEF NewProject, ProjectType, Statuses

-----------------------------------------------------------------------------
(* A worker performs a step, whatever comes of it *)

Perform(k, s) ==
  /\ Open(k) /\ s \in Upcoming(k)
  /\ StepCompletes(k, s) \/ StepRefuses(k, s) \/ StepThrows(k, s) \/ Crash(k, s)

(* What it leaves behind... *)
Effect(s) ==
  \/ Nothing
  \/ /\ Able(s) /\ OnNode(s)
     /\ place' \in {place, NewPlace(s)} /\ project' \in {project, NewProject(s)}
  \/ /\ s = "checkpoint_and_stop"
     /\ box' \in {box, [box EXCEPT !["pooler"] = "stopped"]} /\ have' \in {have, NewHave(s)}
     /\ UNCHANGED <<dbVars, recon>>
  \/ /\ s \in {"generate_api_keys", "store_credentials"}
     /\ have' = have \cup {"secrets"}
     /\ UNCHANGED <<box, dbVars, recon>>
  \/ /\ s \in {"mark_paused", "mark_resumed"}
     /\ place' = NewPlace(s)
     /\ UNCHANGED <<project, nodeVars, recon>>

(* ... and what the job's row says of it. *)
JobType == [st : {"none", "open", "done", "dead"}, done : SUBSET AllSteps,
            tries : Nat, hook : BOOLEAN]
Recorded(k, s) ==
  /\ job' \in [Keys -> JobType]
  /\ \A j \in Keys : j # k => job'[j] = job[j]
  /\ job'[k].hook => TypeOf(k) = "provision"
  /\ \/ /\ Able(s) /\ Whole(s)
        /\ \/ job'[k].st = "open" /\ job'[k].done = job[k].done \cup {s}
           \/ /\ job[k].done \cup {s} = Steps(k)
              /\ job'[k].st = "done" /\ job'[k].done = {}
     \/ job'[k].st \in {"open", "dead"} /\ job'[k].done = job[k].done

LEMMA Performed ==
  ASSUME TypeOK, NEW k \in Keys, NEW s, Perform(k, s)
  PROVE  /\ Open(k) /\ s \in Steps(k)
         /\ Effect(s) /\ Recorded(k, s)
         /\ UNCHANGED <<recent, idle>>
         /\ faults' \in 0 .. MaxFaults
<1>1. job[k] \in JobType /\ job[k].st = "open" /\ faults \in 0 .. MaxFaults
  BY DEF TypeOK, JobType, Perform, Open
<1>2. s \in Steps(k) /\ Open(k)
  BY Before DEF Perform
<1>3. Half(s) /\ Able(s) => Effect(s)
  BY DEF Half, Effect, dbVars
<1>4. Whole(s) /\ Able(s) => Effect(s)
  BY DEF Whole, Effect
<1>5. Failed(k) => Recorded(k, s)
  <2>1. PICK last \in BOOLEAN : last <=> job[k].tries + 1 >= MaxTries
    BY Zenon
  <2> DEFINE row == [st |-> IF last THEN "dead" ELSE "open", done |-> job[k].done,
                     tries |-> job[k].tries + 1, hook |-> last /\ TypeOf(k) = "provision"]
  <2>2. row \in JobType /\ row.done = job[k].done /\ row.st \in {"open", "dead"}
    BY <1>1 DEF JobType
  <2>3. Failed(k) => job' = [job EXCEPT ![k] = row]
    BY <2>1 DEF Failed
  <2>4. row.hook => TypeOf(k) = "provision"
    BY Zenon
  <2> HIDE DEF row
  <2> QED
    BY <2>2, <2>3, <2>4 DEF Recorded, JobType, TypeOK
<1>6. CASE StepCompletes(k, s)
  <2>1. s \in AllSteps
    BY <1>2 DEF AllSteps
  <2>2. Recorded(k, s)
    BY <1>1, <1>6, <2>1 DEF StepCompletes, Recorded, JobType, TypeOK, NoJob
  <2> QED
    BY <1>1, <1>2, <1>4, <1>6, <2>2 DEF StepCompletes
<1>7. CASE StepRefuses(k, s)
  <2>1. ASSUME s = "store_credentials" PROVE NewHave(s) = have \cup {"secrets"}
    BY <2>1 DEF NewHave, Gained, Lost, Starts
  <2>2. Effect(s)
    BY <1>7, <2>1 DEF StepRefuses, Effect, nodeVars, dbVars, Nothing
  <2> QED
    BY <1>1, <1>2, <1>5, <1>7, <2>2 DEF StepRefuses
<1>8. CASE StepThrows(k, s)
  <2>1. Effect(s)
    BY <1>3, <1>8 DEF StepThrows, Effect
  <2>2. faults' \in 0 .. MaxFaults
    BY <1>1, <1>8, LifecycleAssumption DEF StepThrows, Fault
  <2> QED
    BY <1>2, <1>5, <1>8, <2>1, <2>2 DEF StepThrows
<1>9. CASE Crash(k, s)
  <2>1. Effect(s)
    BY <1>3, <1>4, <1>9 DEF Crash, Effect
  <2>2. faults' \in 0 .. MaxFaults
    BY <1>1, <1>9, LifecycleAssumption DEF Crash, Fault
  <2>3. Recorded(k, s)
    BY <1>1, <1>9 DEF Crash, Recorded, JobType, TypeOK
  <2> QED
    BY <1>2, <1>9, <2>1, <2>2, <2>3 DEF Crash
<1> QED
  BY <1>6, <1>7, <1>8, <1>9 DEF Perform

-----------------------------------------------------------------------------
(* The actions that are not a step of a saga *)

(* The passes look, stop containers and forget. *)
Quiet ==
  /\ UNCHANGED <<have, dbVars, job>>
  /\ box' \in BoxType /\ (box'["db"] # "none" => box["db"] # "none")
  /\ idle' \in {idle, "off"}
  /\ \/ recon' = recon
     \/ /\ recon' \in [pc : {"idle", "down", "stop"}, stop : SUBSET Boxes]
     \/ /\ recon' \in [pc : {"up", "suspect", "clear"}, stop : SUBSET Boxes]
        /\ project.st \in ShouldRun \/ recon.pc \in {"up", "suspect"}
  /\ recent' \in 0 .. RepairLimit /\ faults' \in 0 .. MaxFaults

LEMMA Quieted ==
  ASSUME TypeOK,
         \/ ReconcileDesired \/ ReconcileActual \/ RepairBusy \/ AllStopped
         \/ \E b \in Boxes : StopZombie(b) \/ Dies(b)
         \/ HourPasses \/ IdleSkip \/ IdleDies \/ UNCHANGED vars
  PROVE  Quiet
<1>1. /\ recent \in 0 .. RepairLimit /\ faults \in 0 .. MaxFaults
      /\ recon \in [pc : {"idle", "up", "down", "suspect", "clear", "stop"}, stop : SUBSET Boxes]
      /\ box \in BoxType
  BY DEF TypeOK, BoxType
<1>2. 0 \in 0 .. RepairLimit
  BY LifecycleAssumption
<1>3. CASE ReconcileDesired
  BY <1>1, <1>3 DEF ReconcileDesired, Quiet, Goto, nodeVars, dbVars
<1>4. CASE ReconcileActual
  <2>1. Running \cap Watched \in SUBSET Boxes
    BY DEF Running
  <2> QED
    BY <1>1, <1>4, <2>1 DEF ReconcileActual, Quiet, Goto, nodeVars, dbVars
<1>5. CASE RepairBusy
  BY <1>1, <1>5 DEF RepairBusy, Quiet, Goto, nodeVars, dbVars
<1>6. CASE AllStopped
  BY <1>1, <1>6 DEF AllStopped, Quiet, Goto, nodeVars, dbVars
<1>7. ASSUME NEW b \in Boxes, StopZombie(b) PROVE Quiet
  BY <1>1, <1>7 DEF StopZombie, Quiet, BoxType, dbVars
<1>8. ASSUME NEW b \in Boxes, Dies(b) PROVE Quiet
  BY <1>1, <1>8, LifecycleAssumption DEF Dies, Quiet, BoxType, dbVars, scanVars, Fault, Running
<1>9. CASE HourPasses \/ IdleSkip \/ IdleDies \/ UNCHANGED vars
  BY <1>1, <1>2, <1>9 DEF HourPasses, IdleSkip, IdleDies, vars, Quiet, nodeVars, dbVars
<1> QED
  BY <1>3, <1>4, <1>5, <1>6, <1>7, <1>8, <1>9

LEMMA Acts ==
  ASSUME TypeOK, [Next]_vars
  PROVE  \/ \E k \in Keys : \E s : Perform(k, s)
         \/ Quiet
         \/ \E k \in Keys : Hook(k) \/ LoseHook(k)
         \/ RequestPause \/ RequestResume \/ RequestDelete \/ RequestRetry
         \/ IdleChoose \/ IdleInsert \/ IdleMark
         \/ WindowCloses \/ PurgeScan \/ Repair
<1>1. CASE UNCHANGED vars
  BY <1>1, Quieted
<1>2. ASSUME NEW k \in Keys, Work(k) \/ Mishap(k)
      PROVE  (\E s : Perform(k, s)) \/ Hook(k) \/ LoseHook(k)
  BY <1>2 DEF Work, Mishap, Perform
<1>3. CASE Reconcile
  BY <1>3, Quieted DEF Reconcile
<1>4. CASE IdleSkip \/ IdleDies \/ HourPasses \/ \E b \in Boxes : Dies(b)
  BY <1>4, Quieted
<1> QED
  BY <1>1, <1>2, <1>3, <1>4 DEF Next, Workers

(* What is asked of a project, and what happens to the rows. *)
LEMMA Asked ==
  ASSUME RequestPause \/ RequestResume \/ RequestDelete
  PROVE  /\ \/ /\ \E n : Create(<<"pause", n>>)
               /\ project.st = "ready" /\ SetStatus("pausing")
            \/ /\ \E n : Create(<<"resume", n>>)
               /\ project.st = "paused" /\ SetStatus("resuming")
            \/ /\ Create(<<"delete", 0>>)
               /\ SetStatus("deleting")
         /\ UNCHANGED <<place, nodeVars, scanVars, faults>>
BY DEF RequestPause, RequestResume, RequestDelete, RequestLifecycle

LEMMA Created ==
  ASSUME TypeOK, NEW k, Create(k)
  PROVE  /\ k \in Keys /\ ~Exists(k)
         /\ job' \in [Keys -> JobType]
         /\ \A j \in Keys : j # k => job'[j] = job[j]
         /\ job'[k].st = "open" /\ job'[k].done = {} /\ ~job'[k].hook
BY DEF Create, TypeOK, JobType, Requested, NoJob

LEMMA Unhooked ==
  ASSUME TypeOK, NEW k \in Keys, Hook(k) \/ LoseHook(k)
  PROVE  /\ job' \in [Keys -> JobType]
         /\ \A j \in Keys : /\ job'[j].st = job[j].st /\ job'[j].done = job[j].done
                            /\ job'[j].hook => job[j].hook
<1>1. job' = [job EXCEPT ![k].hook = FALSE]
  BY DEF Hook, LoseHook
<1>2. job \in [Keys -> JobType]
  BY DEF TypeOK, JobType
<1> QED
  BY <1>1, <1>2 DEF JobType

LEMMA Retried ==
  ASSUME TypeOK, RequestRetry
  PROVE  /\ job' \in [Keys -> JobType]
         /\ \A j \in Keys : /\ job'[j].done \subseteq job[j].done
                            /\ job'[j].hook => job[j].hook
                            /\ job'[j] = job[j] \/ (TypeOf(j) = "provision" /\ Exists(j))
<1>1. PICK d \in Dead :
        job' = [job EXCEPT ![d] = [st |-> "open", done |-> @.done \ Substrate,
                                   tries |-> 0, hook |-> @.hook]]
  BY Zenon DEF RequestRetry
<1>2. d \in Keys /\ TypeOf(d) = "provision" /\ Exists(d)
  BY <1>1 DEF Dead, OfType, Exists
<1>3. job \in [Keys -> JobType]
  BY DEF TypeOK, JobType
<1> QED
  BY <1>1, <1>2, <1>3 DEF JobType

-----------------------------------------------------------------------------
(* Types *)

JobsOK ==
  /\ job \in [Keys -> JobType]
  /\ \A k \in Keys : /\ job[k].done \subseteq Steps(k)
                     /\ job[k].hook => TypeOf(k) = "provision"
ReconType == [pc : {"idle", "up", "down", "suspect", "clear", "stop"}, stop : SUBSET Boxes]
Counters ==
  recent \in 0 .. RepairLimit /\ idle \in {"off", "chosen", "inserted"} /\ faults \in 0 .. MaxFaults

LEMMA TypeParts ==
  TypeOK <=> /\ project \in ProjectType /\ place \in PlaceType
             /\ box \in BoxType /\ have \subseteq Things
             /\ JobsOK /\ recon \in ReconType /\ Counters
BY DEF TypeOK, ProjectType, PlaceType, BoxType, JobsOK, JobType, ReconType, Counters

LEMMA TypesStep ==
  ASSUME TypeOK, NEW k \in Keys, NEW s, Perform(k, s)
  PROVE  TypeOK'
<1>1. Effect(s) /\ Recorded(k, s) /\ s \in Steps(k) /\ UNCHANGED <<recent, idle>>
      /\ faults' \in 0 .. MaxFaults
  BY Performed
<1>2. /\ project \in ProjectType /\ place \in PlaceType /\ box \in BoxType
      /\ have \subseteq Things /\ JobsOK /\ recon \in ReconType /\ Counters
  BY TypeParts
<1>3. NewBox(s) \in BoxType /\ [box EXCEPT !["pooler"] = "stopped"] \in BoxType
  BY <1>2, BoxFacts DEF BoxType, Boxes
<1>4. NewHave(s) \subseteq Things /\ have \cup {"secrets"} \subseteq Things
  BY <1>2, HaveFacts DEF Things
<1>5. NewPlace(s) \in PlaceType
  BY <1>2, PlaceFacts
<1>6. NewProject(s) \in ProjectType
  BY <1>2, ProjectFacts
<1>7. [recon EXCEPT !.stop = {}] \in ReconType
  BY <1>2 DEF ReconType
<1>8. /\ project' \in ProjectType /\ place' \in PlaceType /\ box' \in BoxType
      /\ have' \subseteq Things /\ recon' \in ReconType
  BY <1>1, <1>2, <1>3, <1>4, <1>5, <1>6, <1>7
     DEF Effect, Nothing, OnNode, nodeVars, dbVars
<1>9. JobsOK'
  BY <1>1, <1>2 DEF Recorded, JobsOK
<1>10. Counters'
  BY <1>1, <1>2 DEF Counters
<1> QED
  BY <1>8, <1>9, <1>10 DEF TypeOK, ProjectType, PlaceType, BoxType, JobsOK, JobType,
                          ReconType, Counters

LEMMA CreatedTypes ==
  ASSUME TypeOK, NEW k, Create(k)
  PROVE  JobsOK'
BY Created DEF JobsOK, TypeOK, JobType

LEMMA StatusTypes ==
  ASSUME TypeOK, NEW st \in Statuses, SetStatus(st)
  PROVE  project' \in ProjectType
BY DEF SetStatus, TypeOK, ProjectType

LEMMA Types == TypeOK /\ [Next]_vars => TypeOK'
<1> SUFFICES ASSUME TypeOK, [Next]_vars PROVE TypeOK'
  OBVIOUS
<1> USE DEF nodeVars, dbVars, scanVars
<1>1. /\ project \in ProjectType /\ place \in PlaceType /\ box \in BoxType
      /\ have \subseteq Things /\ JobsOK /\ recon \in ReconType /\ Counters
  BY TypeParts
<1> DEFINE Rest == /\ place' \in PlaceType /\ box' \in BoxType /\ have' \subseteq Things
                   /\ recon' \in ReconType /\ Counters'
<1>2. ASSUME Rest, project' \in ProjectType, JobsOK' PROVE TypeOK'
  BY <1>2 DEF TypeOK, ProjectType, PlaceType, BoxType, JobsOK, JobType, ReconType, Counters
<1> HIDE DEF Rest
<1>3. ASSUME NEW k \in Keys, NEW s, Perform(k, s) PROVE TypeOK'
  BY <1>3, TypesStep
<1>4. CASE Quiet
  <2>1. Rest
    BY <1>1, <1>4 DEF Quiet, Rest, ReconType, Counters
  <2> QED
    BY <1>1, <1>2, <1>4, <2>1 DEF Quiet, JobsOK
<1>5. ASSUME NEW k \in Keys, Hook(k) \/ LoseHook(k) PROVE TypeOK'
  <2>1. Rest
    BY <1>1, <1>5, LifecycleAssumption DEF Hook, LoseHook, Rest, Counters, Fault
  <2>2. JobsOK'
    BY <1>1, <1>5, Unhooked DEF JobsOK
  <2>3. project' \in ProjectType
    BY <1>1, <1>5, StatusTypes DEF Hook, LoseHook, Statuses
  <2> QED
    BY <1>2, <2>1, <2>2, <2>3
<1>6. CASE RequestPause \/ RequestResume \/ RequestDelete
  <2>1. /\ \E k : Create(k)
        /\ \E st \in Statuses : SetStatus(st)
    BY <1>6, Asked DEF Statuses
  <2>2. Rest
    BY <1>1, <1>6, Asked DEF Rest, Counters
  <2> QED
    BY <1>2, <2>1, <2>2, CreatedTypes, StatusTypes
<1>7. CASE RequestRetry
  <2>1. Rest
    BY <1>1, <1>7 DEF RequestRetry, Rest, Counters
  <2>2. JobsOK'
    BY <1>1, <1>7, Retried DEF JobsOK
  <2>3. project' \in ProjectType
    BY <1>1, <1>7, StatusTypes DEF RequestRetry, Statuses
  <2> QED
    BY <1>2, <2>1, <2>2, <2>3
<1>8. CASE IdleChoose
  BY <1>1, <1>2, <1>8 DEF IdleChoose, Rest, Counters, JobsOK
<1>9. CASE IdleInsert
  <2>1. Rest /\ project' \in ProjectType
    BY <1>1, <1>9 DEF IdleInsert, Rest, Counters
  <2> QED
    BY <1>2, <1>9, <2>1, CreatedTypes DEF IdleInsert
<1>10. CASE IdleMark
  <2>1. Rest /\ JobsOK'
    BY <1>1, <1>10 DEF IdleMark, Rest, Counters, JobsOK
  <2>2. project' \in ProjectType
    BY <1>1, <1>10, StatusTypes DEF IdleMark, Statuses
  <2> QED
    BY <1>2, <2>1, <2>2
<1>11. CASE WindowCloses
  BY <1>1, <1>2, <1>11 DEF WindowCloses, Rest, Counters, JobsOK, ProjectType
<1>12. CASE PurgeScan
  <2>1. Rest /\ project' \in ProjectType
    BY <1>1, <1>12 DEF PurgeScan, Rest, Counters
  <2> QED
    BY <1>2, <1>12, <2>1, CreatedTypes DEF PurgeScan
<1>13. CASE Repair
  <2>1. Rest
    BY <1>1, <1>13, LifecycleAssumption DEF Repair, Goto, Rest, Counters, ReconType
  <2>2. JobsOK'
    BY <1>1, <1>13, CreatedTypes DEF Repair, JobsOK
  <2>3. project' \in ProjectType
    BY <1>1, <1>13, StatusTypes DEF Repair, Statuses
  <2> QED
    BY <1>2, <2>1, <2>2, <2>3
<1> QED
  BY <1>3, <1>4, <1>5, <1>6, <1>7, <1>8, <1>9, <1>10, <1>11, <1>12, <1>13, Acts

LEMMA InitTypes == Init => TypeOK
<1> SUFFICES ASSUME Init PROVE TypeOK
  OBVIOUS
<1>1. project \in ProjectType /\ place \in PlaceType
  BY DEF Init, ProjectType, PlaceType, Statuses, NoPlace
<1>2. box \in BoxType /\ have \subseteq Things /\ recon \in ReconType /\ Counters
  BY LifecycleAssumption DEF Init, BoxType, ReconType, Counters
<1>3. Requested \in JobType /\ NoJob \in JobType /\ ~Requested.hook /\ ~NoJob.hook
      /\ Requested.done = {} /\ NoJob.done = {}
  BY DEF Requested, NoJob, JobType
<1>4. JobsOK
  BY <1>3 DEF Init, JobsOK
<1> QED
  BY <1>1, <1>2, <1>4, TypeParts

-----------------------------------------------------------------------------
(* The parts of the invariant, step by step *)

\* A step as the invariant sees it.
LEMMA StepFacts ==
  ASSUME TypeOK, NEW k \in Keys, NEW s, Perform(k, s)
  PROVE  /\ project' # project => Able(s) /\ project' = NewProject(s)
         /\ "backup" \in have => "backup" \in have'
         /\ "backup" \in have' => "backup" \in have \/ "db" \in Running
         /\ "keys" \in have => "keys" \in have'
         /\ "secrets" \in have => "secrets" \in have' \/ s = "delete_credentials"
         /\ "volume" \in have => "volume" \in have' \/ s = "remove_volume"
         /\ "volume" \in have' => "volume" \in have \/ s \in {"create_volume", "start_container"}
         /\ box'["db"] # "none" \/ "db" \in place'.ids =>
              \/ box["db"] # "none" \/ "db" \in place.ids
              \/ s = "start_container" /\ "volume" \in have'
         /\ Unplaced' => Unplaced \/ s = "release_capacity"
         /\ \/ job'[k].done = job[k].done /\ job'[k].st # "done"
            \/ /\ Able(s) /\ Whole(s)
               /\ job'[k].done \subseteq job[k].done \cup {s}
               /\ job'[k].st = "done" => s \in Steps(k) /\ job[k].done \cup {s} = Steps(k)
         /\ job'[k].st # "none"
         /\ \A j \in Keys : j # k => job'[j] = job[j]
<1>1. Effect(s) /\ Recorded(k, s) /\ s \in Steps(k)
  BY Performed
<1>2. place \in PlaceType /\ box \in BoxType /\ have \subseteq Things
  BY TypeParts
<1>3. project' # project => Able(s) /\ project' = NewProject(s)
  BY <1>1 DEF Effect, Nothing, dbVars
<1>4. \/ have' = have \/ have' = NewHave(s) \/ have' = have \cup {"secrets"}
  BY <1>1 DEF Effect, Nothing, OnNode, nodeVars
<1>5. Unplaced' => Unplaced \/ s = "release_capacity"
  BY <1>1, <1>2, PlaceFacts DEF Effect, Nothing, dbVars, Unplaced
<1>6. box'["db"] # "none" \/ "db" \in place'.ids =>
        \/ box["db"] # "none" \/ "db" \in place.ids
        \/ s = "start_container" /\ "volume" \in have'
  <2>1. CASE Able(s) /\ OnNode(s) /\ place' \in {place, NewPlace(s)}
    BY <1>2, <2>1, BoxFacts, HaveFacts, PlaceFacts DEF OnNode
  <2>2. CASE box' \in {box, [box EXCEPT !["pooler"] = "stopped"]} /\ place' \in {place, NewPlace(s)}
             /\ s # "start_container"
    BY <1>2, <2>2, PlaceFacts DEF BoxType, Boxes
  <2>3. CASE Nothing
    BY <2>3 DEF Nothing, nodeVars, dbVars
  <2> QED
    BY <1>1, <2>1, <2>2, <2>3 DEF Effect, nodeVars, dbVars
<1>7. /\ "backup" \in have => "backup" \in have'
      /\ "backup" \in have' => "backup" \in have \/ "db" \in Running
      /\ "keys" \in have => "keys" \in have'
      /\ "secrets" \in have => "secrets" \in have' \/ s = "delete_credentials"
      /\ "volume" \in have => "volume" \in have' \/ s = "remove_volume"
      /\ "volume" \in have' => "volume" \in have \/ s \in {"create_volume", "start_container"}
  BY <1>2, <1>4, HaveFacts
<1>8. \/ job'[k].done = job[k].done /\ job'[k].st # "done"
      \/ /\ Able(s) /\ Whole(s)
         /\ job'[k].done \subseteq job[k].done \cup {s}
         /\ job'[k].st = "done" => s \in Steps(k) /\ job[k].done \cup {s} = Steps(k)
  BY <1>1 DEF Recorded
<1>9. job'[k].st # "none" /\ \A j \in Keys : j # k => job'[j] = job[j]
  BY <1>1 DEF Recorded
<1> QED
  BY <1>3, <1>5, <1>6, <1>7, <1>8, <1>9

\* What is checked before a step that moves the project.
LEMMA Moved ==
  ASSUME TypeOK, NEW k \in Keys, NEW s, Perform(k, s), project' # project
  PROVE  /\ project' \in ProjectType /\ project'.due = project.due
         /\ \/ /\ TypeOf(k) = "provision" /\ Complete /\ Allowed("ready")
               /\ project'.st = "ready" /\ project'.gone = project.gone
            \/ /\ TypeOf(k) = "resume" /\ Allowed("ready")
               /\ project'.st = "ready" /\ project'.gone = project.gone
            \/ /\ TypeOf(k) = "pause" /\ project.st \in {"ready", "pausing", "paused"}
               /\ project'.st = "pausing" /\ project'.gone = project.gone
            \/ /\ TypeOf(k) = "pause" /\ Allowed("paused") /\ "final_backup" \in job[k].done
               /\ project'.st = "paused" /\ project'.gone = project.gone
            \/ /\ TypeOf(k) = "resume" /\ project.st \in {"paused", "resuming", "pausing", "ready"}
               /\ project'.st = "resuming" /\ project'.gone = project.gone
            \/ /\ TypeOf(k) = "delete" /\ "final_backup" \in job[k].done
               /\ project'.st = "soft_deleted" /\ project'.gone
            \/ /\ TypeOf(k) = "purge" /\ "remove_volume" \in job[k].done
               /\ project'.st = "deleted" /\ project'.gone = project.gone
<1>1. Able(s) /\ project' = NewProject(s) /\ s \in Steps(k) /\ s \in Upcoming(k)
  BY StepFacts, Performed DEF Perform
<1>2. project \in ProjectType
  BY TypeParts
<1>3. TypeOf(k) \in {"provision", "pause", "resume", "delete", "purge"}
  BY Kind DEF Saga
<1>4. /\ s = "mark_ready" => TypeOf(k) = "provision"
      /\ s \in {"mark_pausing", "mark_paused"} => TypeOf(k) = "pause"
      /\ s \in {"mark_resuming", "mark_resumed"} => TypeOf(k) = "resume"
      /\ s = "mark_soft_deleted" => TypeOf(k) = "delete"
      /\ s = "mark_deleted" => TypeOf(k) = "purge"
  BY <1>1, <1>3, StepsOf
<1>5. /\ s = "mark_ready" => Complete /\ Allowed("ready")
      /\ s = "mark_resumed" => Allowed("ready")
      /\ s = "mark_paused" => Allowed("paused")
      /\ s = "mark_pausing" => project.st \in {"ready", "pausing", "paused"}
      /\ s = "mark_resuming" => project.st \in {"paused", "resuming", "pausing", "ready"}
  BY <1>1 DEF Able
<1>6. /\ TypeOf(k) = "pause" /\ s = "mark_paused" => "final_backup" \in job[k].done
      /\ TypeOf(k) = "delete" /\ s = "mark_soft_deleted" => "final_backup" \in job[k].done
      /\ TypeOf(k) = "purge" /\ s = "mark_deleted" => "remove_volume" \in job[k].done
  BY <1>1, Before
<1> QED
  BY <1>1, <1>2, <1>4, <1>5, <1>6, ProjectFacts

\* All other actions as the invariant sees them: what a row loses, which rows appear or
\* are opened again, which status is announced, and what the passes remember.
RowsKept ==
  \A j \in Keys :
    /\ job'[j].done \subseteq job[j].done
    /\ job'[j].st = "done" => job[j].st = "done"
    /\ Exists(j) => job'[j].st # "none"
    /\ job'[j].hook => job[j].hook
Opened ==
  \A j \in Keys : job[j].st # "open" /\ job'[j].st = "open" =>
    \/ Exists(j) /\ project.st = "failed"
    \/ ~Exists(j) /\ TypeOf(j) = "pause" /\ (project.st = "ready" \/ idle = "chosen")
    \/ ~Exists(j) /\ TypeOf(j) = "resume" /\ project.st = "paused"
    \/ ~Exists(j) /\ j = <<"delete", 0>>
    \/ ~Exists(j) /\ TypeOf(j) = "purge" /\ project.due
    \/ ~Exists(j) /\ TypeOf(j) = "provision" /\ recon.pc = "clear"
Only == \A j \in Keys : ~Exists(j) => job'[j].st \in {"none", "open"}
Announced ==
  \/ project' = project
  \/ WindowCloses
  \/ \E st \in {"failed", "creating", "deleting", "pausing", "resuming"} :
       /\ SetStatus(st)
       /\ st = "deleting" => Create(<<"delete", 0>>)
       /\ st = "pausing" => project.st = "ready" \/ idle = "inserted"
       /\ st = "resuming" => project.st = "paused"
Passes ==
  /\ idle' \in {"off", idle} \/ project.st = "ready" \/ idle = "chosen"
  /\ \/ recon'.pc \in {"idle", "down", "stop"} \/ project.st \in ShouldRun
     \/ recon.pc \in {"up", "suspect", "clear"}
Elsewhere ==
  /\ UNCHANGED <<have, place>>
  /\ box'["db"] # "none" => box["db"] # "none"
  /\ RowsKept /\ Opened /\ Only /\ Announced /\ Passes

LEMMA Others ==
  ASSUME TypeOK, [Next]_vars, ~ \E k \in Keys : \E s : Perform(k, s)
  PROVE  Elsewhere
<1> USE DEF nodeVars, dbVars, scanVars
<1>1. job \in [Keys -> JobType] /\ recon \in ReconType
  BY TypeParts DEF JobsOK
<1>2. job' = job => RowsKept /\ Opened /\ Only
  BY DEF RowsKept, Opened, Only, Exists
<1>3. UNCHANGED <<recon, idle>> => Passes
  BY <1>1 DEF Passes, ReconType
<1>4. ASSUME NEW k, Create(k) PROVE RowsKept /\ Only
  BY <1>1, <1>4, Created DEF RowsKept, Only, Exists, JobType
<1>5. \A j \in Keys, t \in {"pause", "resume", "delete", "purge"} :
        \A n : j = <<t, n>> => TypeOf(j) = t
  BY DEF TypeOf
<1>6. CASE Quiet
  BY <1>1, <1>2, <1>6 DEF Quiet, Elsewhere, Announced, Passes, ReconType
<1>7. ASSUME NEW k \in Keys, Hook(k) \/ LoseHook(k) PROVE Elsewhere
  <2>1. RowsKept /\ Opened /\ Only
    BY <1>1, <1>7, Unhooked DEF RowsKept, Opened, Only, Exists
  <2> QED
    BY <1>7, <1>3, <2>1 DEF Hook, LoseHook, Elsewhere, Announced
<1>8. CASE RequestPause \/ RequestResume \/ RequestDelete
  <2>1. RowsKept /\ Only
    BY <1>4, <1>8, Asked
  <2>2. Opened
    <3>1. ASSUME NEW n, Create(<<"pause", n>>), project.st = "ready" PROVE Opened
      BY <1>5, <3>1, Created DEF Opened
    <3>2. ASSUME NEW n, Create(<<"resume", n>>), project.st = "paused" PROVE Opened
      BY <1>5, <3>2, Created DEF Opened
    <3>3. ASSUME Create(<<"delete", 0>>) PROVE Opened
      BY <3>3, Created DEF Opened
    <3> QED
      BY <1>8, <3>1, <3>2, <3>3, Asked
  <2> QED
    BY <1>8, <1>3, <2>1, <2>2, Asked DEF Elsewhere, Announced
<1>9. CASE RequestRetry
  <2>1. project.st = "failed" /\ SetStatus("creating")
    BY <1>9 DEF RequestRetry
  <2>2. \A j \in Keys : job'[j] # job[j] => Exists(j) /\ job'[j].st = "open"
    BY <1>1, <1>9 DEF RequestRetry, Dead, OfType, Exists
  <2>3. RowsKept /\ Opened /\ Only
    BY <1>9, <2>1, <2>2, Retried DEF RowsKept, Opened, Only, Exists
  <2> QED
    BY <1>9, <1>3, <2>1, <2>3 DEF RequestRetry, Elsewhere, Announced
<1>10. CASE IdleChoose
  BY <1>1, <1>2, <1>10 DEF ReconType, IdleChoose, Elsewhere, Announced, Passes
<1>11. CASE IdleInsert
  <2>1. TypeOf(<<"idlepause", 0>>) = "pause"
    BY DEF TypeOf
  <2>2. RowsKept /\ Only /\ Opened
    BY <1>1, <1>4, <1>11, <2>1, Created DEF IdleInsert, Opened
  <2> QED
    BY <1>1, <1>11, <2>2 DEF ReconType, IdleInsert, Elsewhere, Announced, Passes
<1>12. CASE IdleMark
  BY <1>1, <1>2, <1>12 DEF ReconType, IdleMark, Elsewhere, Announced, Passes
<1>13. CASE WindowCloses
  <2>1. job' = job
    BY <1>13 DEF WindowCloses
  <2> QED
    BY <1>2, <1>13, <2>1 DEF WindowCloses, Elsewhere, Announced, Passes
<1>14. CASE PurgeScan
  <2>1. RowsKept /\ Only /\ Opened
    BY <1>1, <1>4, <1>5, <1>14, Created DEF PurgeScan, Opened
  <2> QED
    BY <1>14, <1>3, <2>1 DEF PurgeScan, Elsewhere, Announced
<1>15. CASE Repair
  <2>1. TypeOf(<<"repair", recent>>) = "provision"
    BY DEF TypeOf
  <2>2. job' = job \/ Create(<<"repair", recent>>)
    BY <1>15 DEF Repair
  <2>3. RowsKept /\ Only /\ Opened
    BY <1>1, <1>2, <1>4, <1>15, <2>1, <2>2, Created DEF Repair, Opened
  <2>4. UNCHANGED <<place, have, box, idle>> /\ recon.pc = "clear" /\ recon' = [recon EXCEPT !.pc = "idle"]
    BY <1>15 DEF Repair, Goto
  <2>5. Announced
    BY <1>15 DEF Repair, Announced
  <2> QED
    BY <2>3, <2>4, <2>5 DEF Elsewhere, Passes
<1> QED
  BY <1>6, <1>7, <1>8, <1>9, <1>10, <1>11, <1>12, <1>13, <1>14, <1>15, Acts

LEMMA GraveKept == ASSUME IInv, [Next]_vars PROVE Grave'
<1>1. /\ TypeOK /\ Grave /\ Window
      /\ project \in ProjectType /\ job \in [Keys -> JobType]
  BY TypeParts DEF IInv, JobsOK
<1>2. ASSUME NEW k \in Keys, NEW s, Perform(k, s) PROVE Grave'
  <2>1. Open(k) /\ Exists(k)
    BY <1>1, <1>2, Performed DEF Open, Exists
  <2>2. /\ project'.gone <=> (project'.st \in {"soft_deleted", "deleted"})
        /\ project.gone => project'.gone
        /\ project'.gone => project.gone \/ TypeOf(k) = "delete"
    <3>1. CASE project' = project
      BY <1>1, <3>1 DEF Grave
    <3>2. CASE project' # project
      <4>1. TypeOf(k) = "purge" => project.gone
        BY <1>1, <2>1 DEF Window, OfType
      <4> QED
        BY <1>1, <1>2, <3>2, <4>1, Moved DEF Grave, Allowed, ProjectType
    <3> QED
      BY <3>1, <3>2
  <2>3. \A j \in Keys : Exists(j)' <=> Exists(j)
    BY <1>1, <1>2, <2>1, StepFacts DEF Exists
  <2>4. project'.gone => <<"delete", 0>> \in Keys /\ Exists(<<"delete", 0>>)'
    BY <1>1, <2>1, <2>2, <2>3 DEF Grave, OfType
  <2>5. ASSUME NEW j \in OfType("delete"), job'[j].st = "done" \/ "mark_soft_deleted" \in job'[j].done
        PROVE  project'.gone
    <3>1. CASE job[j].st = "done" \/ "mark_soft_deleted" \in job[j].done
      BY <1>1, <2>2, <3>1 DEF Grave
    <3>2. CASE ~(job[j].st = "done" \/ "mark_soft_deleted" \in job[j].done)
      <4>1. j \in Keys /\ "mark_soft_deleted" \in Steps(j)
        BY StepsOf DEF OfType
      <4>2. j = k /\ s = "mark_soft_deleted" /\ Whole(s)
        BY <1>1, <1>2, <2>5, <3>2, <4>1, StepFacts
      <4>3. project' = [project EXCEPT !.st = "soft_deleted", !.gone = TRUE]
        BY <4>2 DEF Whole, NewProject
      <4> QED
        BY <1>1, <4>3 DEF ProjectType
    <3> QED
      BY <3>1, <3>2
  <2> QED
    BY <1>1, <2>2, <2>3, <2>4, <2>5 DEF Grave, OfType
<1>3. CASE Elsewhere
  <2>1. RowsKept /\ Opened /\ Only /\ Announced
    BY <1>3 DEF Elsewhere
  <2>2. \A j \in OfType("delete") : Exists(j)' => Exists(j) \/ j = <<"delete", 0>>
    BY <1>1, <2>1 DEF Opened, Only, Exists, OfType
  <2>3. /\ project'.gone = project.gone
        /\ project'.gone <=> (project'.st \in {"soft_deleted", "deleted"})
    <3>1. CASE project' = project \/ WindowCloses
      BY <1>1, <3>1 DEF WindowCloses, Grave, ProjectType
    <3>2. ASSUME NEW st \in {"failed", "creating", "deleting", "pausing", "resuming"}, SetStatus(st),
                 st = "deleting" => Create(<<"delete", 0>>)
          PROVE  /\ project'.gone = project.gone
                 /\ project'.gone <=> (project'.st \in {"soft_deleted", "deleted"})
      BY <1>1, <3>2 DEF SetStatus, Allowed, Create, Grave, ProjectType
    <3> QED
      BY <2>1, <3>1, <3>2 DEF Announced
  <2>4. project.gone => Exists(<<"delete", 0>>)'
    BY <1>1, <2>1 DEF Grave, RowsKept, Exists
  <2> QED
    BY <1>1, <2>1, <2>2, <2>3, <2>4 DEF Grave, RowsKept, OfType
<1> QED
  BY <1>1, <1>2, <1>3, Others

LEMMA WindowKept == ASSUME IInv, [Next]_vars PROVE Window'
<1>1. /\ TypeOK /\ Grave /\ Window
      /\ project \in ProjectType /\ job \in [Keys -> JobType]
  BY TypeParts DEF IInv, JobsOK
<1>2. Grave'
  BY GraveKept
<1>3. ASSUME NEW k \in Keys, NEW s, Perform(k, s) PROVE Window'
  <2>1. Open(k) /\ Exists(k) /\ Recorded(k, s)
    BY <1>1, <1>3, Performed DEF Open, Exists
  <2>2. project'.due = project.due /\ (project.gone => project'.gone)
    BY <1>1, <1>3, Moved
  <2>3. project'.st = "deleted" => project'.due
    <3>1. TypeOf(k) = "purge" => project.due
      BY <1>1, <2>1 DEF Window, OfType
    <3> QED
      BY <1>1, <1>3, <2>2, <3>1, Moved DEF Window
  <2>4. \A j \in Keys : Exists(j)' <=> Exists(j)
    BY <1>1, <1>3, <2>1, StepFacts DEF Exists
  <2>5. recon' \in {recon, [recon EXCEPT !.stop = {}]} /\ idle' = idle
    BY <1>1, <1>3, Performed DEF Effect, Nothing, OnNode
  <2>6. project.due => \A j \in Keys : (Open(j)' => TypeOf(j) = "purge") /\ ~job'[j].hook
    BY <1>1, <2>1 DEF Window, Open, Recorded
  <2>7. recon \in ReconType
    BY <1>1, TypeParts
  <2> QED
    BY <1>1, <2>2, <2>3, <2>4, <2>5, <2>6, <2>7 DEF Window, ReconType, OfType
<1>4. CASE Elsewhere
  <2>1. RowsKept /\ Opened /\ Only /\ Announced /\ Passes
    BY <1>4 DEF Elsewhere
  <2>2. CASE WindowCloses
    BY <1>1, <1>2, <2>1, <2>2
       DEF WindowCloses, Window, Grave, OfType, ProjectType, Open, scanVars
  <2>3. CASE ~WindowCloses
    <3>1. project'.due = project.due /\ project'.gone = project.gone
      BY <1>1, <2>1, <2>3 DEF Announced, SetStatus, ProjectType
    <3>2. project'.st = "deleted" => project.st = "deleted"
      BY <1>1, <2>1, <2>3 DEF Announced, SetStatus, ProjectType
    <3>3. \A j \in OfType("purge") : Exists(j)' => Exists(j) \/ project.due
      BY <1>1, <2>1 DEF Opened, Only, Exists, OfType, TypeOf
    <3>4. project.due => project.st \in {"soft_deleted", "deleted"} /\ recon.pc \in {"idle", "down", "stop"}
                         /\ idle = "off"
      BY <1>1 DEF Window, Grave
    <3>5. project.due => recon'.pc \in {"idle", "down", "stop"} /\ idle' = "off"
      BY <2>1, <3>4 DEF Passes, ShouldRun
    <3>6. ASSUME project.due, NEW j \in Keys
          PROVE  (Open(j)' => TypeOf(j) = "purge") /\ ~job'[j].hook
      <4>1. j = <<"delete", 0>> => Exists(j)
        BY <1>1, <3>6 DEF Window, Grave
      <4>2. CASE job[j].st = "open"
        BY <1>1, <2>1, <3>6, <4>2 DEF Window, RowsKept, Open
      <4>3. CASE job[j].st # "open"
        BY <1>1, <2>1, <3>4, <3>6, <4>1, <4>3 DEF Window, RowsKept, Opened, Open
      <4> QED
        BY <4>2, <4>3
    <3> QED
      BY <1>1, <3>1, <3>2, <3>3, <3>5, <3>6 DEF Window
  <2> QED
    BY <2>2, <2>3
<1> QED
  BY <1>1, <1>3, <1>4, Others

LEMMA KeptKept == ASSUME IInv, [Next]_vars PROVE Kept'
<1>1. /\ TypeOK /\ Grave /\ Window /\ Kept
      /\ project \in ProjectType /\ job \in [Keys -> JobType]
  BY TypeParts DEF IInv, JobsOK
<1>2. ASSUME NEW k \in Keys, NEW s, Perform(k, s), ~project'.due PROVE Kept'
  <2>1. Open(k) /\ Exists(k) /\ s \in Steps(k) /\ idle' = idle
    BY <1>1, <1>2, Performed DEF Open, Exists
  <2>2. ~project.due /\ TypeOf(k) # "purge"
    BY <1>1, <1>2, <2>1, Moved DEF Window, OfType
  <2>3. s \notin {"remove_volume", "delete_credentials", "release_capacity"}
    BY <2>1, <2>2, StepsOf, Kind DEF Saga
  <2>4. "backup" \in have' \/ box'["db"] # "none" \/ "db" \in place'.ids => "volume" \in have'
    BY <1>1, <1>2, <2>2, <2>3, StepFacts DEF Kept, Running
  <2>5. Core => Core'
    BY <1>1, <1>2, <2>3, StepFacts DEF Core
  <2>6. Usable' => Core
    <3>1. CASE project' = project
      BY <1>1, <2>2, <3>1 DEF Kept, Usable
    <3>2. CASE project' # project
      <4>1. TypeOf(k) \in {"pause", "resume"} => Core
        BY <1>1, <2>1, <2>2 DEF Kept, OfType
      <4>2. Complete => Core
        BY <1>1, <2>2 DEF Complete, Kept, Core, Unplaced
      <4> QED
        BY <1>1, <1>2, <3>2, <4>1, <4>2, Moved DEF Usable
    <3> QED
      BY <3>1, <3>2
  <2>7. \A j \in Keys : Exists(j)' <=> Exists(j)
    BY <1>1, <1>2, <2>1, StepFacts DEF Exists
  <2> QED
    BY <1>1, <2>1, <2>2, <2>4, <2>5, <2>6, <2>7 DEF Kept, OfType
<1>3. ASSUME Elsewhere, ~project'.due PROVE Kept'
  <2>1. /\ RowsKept /\ Opened /\ Only /\ Announced /\ Passes
        /\ UNCHANGED <<have, place>> /\ (box'["db"] # "none" => box["db"] # "none")
    BY <1>3 DEF Elsewhere
  <2>2. ~project.due /\ ~WindowCloses
    BY <1>1, <1>3, <2>1 DEF Announced, WindowCloses, SetStatus, ProjectType
  <2>3. "backup" \in have' \/ box'["db"] # "none" \/ "db" \in place'.ids => "volume" \in have'
    BY <1>1, <2>1, <2>2 DEF Kept
  <2>4. Core' <=> Core
    BY <2>1 DEF Core, Unplaced
  <2>5. Usable' => Core
    <3>1. Usable' => Usable \/ idle # "off"
      BY <1>1, <2>1, <2>2 DEF Announced, SetStatus, Usable, ProjectType
    <3> QED
      BY <1>1, <2>2, <3>1 DEF Kept
  <2>6. ASSUME NEW j \in OfType("pause") \cup OfType("resume"), Exists(j)' PROVE Core
    <3>1. Exists(j) \/ project.st \in {"ready", "paused"} \/ idle # "off"
      BY <1>1, <2>1, <2>6 DEF Opened, Only, Exists, OfType, TypeOf
    <3> QED
      BY <1>1, <2>2, <3>1, <2>6 DEF Kept, Usable
  <2>7. idle' # "off" => Core
    BY <1>1, <2>1, <2>2 DEF Passes, Kept, Usable
  <2> QED
    BY <2>3, <2>4, <2>5, <2>6, <2>7 DEF Kept
<1> QED
  BY <1>1, <1>2, <1>3, Others DEF Kept

LEMMA BackedKept == ASSUME IInv, [Next]_vars PROVE Backed'
<1>1. /\ TypeOK /\ Grave /\ Backed
      /\ project \in ProjectType /\ have \subseteq Things
  BY TypeParts DEF IInv
<1>2. ASSUME NEW k \in Keys, NEW s, Perform(k, s) PROVE Backed'
  <2>1. "backup" \in have => "backup" \in have'
    BY <1>1, <1>2, StepFacts
  <2>2. ASSUME NEW j \in Keys, "final_backup" \in job'[j].done PROVE "backup" \in have'
    <3>1. CASE "final_backup" \in job[j].done
      BY <1>1, <2>1, <3>1 DEF Backed
    <3>2. CASE "final_backup" \notin job[j].done
      <4>1. s = "final_backup" /\ Able(s) /\ Whole(s)
        BY <1>1, <1>2, <2>2, <3>2, StepFacts
      <4> QED
        BY <1>1, <4>1, HaveFacts DEF Whole, OnNode
    <3> QED
      BY <3>1, <3>2
  <2>3. project'.st = "paused" \/ project'.gone => "backup" \in have
    BY <1>1, <1>2, Moved DEF Backed
  <2> QED
    BY <2>1, <2>2, <2>3 DEF Backed
<1>3. CASE Elsewhere
  <2>1. RowsKept /\ Announced /\ have' = have
    BY <1>3 DEF Elsewhere
  <2>2. /\ project'.gone => project.gone
        /\ project'.st = "paused" => project.st = "paused"
    BY <1>1, <2>1 DEF Announced, SetStatus, WindowCloses, ProjectType
  <2> QED
    BY <1>1, <2>1, <2>2 DEF Backed, RowsKept
<1> QED
  BY <1>1, <1>2, <1>3, Others

LEMMA DestroyedKept == ASSUME IInv, [Next]_vars PROVE Destroyed'
<1>1. /\ TypeOK /\ Window /\ Destroyed
      /\ project \in ProjectType /\ have \subseteq Things
      /\ \A k \in Keys : job[k].done \subseteq Steps(k)
  BY TypeParts DEF IInv, JobsOK
<1>2. ASSUME NEW k \in Keys, NEW s, Perform(k, s) PROVE Destroyed'
  <2>1. Open(k) /\ Exists(k) /\ s \in Steps(k)
    BY <1>1, <1>2, Performed DEF Open, Exists
  <2>2. project'.due = project.due
    BY <1>1, <1>2, Moved
  <2>3. TypeOf(k) = "purge" => s \notin {"create_volume", "start_container"}
    BY <2>1, StepsOf
  <2>4. project.due => TypeOf(k) = "purge"
    BY <1>1, <2>1 DEF Window
  <2>5. project.due /\ "volume" \notin have => "volume" \notin have'
    BY <1>1, <1>2, <2>3, <2>4, StepFacts
  <2>6. ASSUME NEW j \in Keys, "remove_volume" \in job'[j].done
        PROVE  project'.due /\ "volume" \notin have'
    <3>1. CASE "remove_volume" \in job[j].done
      BY <1>1, <2>2, <2>5, <3>1 DEF Destroyed
    <3>2. CASE "remove_volume" \notin job[j].done
      <4>1. s = "remove_volume" /\ Whole(s)
        BY <1>1, <1>2, <2>6, <3>2, StepFacts
      <4>2. TypeOf(k) = "purge"
        BY <2>1, <4>1, StepsOf, Kind DEF Saga
      <4> QED
        BY <1>1, <2>1, <2>2, <4>1, <4>2, HaveFacts DEF Whole, OnNode, Window, OfType
    <3> QED
      BY <3>1, <3>2
  <2>7. project'.st = "deleted" => project.due /\ "volume" \notin have
    <3>1. CASE project' = project
      BY <1>1, <3>1 DEF Window, Destroyed
    <3>2. CASE project' # project
      <4>1. TypeOf(k) = "purge" => project.due
        BY <1>1, <2>1 DEF Window, OfType
      <4> QED
        BY <1>1, <1>2, <3>2, <4>1, Moved DEF Destroyed
    <3> QED
      BY <3>1, <3>2
  <2> QED
    BY <2>5, <2>6, <2>7 DEF Destroyed
<1>3. CASE Elsewhere
  <2>1. RowsKept /\ Announced /\ have' = have
    BY <1>3 DEF Elsewhere
  <2>2. /\ project'.st = "deleted" => project.st = "deleted"
        /\ project.due => project'.due
    BY <1>1, <2>1 DEF Announced, SetStatus, WindowCloses, ProjectType
  <2> QED
    BY <1>1, <2>1, <2>2 DEF Destroyed, RowsKept
<1> QED
  BY <1>1, <1>2, <1>3, Others

-----------------------------------------------------------------------------
(* Theorems *)

LEMMA InitInv == Init => IInv
<1> SUFFICES ASSUME Init PROVE IInv
  OBVIOUS
<1>1. TypeOK
  BY InitTypes
<1>2. /\ project = [st |-> "creating", gone |-> FALSE, due |-> FALSE]
      /\ place = NoPlace /\ have = {} /\ box["db"] = "none" /\ idle = "off"
  BY DEF Init, Boxes
<1>3. \A k \in Keys : job[k].done = {} /\ job[k].st \in {"none", "open"}
                      /\ (job[k].st = "open" => k = First)
  BY DEF Init, Requested, NoJob
<1>4. TypeOf(First) = "provision"
  BY DEF First, TypeOf
<1>5. \A k \in Keys : Exists(k) => TypeOf(k) = "provision"
  BY <1>3, <1>4 DEF Exists
<1>6. Grave
  <2>1. project.gone = FALSE /\ project.st \notin {"soft_deleted", "deleted"}
    BY <1>2
  <2>2. \A k \in OfType("delete") : ~Exists(k) /\ job[k].st # "done" /\ job[k].done = {}
    BY <1>3, <1>5 DEF OfType
  <2> QED
    BY <2>1, <2>2 DEF Grave
<1>7. Window
  BY <1>2, <1>5 DEF Window, OfType
<1>8. Kept
  BY <1>2, <1>5 DEF Kept, OfType, Usable, NoPlace
<1>9. Backed /\ Destroyed
  BY <1>2, <1>3 DEF Backed, Destroyed
<1> QED
  BY <1>1, <1>6, <1>7, <1>8, <1>9 DEF IInv

LEMMA Invariance == Spec => []IInv
<1>1. IInv /\ [Next]_vars => IInv'
  BY Types, GraveKept, WindowKept, KeptKept, BackedKept, DestroyedKept DEF IInv
<1> QED
  BY <1>1, InitInv, PTL DEF Spec

\* Every variable keeps its type, and the dead-letter hook is pending for builds only,
\* for any jobs, attempts, repairs and faults.
THEOREM Typing == Spec => []TypeOK
BY Types, InitTypes, PTL DEF Spec

\* Whatever jobs cross, a project shown as usable has its volume, its placement, its
\* credentials and its api keys (mark_ready, mark_resumed, the idle scan's mark).
THEOREM Usability == Spec => []UsableIsComplete
<1>1. IInv => UsableIsComplete
  BY TypeParts DEF IInv, Grave, Window, Kept, Usable, Core, UsableIsComplete
<1> QED
  BY <1>1, Invariance, PTL

\* Whatever crosses a delete that succeeded, the project stays in its recovery window or
\* is purged.
THEOREM Deletion == Spec => []DeletionWins
<1>1. IInv => DeletionWins
  BY DEF IInv, Grave, DeletionWins, OfType
<1> QED
  BY <1>1, Invariance, PTL

\* A paused project has a backup, whoever stopped its database.
THEOREM Restorability == Spec => []PausedIsRestorable
<1>1. IInv => PausedIsRestorable
  BY DEF IInv, Backed, PausedIsRestorable
<1> QED
  BY <1>1, Invariance, PTL

-----------------------------------------------------------------------------
(* The whole keeps the contract *)

Sight == <<Phase, Covered, project.due, DataGone>>

LEMMA ContractInit == Init => Contract!Init
BY DEF Init, Contract!Init, Phase, Covered, DataGone

LEMMA ContractStep == ASSUME IInv, [Next]_vars PROVE [Contract!Next]_Sight
<1>1. /\ TypeOK /\ Grave /\ Window /\ Kept /\ Backed /\ Destroyed
      /\ project \in ProjectType /\ have \subseteq Things
  BY TypeParts DEF IInv
<1>2. ASSUME NEW k \in Keys, NEW s, Perform(k, s) PROVE [Contract!Next]_Sight
  <2>1. Open(k) /\ Exists(k) /\ s \in Steps(k) /\ TypeOf(k) \in DOMAIN Saga
    BY <1>1, <1>2, Performed, Kind DEF Open, Exists
  <2>2. /\ project'.due = project.due /\ (project.gone => project'.gone)
        /\ (Covered => Covered') /\ (project.gone => Covered)
    BY <1>1, <1>2, Moved, StepFacts DEF Covered, Backed, ProjectType
  <2>3. project.due => TypeOf(k) = "purge"
    BY <1>1, <2>1 DEF Window
  <2>4. TypeOf(k) = "purge" => project.due /\ project.gone
    BY <1>1, <2>1 DEF Window, OfType
  <2>5. DataGone => DataGone'
    <3>1. ASSUME DataGone PROVE project.due
      BY <1>1, <2>2, <3>1 DEF DataGone, Kept, Covered
    <3>2. TypeOf(k) = "purge" => s \notin {"create_volume", "start_container"}
      BY <2>1, StepsOf
    <3> QED
      BY <1>1, <1>2, <2>2, <2>3, <3>1, <3>2, StepFacts DEF DataGone
  <2>6. CASE project' = project
    <3>1. Phase' = Phase
      BY <2>6 DEF Phase
    <3>2. CASE DataGone' = DataGone /\ Covered' = Covered
      BY <2>2, <3>1, <3>2 DEF Sight
    <3>3. CASE DataGone' # DataGone
      <4>1. DataGone' /\ ~DataGone /\ project.gone /\ "volume" \in have
        BY <2>5, <2>6, <3>3 DEF DataGone
      <4>2. s = "remove_volume"
        BY <1>1, <1>2, <4>1, StepFacts DEF DataGone
      <4>3. project.due
        BY <2>1, <2>4, <4>2, StepsOf DEF Saga
      <4>4. Phase = "buried" /\ Covered' = Covered
        BY <1>1, <2>2, <4>1 DEF Phase, Destroyed, Covered
      <4> QED
        BY <2>2, <3>1, <4>1, <4>3, <4>4 DEF Contract!Next, Contract!Destroy
    <3>4. CASE Covered' # Covered /\ DataGone' = DataGone
      <4>1. Covered' /\ ~Covered
        BY <2>2, <3>4 DEF Covered
      <4>2. Phase = "open"
        BY <1>1, <2>2, <4>1 DEF Phase, Window
      <4> QED
        BY <2>2, <3>1, <3>4, <4>1, <4>2 DEF Contract!Next, Contract!BackUp
    <3> QED
      BY <3>2, <3>3, <3>4
  <2>7. CASE project' # project
    <3>1. CASE TypeOf(k) = "delete"
      <4>1. Covered /\ project'.st = "soft_deleted" /\ project'.gone
        BY <1>1, <1>2, <2>7, <3>1, Moved DEF Backed, Covered
      <4>2. ~project.due /\ "volume" \in have /\ s # "remove_volume"
        BY <1>1, <2>1, <2>3, <3>1, <4>1, StepsOf DEF Kept, Covered
      <4>3. "volume" \in have'
        BY <1>1, <1>2, <4>2, StepFacts
      <4>4. DataGone' = DataGone /\ Covered' = Covered
        BY <2>2, <4>1, <4>2, <4>3 DEF DataGone, Covered
      <4>5. Phase' = "buried"
        BY <4>1 DEF Phase
      <4>6. Phase = IF project.gone THEN "buried" ELSE "open"
        BY <1>1, <4>2 DEF Phase, Window
      <4>7. Phase = "open" => Contract!Bury
        BY <2>2, <4>1, <4>4, <4>5 DEF Contract!Bury
      <4>8. Phase = "buried" => UNCHANGED Sight
        BY <2>2, <4>1, <4>4, <4>5 DEF Sight
      <4> QED
        BY <4>6, <4>7, <4>8 DEF Contract!Next
    <3>2. CASE TypeOf(k) = "purge"
      <4>1. /\ "remove_volume" \in job[k].done /\ project'.st = "deleted"
            /\ project'.gone = project.gone
        BY <1>1, <1>2, <2>7, <3>2, Moved
      <4>2. DataGone /\ DataGone'
        BY <1>1, <2>4, <2>5, <3>2, <4>1 DEF DataGone, Destroyed
      <4>3. Covered' /\ Covered /\ Phase' = "purged"
        BY <2>2, <2>4, <3>2, <4>1 DEF Phase
      <4>4. Phase \in {"buried", "purged"}
        BY <2>4, <3>2 DEF Phase
      <4>5. Phase = "buried" => Contract!Finish
        BY <2>2, <4>2, <4>3 DEF Contract!Finish
      <4>6. Phase = "purged" => UNCHANGED Sight
        BY <2>2, <4>2, <4>3 DEF Sight
      <4> QED
        BY <4>4, <4>5, <4>6 DEF Contract!Next
    <3>3. CASE TypeOf(k) \notin {"delete", "purge"}
      <4>1. ~project.gone /\ ~project'.gone /\ project'.st # "deleted" /\ project.st # "deleted"
        BY <1>1, <1>2, <2>7, <3>3, Moved DEF Grave, Allowed, ProjectType
      <4>2. Phase = "open" /\ Phase' = "open" /\ DataGone' = DataGone
        BY <4>1 DEF Phase, DataGone
      <4>3. Covered' = Covered => UNCHANGED Sight
        BY <2>2, <4>2 DEF Sight
      <4>4. Covered' # Covered => Covered' = TRUE
        BY <2>2 DEF Covered
      <4>5. Covered' = TRUE => Contract!BackUp
        BY <2>2, <4>2 DEF Contract!BackUp
      <4> QED
        BY <4>3, <4>4, <4>5 DEF Contract!Next
    <3> QED
      BY <3>1, <3>2, <3>3
  <2> QED
    BY <2>6, <2>7
<1>3. CASE Elsewhere
  <2>1. Announced /\ have' = have
    BY <1>3 DEF Elsewhere
  <2>2. Covered' = Covered
    BY <2>1 DEF Covered
  <2>3. CASE project' = project
    BY <2>1, <2>2, <2>3 DEF Sight, Phase, DataGone
  <2>4. CASE WindowCloses
    <3>1. project.st = "soft_deleted" /\ project.gone
      BY <1>1, <2>4 DEF WindowCloses, Grave
    <3>2. project' = [project EXCEPT !.due = TRUE]
      BY <2>4 DEF WindowCloses
    <3>3. Phase = "buried" /\ Phase' = "buried" /\ DataGone' = DataGone /\ project'.due = TRUE
      BY <1>1, <2>1, <3>1, <3>2 DEF Phase, DataGone, ProjectType
    <3> QED
      BY <2>2, <3>3 DEF Contract!Next, Contract!Close
  <2>5. ASSUME NEW st \in {"failed", "creating", "deleting", "pausing", "resuming"}, SetStatus(st),
               st = "deleting" => Create(<<"delete", 0>>)
        PROVE  UNCHANGED Sight
    <3>1. /\ ~project.gone /\ ~project'.gone /\ project'.st = st /\ project'.due = project.due
          /\ project.st # "deleted"
      BY <1>1, <2>5 DEF SetStatus, Allowed, Create, Grave, ProjectType
    <3> QED
      BY <2>2, <3>1 DEF Sight, Phase, DataGone
  <2> QED
    BY <2>1, <2>3, <2>4, <2>5 DEF Announced
<1> QED
  BY <1>1, <1>2, <1>3, Others

\* Whatever jobs, scans, requests and faults cross, a project is buried only with a backup
\* behind it, destroyed only once its window has closed, and never comes back.
THEOREM Implementation == Spec => ImplementsContract
BY ContractInit, ContractStep, Invariance, PTL
   DEF Spec, ImplementsContract, Contract!Spec, Sight
=============================================================================
