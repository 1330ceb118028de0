--------------------------- MODULE StorageObjects --------------------------
(***************************************************************************)
(* A project's stored files (services/api/src/modules/storage/objects.ts   *)
(* and services/worker/src/storage-sweep.ts): the metadata rows in the     *)
(* project's database, the bytes in the object store, the intents of       *)
(* presigned uploads, and the daily sweep that compares the inventories.   *)
(*                                                                         *)
(* The two stores share no transaction.  An upload writes the bytes and    *)
(* then the row, a delete the row and then the bytes; every step of a      *)
(* request, of a client that follows a presigned URL and of the sweep is   *)
(* an action, and any of them may be the last one its process takes.       *)
(***************************************************************************)
EXTENDS Naturals, FiniteSets, FiniteSetsExt

CONSTANTS
  Names,       \* paths in the bucket
  Reqs,        \* requests in progress side by side
  Ids,         \* upload intents
  MaxSize,     \* sizes are 1..MaxSize
  Ceiling,     \* the plan's bytes
  Tolerance,   \* 100 MB in the code: a drift the true-up leaves alone
  MaxCalls,    \* bound: requests made
  MaxFaults    \* bound: crashes and errors

None == 0

ASSUME StorageAssumption ==
  /\ IsFiniteSet(Names) /\ None \notin Names \cup Ids /\ MaxSize \in Nat \ {0}
  /\ Ceiling \in Nat /\ Tolerance \in Nat
  /\ MaxCalls \in Nat /\ MaxFaults \in Nat

Sizes == 1..MaxSize

VARIABLES
  row,        \* storage.objects: the size a path's row gives, 0 without a row
  store,      \* the object store: size (0 without bytes), and whether a day old
  intent,     \* storage.upload_intents, and the presigned URL of each
  usage,      \* storage.usage.total_bytes
  req,        \* per slot, the request being served
  sweep,      \* the sweep: its step and what it has read
  missing,    \* the control plane's storage_missing_objects
  excused,    \* history: paths where two operations met, an overwrite stopped half way, or
              \* the answer to a row's COMMIT was lost
  crowded,    \* history: an upload was admitted beside another, or the counter rewritten
  quiet,      \* history: nobody has touched store or rows since the sweep listed the store
  calls, faults

history == <<excused, crowded, quiet>>
bounds == <<calls, faults>>
vars == <<row, store, intent, usage, req, sweep, missing, history, bounds>>

Nothing == [size |-> None, old |-> FALSE]
NoReq == [pc |-> "idle", names |-> {}, size |-> None, id |-> None]
NoIntent == [at |-> "none", name |-> None, size |-> None, url |-> "none"]
NoSweep == [pc |-> "idle", listed |-> [n \in Names |-> Nothing], rows |-> {},
            todo |-> {}, late |-> {}, id |-> None, visited |-> {}, counted |-> 0]

Init ==
  /\ row = [n \in Names |-> None]
  /\ store = [n \in Names |-> Nothing]
  /\ intent = [i \in Ids |-> NoIntent]
  /\ usage = 0
  /\ req = [r \in Reqs |-> NoReq]
  /\ sweep = NoSweep
  /\ missing = {}
  /\ excused = {} /\ crowded = FALSE /\ quiet = FALSE
  /\ calls = 0 /\ faults = 0

-----------------------------------------------------------------------------
(* Requests *)

At(r, pc) == req[r].pc = pc
Goto(r, pc) == req' = [req EXCEPT ![r].pc = pc]
Done(r) == req' = [req EXCEPT ![r] = NoReq]
Path(r) == CHOOSE n \in Names : req[r].names = {n}
HasBytes(n) == store[n].size # None
Pending(i) == intent[i].at = "kept"                    \* the intent's row is there

\* Another operation on the path: a request, an intent other than i or its URL, or a
\* sweep that has seen old bytes there.
Busy(n, r, i) ==
  \/ \E s \in Reqs \ {r} : n \in req[s].names
  \/ \E j \in Ids \ {i} : intent[j].name = n /\ (Pending(j) \/ intent[j].url = "live")
  \/ sweep.pc # "idle" /\ sweep.listed[n].old

\* An id that stands for an intent not made yet.
Free(i) ==
  /\ intent[i].at = "none"
  /\ \A q \in Reqs : req[q].id # i
  /\ sweep.id # i /\ \A late \in sweep.late : late[1] # i

Begin(r, q) ==
  /\ At(r, "idle") /\ calls < MaxCalls
  /\ calls' = calls + 1
  /\ req' = [req EXCEPT ![r] = q]
  /\ excused' = excused \cup {n \in q.names : Busy(n, r, q.id)}
  /\ UNCHANGED <<row, store, intent, usage, sweep, missing, crowded, quiet, faults>>

\* POST and PUT /object; both deletes; POST /upload/sign; POST /upload/complete, which
\* reads the intent and turns an expired one away.
Upload(r) == \E n \in Names, s \in Sizes : Begin(r, [NoReq EXCEPT !.pc = "prepare", !.names = {n}, !.size = s])
Remove(r) == \E ns \in SUBSET Names \ {{}} : Begin(r, [NoReq EXCEPT !.pc = "delete", !.names = ns])
Sign(r) ==
  /\ Cardinality({q \in Reqs : req[q].pc \in {"probe", "intend"}})
       < Cardinality({i \in Ids : Free(i)})                    \* bound: the intents
  /\ \E n \in Names, s \in Sizes : Begin(r, [NoReq EXCEPT !.pc = "probe", !.names = {n}, !.size = s])
Complete(r) ==
  \E i \in Ids :
    /\ Pending(i) /\ intent[i].url = "live"
    /\ Begin(r, [NoReq EXCEPT !.pc = "head", !.names = {intent[i].name},
                               !.size = intent[i].size, !.id = i])

-----------------------------------------------------------------------------
(* Rows and bytes *)

\* One statement on storage.objects, with the trigger's share.
SetRow(n, s) ==
  /\ row' = [row EXCEPT ![n] = s]
  /\ usage' = IF row[n] > usage + s THEN 0 ELSE usage + s - row[n]

PutBytes(n, s) ==
  store' = [store EXCEPT ![n] = [size |-> s, old |-> FALSE]]
DropBytes(n) == store' = [store EXCEPT ![n] = Nothing]

\* An upload that has been admitted and whose row is not written yet.
UnderWay(r) ==
  \/ \E s \in Reqs \ {r} : req[s].pc \in {"put", "write", "intend", "head", "sniff", "finalise"}
  \/ \E i \in Ids : Pending(i)

\* 409 or 413.
Refuse(r) == Done(r) /\ UNCHANGED crowded

\* Mutant: a replaced object is credited twice.
PrepareTwice(r) ==
  LET n == Path(r)
  IN /\ At(r, "prepare")
     /\ \E upsert \in BOOLEAN :
          IF usage + req[r].size > Ceiling + 2 * row[n] \/ (row[n] # None /\ ~upsert)
          THEN Refuse(r)
          ELSE Goto(r, "put") /\ crowded' = (crowded \/ UnderWay(r))
     /\ UNCHANGED <<row, store, intent, usage, sweep, missing, excused, quiet, bounds>>

\* The limits, the quota and the collision, read in one transaction as the caller.
Prepare(r) ==
  LET n == Path(r)
  IN /\ At(r, "prepare")
     /\ \E upsert \in BOOLEAN :
          IF usage + req[r].size > Ceiling + row[n] \/ (row[n] # None /\ ~upsert)
          THEN Refuse(r)
          ELSE Goto(r, "put") /\ crowded' = (crowded \/ UnderWay(r))
     /\ UNCHANGED <<row, store, intent, usage, sweep, missing, excused, quiet, bounds>>

\* putObject.
Put(r) ==
  /\ At(r, "put")
  /\ PutBytes(Path(r), req[r].size)
  /\ Goto(r, "write")
  /\ quiet' = FALSE
  /\ UNCHANGED <<row, intent, usage, sweep, missing, excused, crowded, bounds>>

\* The upsert of the row.
Write(r) ==
  /\ At(r, "write")
  /\ SetRow(Path(r), req[r].size)
  /\ Done(r)
  /\ quiet' = FALSE
  /\ UNCHANGED <<store, intent, sweep, missing, excused, crowded, bounds>>

\* The row is refused, by a policy or by the database: the bytes go again.
WriteFails(r) ==
  /\ At(r, "write") /\ faults < MaxFaults
  /\ faults' = faults + 1
  /\ excused' = IF row[Path(r)] # None THEN excused \cup {Path(r)} ELSE excused
  /\ Goto(r, "undo")
  /\ UNCHANGED <<row, store, intent, usage, sweep, missing, crowded, quiet, calls>>

\* The row is there, but the answer to COMMIT is lost: the same clean-up takes its bytes.
WriteUnanswered(r) ==
  /\ At(r, "write") /\ faults < MaxFaults
  /\ faults' = faults + 1
  /\ SetRow(Path(r), req[r].size)
  /\ excused' = excused \cup {Path(r)}
  /\ Goto(r, "undo")
  /\ quiet' = FALSE
  /\ UNCHANGED <<store, intent, sweep, missing, crowded, calls>>

Undo(r) ==
  /\ At(r, "undo")
  /\ DropBytes(Path(r))
  /\ Done(r)
  /\ quiet' = FALSE
  /\ UNCHANGED <<row, intent, usage, sweep, missing, excused, crowded, bounds>>

\* Mutant: the counter is not kept above zero.
DeleteRowsUnclamped(r) ==
  LET gone == {n \in req[r].names : row[n] # None}
  IN /\ At(r, "delete")
     /\ row' = [n \in Names |-> IF n \in gone THEN None ELSE row[n]]
     /\ usage' = usage - SumFunctionOnSet(row, gone)
     /\ IF gone = {} THEN Done(r)
        ELSE req' = [req EXCEPT ![r].pc = "bytes", ![r].names = gone]
     /\ quiet' = (quiet /\ gone = {})
     /\ UNCHANGED <<store, intent, sweep, missing, excused, crowded, bounds>>

\* DELETE ... RETURNING name: the rows that were there go on to lose their bytes.
DeleteRows(r) ==
  LET gone == {n \in req[r].names : row[n] # None}
      freed == SumFunctionOnSet(row, gone)
  IN /\ At(r, "delete")
     /\ row' = [n \in Names |-> IF n \in gone THEN None ELSE row[n]]
     /\ usage' = IF freed > usage THEN 0 ELSE usage - freed
     /\ IF gone = {} THEN Done(r)
        ELSE req' = [req EXCEPT ![r].pc = "bytes", ![r].names = gone]
     /\ quiet' = (quiet /\ gone = {})
     /\ UNCHANGED <<store, intent, sweep, missing, excused, crowded, bounds>>

\* One of them, and the last one ends the request.
Leave(r, n) ==
  IF req[r].names = {n} THEN Done(r) ELSE req' = [req EXCEPT ![r].names = @ \ {n}]

DeleteBytes(r) ==
  /\ At(r, "bytes")
  /\ \E n \in req[r].names : DropBytes(n) /\ Leave(r, n)
  /\ quiet' = FALSE
  /\ UNCHANGED <<row, intent, usage, sweep, missing, excused, crowded, bounds>>

\* deleteObject fails, in a delete or an undo, and nobody minds.
BytesStay(r) ==
  /\ req[r].pc \in {"bytes", "undo", "reject"} /\ faults < MaxFaults
  /\ faults' = faults + 1
  /\ \E n \in req[r].names : Leave(r, n)
  /\ UNCHANGED <<row, store, intent, usage, sweep, missing, history, calls>>

-----------------------------------------------------------------------------
(* Presigned uploads *)

\* The quota, and an INSERT rolled back: it fails if the path has a row.
Probe(r) ==
  /\ At(r, "probe")
  /\ IF usage + req[r].size > Ceiling \/ row[Path(r)] # None
     THEN Refuse(r)
     ELSE Goto(r, "intend") /\ crowded' = (crowded \/ UnderWay(r))
  /\ UNCHANGED <<row, store, intent, usage, sweep, missing, excused, quiet, bounds>>

\* The intent's row, and the URL.
Intend(r) ==
  /\ At(r, "intend")
  /\ \E i \in Ids :
       /\ Free(i)
       /\ intent' = [intent EXCEPT ![i] = [at |-> "kept", name |-> Path(r),
                                           size |-> req[r].size, url |-> "live"]]
  /\ Done(r)
  /\ UNCHANGED <<row, store, usage, sweep, missing, history, bounds>>

\* The intent's row goes; the URL does not know.
Ended(i) ==
  [intent EXCEPT ![i] = IF @.url = "live" THEN [@ EXCEPT !.at = "gone"] ELSE NoIntent]

\* The client follows the URL, as often as it likes; the length is signed.
Direct(i) ==
  /\ intent[i].url = "live"
  /\ PutBytes(intent[i].name, intent[i].size)
  /\ quiet' = FALSE
  /\ UNCHANGED <<row, intent, usage, req, sweep, missing, excused, crowded, bounds>>

\* HEAD: 409 with nothing there, and the bytes go if the size is not the declared one.
Head(r) ==
  LET n == Path(r)
  IN /\ At(r, "head")
     /\ IF ~HasBytes(n) THEN Done(r)
        ELSE Goto(r, IF store[n].size # req[r].size THEN "reject" ELSE "sniff")
     /\ UNCHANGED <<row, store, intent, usage, sweep, missing, history, bounds>>

\* The first bytes of whatever is there by now, or of a 404: either verdict is possible.
Sniff(r) ==
  /\ At(r, "sniff")
  /\ \E verdict \in {"finalise", "reject"} : Goto(r, verdict)
  /\ UNCHANGED <<row, store, intent, usage, sweep, missing, history, bounds>>

Reject(r) ==
  /\ At(r, "reject")
  /\ DropBytes(Path(r))
  /\ Done(r)
  /\ quiet' = FALSE
  /\ UNCHANGED <<row, intent, usage, sweep, missing, excused, crowded, bounds>>

\* The row and the end of the intent, in one transaction.
Finalise(r) ==
  /\ At(r, "finalise")
  /\ SetRow(Path(r), req[r].size)
  /\ intent' = Ended(req[r].id)
  /\ Done(r)
  /\ quiet' = FALSE
  /\ UNCHANGED <<store, sweep, missing, excused, crowded, bounds>>

\* An hour later: the URL and the intent have run out.
Expire(i) ==
  /\ intent[i].url = "live"
  /\ intent' = IF Pending(i) THEN [intent EXCEPT ![i].url = "late"] ELSE [intent EXCEPT ![i] = NoIntent]
  /\ UNCHANGED <<row, store, usage, req, sweep, missing, history, bounds>>

-----------------------------------------------------------------------------
(* The sweep *)

Sweeping(pc) == sweep.pc = pc
On(n) == \E r \in Reqs : n \in req[r].names
Late == {i \in Ids : Pending(i) /\ intent[i].url = "late"}

\* A day goes by: requests and URLs have ended long ago, and the sweep is due.
Day ==
  /\ Sweeping("idle")
  /\ \A r \in Reqs : At(r, "idle")
  /\ \A i \in Ids : intent[i].url # "live"
  /\ store' = [n \in Names |-> [store[n] EXCEPT !.old = HasBytes(n)]]
  /\ sweep' = [sweep EXCEPT !.pc = "list"]
  /\ UNCHANGED <<row, intent, usage, req, missing, history, bounds>>

\* The store's inventory first, then the rows', then the intents'.
List ==
  /\ Sweeping("list")
  /\ sweep' = [NoSweep EXCEPT !.pc = "rows", !.listed = store]
  /\ quiet' = TRUE
  /\ excused' = excused \cup {n \in Names : store[n].old /\ On(n)}
  /\ UNCHANGED <<row, store, intent, usage, req, missing, crowded, bounds>>

ReadRows ==
  /\ Sweeping("rows")
  /\ sweep' = [sweep EXCEPT !.pc = "intents", !.rows = {n \in Names : row[n] # None}]
  /\ UNCHANGED <<row, store, intent, usage, req, missing, history, bounds>>

\* Mutant: the grace window is forgotten.
ReadIntentsNoGrace ==
  LET live == {intent[i].name : i \in {j \in Ids : Pending(j) /\ intent[j].url = "live"}}
  IN /\ Sweeping("intents")
     /\ sweep' = [sweep EXCEPT !.pc = "orphans",
          !.todo = {n \in Names \ (sweep.rows \cup live) : sweep.listed[n].size # None}]
     /\ UNCHANGED <<row, store, intent, usage, req, missing, history, bounds>>

ReadIntents ==
  LET live == {intent[i].name : i \in {j \in Ids : Pending(j) /\ intent[j].url = "live"}}
  IN /\ Sweeping("intents")
     /\ sweep' = [sweep EXCEPT !.pc = "orphans",
          !.todo = {n \in Names \ (sweep.rows \cup live) : sweep.listed[n].old}]
     /\ UNCHANGED <<row, store, intent, usage, req, missing, history, bounds>>

\* Mutant: the orphans still count.
CollectCounts ==
  /\ Sweeping("orphans")
  /\ \E n \in sweep.todo :
       /\ DropBytes(n)
       /\ sweep' = [sweep EXCEPT !.todo = @ \ {n}]
  /\ UNCHANGED <<row, intent, usage, req, missing, history, bounds>>

\* Pass 1, an orphan.
Collect ==
  /\ Sweeping("orphans")
  /\ \E n \in sweep.todo :
       /\ DropBytes(n)
       /\ sweep' = [sweep EXCEPT !.todo = @ \ {n}, !.listed[n] = Nothing]
  /\ UNCHANGED <<row, intent, usage, req, missing, history, bounds>>

\* Pass 2: the intents that have expired by now.
ReadLate ==
  /\ Sweeping("orphans") /\ sweep.todo = {}
  /\ sweep' = [sweep EXCEPT !.pc = "late", !.late = {<<i, intent[i].name>> : i \in Late}]
  /\ excused' = excused \cup {n \in {intent[i].name : i \in Late} : On(n)}
  /\ UNCHANGED <<row, store, intent, usage, req, missing, crowded, quiet, bounds>>

\* The bytes, if they can be deleted, ...
DropLate ==
  /\ Sweeping("late")
  /\ \E late \in sweep.late :
       /\ \/ DropBytes(late[2]) /\ UNCHANGED faults
          \/ faults < MaxFaults /\ faults' = faults + 1 /\ UNCHANGED store
       /\ sweep' = [sweep EXCEPT !.pc = "forget", !.late = @ \ {late}, !.id = late[1],
                                 !.visited = @ \cup {late[2]}]
  /\ UNCHANGED <<row, intent, usage, req, missing, history, calls>>

\* ... and then the intent.
Forget ==
  /\ Sweeping("forget")
  /\ intent' = Ended(sweep.id)
  /\ sweep' = [sweep EXCEPT !.pc = "late", !.id = None]
  /\ UNCHANGED <<row, store, usage, req, missing, history, bounds>>

\* Mutant: a path is missed only if it has been there for a day.
ReportOld ==
  /\ Sweeping("late") /\ sweep.late = {}
  /\ missing' = missing \cup {n \in sweep.rows : sweep.listed[n].old}
  /\ sweep' = [sweep EXCEPT !.pc = "correct", !.counted = usage]
  /\ UNCHANGED <<row, store, intent, usage, req, history, bounds>>

\* Pass 3: rows with nothing in the listing are put into storage_missing_objects.
\* Then the counter is read.
Report ==
  /\ Sweeping("late") /\ sweep.late = {}
  /\ missing' = missing \cup {n \in sweep.rows : sweep.listed[n].size = None}
  /\ sweep' = [sweep EXCEPT !.pc = "correct", !.counted = usage]
  /\ UNCHANGED <<row, store, intent, usage, req, history, bounds>>

Drift(a, b) == IF a > b THEN a - b ELSE b - a
Off(true, counted) ==
  Drift(true, counted) > Tolerance \/ (counted > 0 /\ 100 * Drift(true, counted) > counted)
Total(s) == SumFunctionOnSet([n \in Names |-> s[n].size], Names)

\* Pass 4: the counter is rewritten if it is off by 1 % or 100 MB.
Correct ==
  /\ Sweeping("correct")
  /\ LET true == Total(sweep.listed)
     IN IF Off(true, sweep.counted)
        THEN usage' = true /\ crowded' = TRUE
        ELSE UNCHANGED <<usage, crowded>>
  /\ sweep' = NoSweep
  /\ UNCHANGED <<row, store, intent, req, missing, excused, quiet, bounds>>

-----------------------------------------------------------------------------
(* What breaks *)

\* The API dies, or putObject's answer is lost, or a statement fails elsewhere.
Crash(r) ==
  /\ ~At(r, "idle") /\ faults < MaxFaults
  /\ faults' = faults + 1
  /\ excused' = IF At(r, "write") /\ row[Path(r)] # None
                  THEN excused \cup {Path(r)} ELSE excused
  /\ Done(r)
  /\ UNCHANGED <<row, store, intent, usage, sweep, missing, crowded, quiet, calls>>

\* The worker dies, or the store or the database does not answer.
SweepFails ==
  /\ ~Sweeping("idle") /\ faults < MaxFaults
  /\ faults' = faults + 1
  /\ sweep' = NoSweep
  /\ UNCHANGED <<row, store, intent, usage, req, missing, history, calls>>

-----------------------------------------------------------------------------

Call(r) == Upload(r) \/ Remove(r) \/ Sign(r) \/ Complete(r)

Serve(r) ==
  \/ Prepare(r) \/ Put(r) \/ Write(r) \/ Undo(r)
  \/ DeleteRows(r) \/ DeleteBytes(r)
  \/ Probe(r) \/ Intend(r) \/ Head(r) \/ Sniff(r) \/ Reject(r) \/ Finalise(r)

SweepStep ==
  \/ List \/ ReadRows \/ ReadIntents \/ Collect \/ ReadLate \/ DropLate \/ Forget
  \/ Report \/ Correct

Next ==
  \/ \E r \in Reqs : Call(r) \/ Serve(r) \/ WriteFails(r) \/ WriteUnanswered(r) \/ BytesStay(r) \/ Crash(r)
  \/ \E i \in Ids : Direct(i) \/ Expire(i)
  \/ Day \/ SweepStep \/ SweepFails

Spec == Init /\ [][Next]_vars

-----------------------------------------------------------------------------
(* Properties *)

TypeOK ==
  /\ row \in [Names -> 0..MaxSize]
  /\ store \in [Names -> [size : 0..MaxSize, old : BOOLEAN]]
  /\ intent \in [Ids -> [at : {"none", "kept", "gone"}, name : Names \cup {None}, size : 0..MaxSize,
                         url : {"none", "live", "late"}]]
  /\ usage \in Nat
  /\ req \in [Reqs -> [pc : {"idle", "prepare", "put", "write", "undo", "delete", "bytes",
                             "probe", "intend", "head", "sniff", "reject", "finalise"},
                       names : SUBSET Names, size : 0..MaxSize, id : Ids \cup {None}]]
  /\ sweep \in [pc : {"idle", "list", "rows", "intents", "orphans", "late", "forget",
                      "correct"},
                listed : [Names -> [size : 0..MaxSize, old : BOOLEAN]],
                rows : SUBSET Names, todo : SUBSET Names, late : SUBSET (Ids \X Names),
                id : Ids \cup {None}, visited : SUBSET Names, counted : Nat]
  /\ missing \subseteq Names
  /\ excused \subseteq Names /\ crowded \in BOOLEAN /\ quiet \in BOOLEAN
  /\ calls \in 0..MaxCalls /\ faults \in 0..MaxFaults

\* A row has its bytes, and as many of them as it says, wherever a process died, unless
\* two operations were at the path at once, an overwrite stopped between its two writes, or
\* the answer to the COMMIT of the row was lost: then the clean-up leaves a row without bytes,
\* with nobody else about (objects.ts, the two orderings; storage-sweep.ts, the grace window).
RowDescribesBytes ==
  \A n \in Names \ excused : row[n] # None =>
    /\ HasBytes(n)
    /\ row[n] = store[n].size \/ \E r \in Reqs : At(r, "write") /\ req[r].names = {n}

\* Sequential uploads stay within the plan; only uploads side by side overshoot it
\* (objects.ts, the quota), or a counter the sweep has rewritten.
OvershootIsCrowded == usage > Ceiling => crowded

\* What the sweep takes to be there: the listing without pass 1's orphans.  The bytes that
\* its own pass 2 deletes it still counts, and still believes in.
AsCounted == [n \in Names |-> IF n \in sweep.visited THEN sweep.listed[n] ELSE store[n]]

\* A true-up nobody interfered with leaves the counter near what the store holds, the bytes
\* that pass 2 has deleted counted in (storage-sweep.ts, pass 4, whose comment says that the
\* total reflects what is left: without those bytes the property is false).
EndOfSweep == Sweeping("correct") /\ faults' = faults /\ sweep'.pc = "idle" /\ quiet
TrueUpIsTrue == [][EndOfSweep => ~Off(Total(AsCounted), usage')]_vars

\* A sweep nobody interfered with leaves no bytes that have had no row for a day, and has
\* told the operator of every row without bytes (D-403): the other half of the orderings.
\* Only the paths of pass 2 are different: a deletion that fails there leaves bytes that
\* nothing names, one that works at a path with a row leaves that row unreported.
Garbage(n) == HasBytes(n) /\ row[n] = None
Broken(n) == row[n] # None /\ ~HasBytes(n)
SweepIsThorough ==
  [][EndOfSweep => \A n \in Names \ sweep.visited :
       /\ Garbage(n) /\ store[n].old => \E i \in Ids : intent[i].name = n /\ Pending(i)
       /\ Broken(n) => n \in missing]_vars

=============================================================================
