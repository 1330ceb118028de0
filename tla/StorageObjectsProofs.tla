------------------------ MODULE StorageObjectsProofs ------------------------
(*************************************************************************)
(* For any number of paths, requests, intents, calls and faults: wherever *)
(* a process dies, the row of a path that is not excused describes the   *)
(* bytes that are there; a sweep nobody interfered with leaves no old    *)
(* bytes without a row, reports every row without bytes and leaves the   *)
(* counter near what it has listed, but for what its own second pass did; *)
(* and only uploads admitted side by side, or a counter the sweep has    *)
(* rewritten, take a project past its plan.                              *)
(*                                                                       *)
(* For the bytes, the argument has two halves.  On a path that is not    *)
(* excused at most one request, one intent or one item of the sweep's    *)
(* lists is at work, and it can only meet its own intent there (Owned).  *)
(* What that one operation has learned about the path is then still true *)
(* when it acts on it (Known): who is about to write the row has its bytes *)
(* in place, who is about to delete bytes has no row.  The sweep's lists *)
(* are old, but they speak of bytes a day old, and whoever begins at such *)
(* a path has it excused.  For the counter it is about the sum over the  *)
(* rows: every statement changes both by the same amount (Quota), and what *)
(* the sweep has counted stands while nothing has moved (Read).          *)
(*************************************************************************)
EXTENDS StorageObjects, Sums, TLAPS

Pcs == {"idle", "prepare", "put", "write", "undo", "delete", "bytes",
        "probe", "intend", "head", "sniff", "reject", "finalise"}
Completing == {"head", "sniff", "reject", "finalise"}
Alone == Pcs \ {"idle", "delete", "bytes"}
BytesType == [size : 0..MaxSize, old : BOOLEAN]
IntentType == [at : {"none", "kept", "gone"}, name : Names \cup {None}, size : 0..MaxSize,
               url : {"none", "live", "late"}]
ReqType == [pc : Pcs, names : SUBSET Names, size : 0..MaxSize, id : Ids \cup {None}]
SweepPcs == {"idle", "list", "rows", "intents", "orphans", "late", "forget", "correct"}
SweepType(counted) ==
  [pc : SweepPcs, listed : [Names -> BytesType], rows : SUBSET Names, todo : SUBSET Names,
   late : SUBSET (Ids \X Names), id : Ids \cup {None}, visited : SUBSET Names,
   counted : {counted}]

Typed ==
  /\ row \in [Names -> 0..MaxSize]
  /\ store \in [Names -> BytesType]
  /\ intent \in [Ids -> IntentType]
  /\ req \in [Reqs -> ReqType]
  /\ sweep \in SweepType(sweep.counted)
  /\ excused \subseteq Names

(* What a request of each kind carries. *)
Carrying(r) ==
  /\ At(r, "idle") => req[r].names = {}
  /\ req[r].pc \in Alone => req[r].size \in Sizes /\ \E n \in Names : req[r].names = {n}
  /\ IF req[r].pc \in Completing
     THEN req[r].id \in Ids /\ (intent[req[r].id].at = "none" \/ intent[req[r].id].name \in req[r].names)
     ELSE req[r].id = None

(* An intent without a row lives on in its URL only. *)
Standing(i) ==
  /\ intent[i].at = "none" => intent[i] = NoIntent
  /\ intent[i].at = "gone" => intent[i].url = "live"
  /\ intent[i].at # "none" => intent[i].name \in Names /\ intent[i].size \in Sizes /\ intent[i].url # "none"

(* What the sweep works on. *)
Working ==
  /\ sweep.pc \in {"idle", "list"} => \A n \in Names : ~sweep.listed[n].old
  /\ sweep.pc \in {"idle", "list", "rows", "intents"} => sweep.todo = {} /\ sweep.late = {}
  /\ sweep.pc = "orphans" => sweep.late = {}
  /\ \A n \in sweep.todo : sweep.listed[n].old
  /\ \A late \in sweep.late : intent[late[1]] = NoIntent \/ (intent[late[1]].url = "late" /\ intent[late[1]].name = late[2])
  /\ \A k, l \in sweep.late : k[1] = l[1] => k = l
  /\ sweep.pc = "forget" => /\ sweep.id \in Ids /\ intent[sweep.id].url # "live"
                            /\ \A late \in sweep.late : late[1] # sweep.id

Base == Typed /\ (\A r \in Reqs : Carrying(r)) /\ (\A i \in Ids : Standing(i)) /\ Working

(* A path that is not excused has one operation at a time. *)
Claims(i, n) == intent[i].name = n /\ (Pending(i) \/ intent[i].url = "live")
Owned(n) ==
  /\ \A q, r \in Reqs : n \in req[q].names /\ n \in req[r].names => q = r
  /\ \A r \in Reqs, i \in Ids : n \in req[r].names /\ Claims(i, n) => req[r].id = i
  /\ \A i, j \in Ids : Claims(i, n) /\ Claims(j, n) => i = j
  /\ sweep.listed[n].old => ~On(n)
  /\ \A i \in Ids : <<i, n>> \in sweep.late => Claims(i, n) /\ Pending(i) /\ ~On(n)
  /\ Sweeping("forget") /\ intent[sweep.id].name = n => ~On(n)

(* ... and the operation knows what is there. *)
Knows(r, n) ==
  /\ req[r].pc \in {"write", "sniff", "finalise"} => store[n].size = req[r].size
  /\ req[r].pc \in {"undo", "bytes", "intend"} \cup Completing => row[n] = None
  /\ req[r].pc \in Completing => /\ Pending(req[r].id) /\ intent[req[r].id].name = n
                                 /\ req[r].size = intent[req[r].id].size
Foretold(n) ==
  \A i \in Ids : intent[i].name = n =>
    /\ Pending(i) => row[n] = None
    /\ intent[i].at = "gone" => row[n] = intent[i].size
Swept(n) ==
  /\ n \in sweep.todo => row[n] = None
  /\ Sweeping("intents") /\ sweep.listed[n].old /\ row[n] # None => n \in sweep.rows
Known(n) == (\A r \in Reqs : n \in req[r].names => Knows(r, n)) /\ Foretold(n) /\ Swept(n)

Described(n) ==
  row[n] # None => /\ HasBytes(n)
                   /\ row[n] = store[n].size \/ \E r \in Reqs : At(r, "write") /\ req[r].names = {n}

Safe(n) == Owned(n) /\ Known(n) /\ Described(n)

IInv == Base /\ \A n \in Names \ excused : Safe(n)

-----------------------------------------------------------------------------
(* Types.                                                                  *)

LEMMA Fields ==
  ASSUME Base
  PROVE  /\ row \in [Names -> 0..MaxSize] /\ store \in [Names -> BytesType]
         /\ intent \in [Ids -> IntentType] /\ req \in [Reqs -> ReqType]
         /\ sweep \in SweepType(sweep.counted) /\ excused \subseteq Names
         /\ MaxSize \in Nat \ {0} /\ None \notin Names /\ None \notin Ids
BY StorageAssumption DEF Base, Typed

LEMMA GotoMoves ==
  ASSUME Base, NEW r \in Reqs, NEW pc \in Pcs, Goto(r, pc)
  PROVE  /\ req' \in [Reqs -> ReqType]
         /\ req'[r].pc = pc /\ req'[r].names = req[r].names
         /\ req'[r].size = req[r].size /\ req'[r].id = req[r].id
         /\ \A q \in Reqs \ {r} : req'[q] = req[q]
<1>1. req \in [Reqs -> ReqType] /\ req' = [req EXCEPT ![r].pc = pc]
  BY Fields DEF Goto
<1>2. [req[r] EXCEPT !.pc = pc] \in ReqType
  BY <1>1 DEF ReqType
<1> QED
  BY <1>1, <1>2 DEF ReqType

LEMMA NoReqType == /\ NoReq \in ReqType /\ NoReq.pc = "idle" /\ NoReq.names = {}
                   /\ NoReq.size = None /\ NoReq.id = None
BY StorageAssumption DEF NoReq, ReqType, Pcs, None

LEMMA DoneMoves ==
  ASSUME Base, NEW r \in Reqs, Done(r)
  PROVE  /\ req' \in [Reqs -> ReqType]
         /\ req'[r].pc = "idle" /\ req'[r].names = {} /\ req'[r].id = None
         /\ \A q \in Reqs \ {r} : req'[q] = req[q]
BY NoReqType, Fields DEF Done

LEMMA LeaveMoves ==
  ASSUME Base, NEW r \in Reqs, NEW n \in Names, Leave(r, n)
  PROVE  /\ req' \in [Reqs -> ReqType]
         /\ \/ req'[r].pc = "idle" /\ req'[r].names = {} /\ req'[r].id = None
            \/ /\ req'[r].pc = req[r].pc /\ req'[r].names = req[r].names \ {n}
               /\ req'[r].size = req[r].size /\ req'[r].id = req[r].id
               /\ req[r].names # {n}
         /\ \A q \in Reqs \ {r} : req'[q] = req[q]
<1>1. CASE req[r].names = {n}
  BY <1>1, DoneMoves DEF Leave
<1>2. CASE req[r].names # {n}
  <2>1. req \in [Reqs -> ReqType] /\ req' = [req EXCEPT ![r].names = @ \ {n}]
    BY <1>2, Fields DEF Leave
  <2>2. [req[r] EXCEPT !.names = @ \ {n}] \in ReqType
    BY <2>1 DEF ReqType
  <2> QED
    BY <1>2, <2>1, <2>2 DEF ReqType
<1> QED
  BY <1>1, <1>2

LEMMA PathIs ==
  ASSUME NEW r \in Reqs, NEW n \in Names, req[r].names = {n}
  PROVE  Path(r) = n
BY DEF Path

LEMMA PathOf ==
  ASSUME Base, NEW r \in Reqs, req[r].pc \in Alone
  PROVE  Path(r) \in Names /\ req[r].names = {Path(r)} /\ req[r].size \in Sizes
<1>1. Carrying(r)
  BY DEF Base
<1>2. PICK n \in Names : req[r].names = {n}
  BY <1>1 DEF Carrying
<1> QED
  BY <1>1, <1>2, PathIs DEF Carrying

(* Writing at a path. *)
LEMMA PutMoves ==
  ASSUME Base, NEW n \in Names, NEW s \in 0..MaxSize, PutBytes(n, s)
  PROVE  /\ store' \in [Names -> BytesType] /\ store'[n].size = s
         /\ \A m \in Names \ {n} : store'[m] = store[m]
BY Fields DEF PutBytes, BytesType

LEMMA DropMoves ==
  ASSUME Base, NEW n \in Names, DropBytes(n)
  PROVE  /\ store' \in [Names -> BytesType] /\ store'[n].size = None
         /\ \A m \in Names \ {n} : store'[m] = store[m]
<1>1. Nothing \in BytesType /\ Nothing.size = None
  BY Fields DEF Nothing, BytesType, None
<1> QED
  BY <1>1, Fields DEF DropBytes

LEMMA SetRowMoves ==
  ASSUME Base, NEW n \in Names, NEW s \in 0..MaxSize, SetRow(n, s)
  PROVE  /\ row' \in [Names -> 0..MaxSize] /\ row'[n] = s
         /\ \A m \in Names \ {n} : row'[m] = row[m]
BY Fields DEF SetRow

LEMMA NoIntentType == /\ NoIntent \in IntentType /\ NoIntent.at = "none"
                      /\ NoIntent.name = None /\ NoIntent.url = "none"
BY StorageAssumption DEF NoIntent, IntentType, None

(* An intent that loses its row. *)
LEMMA EndedMoves ==
  ASSUME Base, NEW i \in Ids, intent' = Ended(i)
  PROVE  /\ intent' \in [Ids -> IntentType]
         /\ \A j \in Ids \ {i} : intent'[j] = intent[j]
         /\ intent[i].url # "live" => intent'[i] = NoIntent
         /\ intent[i].url = "live" => /\ intent'[i].at = "gone" /\ intent'[i].url = "live"
                                      /\ intent'[i].name = intent[i].name
                                      /\ intent'[i].size = intent[i].size
<1>1. intent \in [Ids -> IntentType]
  BY Fields
<1>2. CASE intent[i].url = "live"
  <2>1. intent' = [intent EXCEPT ![i] = [intent[i] EXCEPT !.at = "gone"]]
    BY <1>1, <1>2 DEF Ended
  <2>2. [intent[i] EXCEPT !.at = "gone"] \in IntentType
    BY <1>1 DEF IntentType
  <2> QED
    BY <1>1, <1>2, <2>1, <2>2 DEF IntentType
<1>3. CASE intent[i].url # "live"
  BY <1>1, <1>3, NoIntentType DEF Ended
<1> QED
  BY <1>2, <1>3

-----------------------------------------------------------------------------
(* Frames: where a step is not, and where it is.                           *)

LEMMA BaseStays ==
  ASSUME Base, NEW r \in Reqs, row' \in [Names -> 0..MaxSize], store' \in [Names -> BytesType],
         req' \in [Reqs -> ReqType], excused' \subseteq Names, sweep' = sweep, intent' = intent,
         \A q \in Reqs \ {r} : req'[q] = req[q], Carrying(r)'
  PROVE  Base'
<1>1. Typed'
  BY Fields DEF Typed
<1>2. \A q \in Reqs : Carrying(q)'
  BY DEF Base, Carrying, At
<1>3. \A i \in Ids : Standing(i)'
  BY DEF Base, Standing
<1>4. Working'
  BY DEF Base, Working
<1> QED
  BY <1>1, <1>2, <1>3, <1>4 DEF Base

\* Nobody but the request that is there has anything to do with the path.
LEMMA OnlyOneThere ==
  ASSUME Base, NEW n \in Names, Safe(n), NEW r \in Reqs, n \in req[r].names
  PROVE  /\ \A q \in Reqs \ {r} : n \notin req[q].names
         /\ \A i \in Ids : Claims(i, n) => req[r].id = i
         /\ ~sweep.listed[n].old /\ n \notin sweep.todo
         /\ \A i \in Ids : <<i, n>> \notin sweep.late
         /\ Sweeping("forget") => intent[sweep.id].name # n
BY DEF Safe, Owned, On, Base, Working

LEMMA Elsewhere ==
  ASSUME Base, NEW n \in Names, Safe(n), NEW r \in Reqs, n \notin req[r].names, n \notin req'[r].names,
         \A q \in Reqs \ {r} : req'[q] = req[q], sweep' = sweep, row'[n] = row[n], store'[n] = store[n],
         \A i \in Ids : intent[i].name = n \/ intent'[i].name = n => intent'[i] = intent[i]
  PROVE  Safe(n)'
<1>0. \A q \in Reqs : n \in req'[q].names => req'[q] = req[q]
  OBVIOUS
<1>1. \A i \in Ids : /\ Claims(i, n)' => Claims(i, n) /\ intent'[i] = intent[i]
                     /\ Claims(i, n) => Claims(i, n)' /\ intent'[i] = intent[i]
  BY DEF Claims, Pending
<1>2. Owned(n)'
  <2>1. \A q, s \in Reqs : n \in req'[q].names /\ n \in req'[s].names => q = s
    BY <1>0 DEF Safe, Owned
  <2>2. \A q \in Reqs, i \in Ids : n \in req'[q].names /\ Claims(i, n)' => req'[q].id = i
    BY <1>0, <1>1 DEF Safe, Owned
  <2>3. \A i, j \in Ids : Claims(i, n)' /\ Claims(j, n)' => i = j
    BY <1>1 DEF Safe, Owned
  <2>4. On(n)' => On(n)
    BY <1>0 DEF On
  <2>5. \A i \in Ids : <<i, n>> \in sweep.late => Claims(i, n)' /\ Pending(i)'
    BY <1>1 DEF Safe, Owned, Pending
  <2>6. Sweeping("forget") /\ intent'[sweep.id].name = n => intent[sweep.id].name = n
    BY DEF Base, Working, Sweeping
  <2> QED
    BY <2>1, <2>2, <2>3, <2>4, <2>5, <2>6 DEF Safe, Owned, Sweeping
<1>3. \A q \in Reqs : n \in req'[q].names => Knows(q, n)'
  <2> SUFFICES ASSUME NEW q \in Reqs, n \in req'[q].names PROVE Knows(q, n)'
    OBVIOUS
  <2>1. req'[q] = req[q] /\ Knows(q, n)
    BY <1>0 DEF Safe, Known
  <2>2. req[q].pc \in Completing => req[q].id \in Ids
    BY DEF Base, Carrying
  <2>3. req[q].pc \in Completing => intent'[req[q].id] = intent[req[q].id]
    BY <2>1, <2>2 DEF Knows
  <2> QED
    BY <2>1, <2>3 DEF Knows, Pending
<1>4. Foretold(n)'
  BY DEF Safe, Known, Foretold, Pending
<1>5. Swept(n)'
  BY DEF Safe, Known, Swept, Sweeping
<1>6. Described(n)'
  <2> SUFFICES ASSUME row[n] # None
               PROVE  /\ HasBytes(n)
                      /\ row[n] = store[n].size \/ \E q \in Reqs : At(q, "write")' /\ req'[q].names = {n}
    BY DEF Described, HasBytes
  <2>1. CASE \E q \in Reqs : At(q, "write") /\ req[q].names = {n}
    <3>1. PICK q \in Reqs : At(q, "write") /\ req[q].names = {n}
      BY <2>1
    <3>2. req'[q] = req[q]
      BY <3>1
    <3> QED
      BY <3>1, <3>2 DEF At, Safe, Described
  <2> QED
    BY <2>1 DEF Safe, Described
<1> QED
  BY <1>2, <1>3, <1>4, <1>5, <1>6 DEF Safe, Known

LEMMA Here ==
  ASSUME Base, NEW n \in Names, Safe(n), NEW r \in Reqs, n \in req[r].names,
         \A q \in Reqs \ {r} : req'[q] = req[q], sweep' = sweep,
         n \in req'[r].names => req'[r].id = req[r].id /\ Knows(r, n)',
         \A i \in Ids : Claims(i, n)' => Claims(i, n),
         \A i \in Ids : intent'[i].name = n => intent[i].name = n,
         Foretold(n)', Described(n)'
  PROVE  Safe(n)'
<1>0. \A q \in Reqs : n \in req'[q].names => q = r
  BY OnlyOneThere
<1>1. Owned(n)'
  <2>1. \A q \in Reqs, i \in Ids : n \in req'[q].names /\ Claims(i, n)' => req'[q].id = i
    BY <1>0, OnlyOneThere
  <2>2. \A i, j \in Ids : Claims(i, n)' /\ Claims(j, n)' => i = j
    BY DEF Safe, Owned
  <2>3. Sweeping("forget") => intent'[sweep.id].name # n
    BY OnlyOneThere DEF Base, Working, Sweeping
  <2> QED
    BY <1>0, <2>1, <2>2, <2>3, OnlyOneThere DEF Owned, Sweeping
<1>2. Swept(n)'
  BY OnlyOneThere DEF Swept
<1> QED
  BY <1>0, <1>1, <1>2 DEF Safe, Known

\* A step that leaves rows, bytes and intents alone, at the path of its request.
LEMMA Idling ==
  ASSUME Base, NEW n \in Names, Safe(n), NEW r \in Reqs, n \in req[r].names,
         \A q \in Reqs \ {r} : req'[q] = req[q], sweep' = sweep, UNCHANGED <<row, store, intent>>,
         n \in req'[r].names => req'[r].id = req[r].id /\ Knows(r, n)',
         req[r].pc = "write" => row[n] = None
  PROVE  Safe(n)'
<1>1. \A i \in Ids : Claims(i, n)' => Claims(i, n)
  BY DEF Claims, Pending
<1>2. Foretold(n)'
  BY DEF Foretold, Pending, Safe, Known
<1>3. Described(n)'
  <2>1. row[n] # None => \A q \in Reqs : At(q, "write") /\ req[q].names = {n} => q # r
    BY DEF At
  <2>2. \A q \in Reqs \ {r} : req[q].names # {n}
    BY OnlyOneThere
  <2> QED
    BY <2>1, <2>2 DEF Safe, Described, HasBytes
<1> QED
  BY <1>1, <1>2, <1>3, Here

-----------------------------------------------------------------------------
(* Requests.                                                               *)

LEMMA Idles ==
  ASSUME IInv, NEW r \in Reqs, UNCHANGED <<row, store, intent, sweep>>,
         req' \in [Reqs -> ReqType], \A q \in Reqs \ {r} : req'[q] = req[q],
         excused \subseteq excused', excused' \subseteq Names,
         Carrying(r)', req'[r].names \subseteq req[r].names,
         \A n \in req'[r].names \ excused' : req'[r].id = req[r].id /\ Knows(r, n)',
         req[r].pc = "write" => \A n \in req[r].names \ excused' : row[n] = None
  PROVE  IInv'
<1>1. Base'
  BY Fields, BaseStays DEF IInv
<1> SUFFICES ASSUME NEW n \in Names \ excused' PROVE Safe(n)'
  BY <1>1 DEF IInv
<1>2. Base /\ Safe(n)
  BY DEF IInv
<1>3. CASE n \in req[r].names
  BY <1>2, <1>3, Idling
<1>4. CASE n \notin req[r].names
  BY <1>2, <1>4, Elsewhere
<1> QED
  BY <1>3, <1>4

\* What the invariant says of the path a request is at.
LEMMA AtPath ==
  ASSUME IInv, NEW r \in Reqs, NEW n \in req[r].names
  PROVE  /\ n \in Names
         /\ n \notin excused => Safe(n) /\ Knows(r, n)
         /\ Carrying(r)
BY Fields DEF IInv, Base, Safe, Known, ReqType

LEMMA CarriesOn ==
  ASSUME IInv, NEW r \in Reqs, intent' = intent, req'[r].names = req[r].names,
         req'[r].size = req[r].size, req'[r].id = req[r].id,
         req'[r].pc # "idle",
         req'[r].pc \in Alone => req[r].pc \in Alone,
         req'[r].pc \in Completing <=> req[r].pc \in Completing
  PROVE  Carrying(r)'
<1>1. Carrying(r)
  BY DEF IInv, Base
<1> QED
  BY <1>1 DEF Carrying, At

LEMMA DoneCarries ==
  ASSUME NEW r \in Reqs, req'[r].pc = "idle", req'[r].names = {}, req'[r].id = None
  PROVE  Carrying(r)'
BY DEF Carrying, At, Alone, Completing

LEMMA DoneIdles ==
  ASSUME IInv, NEW r \in Reqs, Done(r), UNCHANGED <<row, store, intent, sweep>>,
         excused \subseteq excused', excused' \subseteq Names,
         req[r].pc = "write" => \A n \in req[r].names \ excused' : row[n] = None
  PROVE  IInv'
<1>1. Base
  BY DEF IInv
<1> QED
  BY <1>1, DoneMoves, DoneCarries, Idles

LEMMA KeepPrepare == ASSUME IInv, NEW r \in Reqs, Prepare(r) PROVE IInv'
<1>0. Base /\ excused' = excused /\ excused' \subseteq Names /\ req[r].pc = "prepare" /\ UNCHANGED <<row, store, intent, sweep>>
  BY Fields DEF IInv, Prepare, At
<1>1. CASE Done(r)
  BY <1>0, <1>1, DoneIdles
<1>2. CASE Goto(r, "put")
  <2>1. "put" \in Pcs
    BY DEF Pcs
  <2>2. Carrying(r)'
    BY <1>0, <1>2, <2>1, GotoMoves, CarriesOn DEF Alone, Completing, Pcs
  <2>3. \A n \in req'[r].names : req'[r].id = req[r].id /\ Knows(r, n)'
    BY <1>0, <1>2, <2>1, GotoMoves DEF Knows, Completing
  <2> QED
    BY <1>0, <1>2, <2>1, <2>2, <2>3, GotoMoves, Idles
<1> QED
  BY <1>1, <1>2 DEF Prepare, Refuse

LEMMA KeepProbe == ASSUME IInv, NEW r \in Reqs, Probe(r) PROVE IInv'
<1>0. Base /\ excused' = excused /\ excused' \subseteq Names /\ req[r].pc = "probe" /\ UNCHANGED <<row, store, intent, sweep>>
  BY Fields DEF IInv, Probe, At
<1>1. CASE Done(r)
  BY <1>0, <1>1, DoneIdles
<1>2. CASE Goto(r, "intend") /\ row[Path(r)] = None
  <2>1. "intend" \in Pcs
    BY DEF Pcs
  <2>2. Carrying(r)'
    BY <1>0, <1>2, <2>1, GotoMoves, CarriesOn DEF Alone, Completing, Pcs
  <2>3. \A n \in req'[r].names : req'[r].id = req[r].id /\ Knows(r, n)'
    <3>1. req[r].names = {Path(r)}
      BY <1>0, PathOf DEF Alone, Pcs
    <3> QED
      BY <1>0, <1>2, <2>1, <3>1, GotoMoves DEF Knows, Completing
  <2> QED
    BY <1>0, <1>2, <2>1, <2>2, <2>3, GotoMoves, Idles
<1> QED
  BY <1>1, <1>2 DEF Probe, Refuse

LEMMA KeepHead == ASSUME IInv, NEW r \in Reqs, Head(r) PROVE IInv'
<1>0. Base /\ excused' = excused /\ excused' \subseteq Names /\ req[r].pc = "head" /\ UNCHANGED <<row, store, intent, sweep>>
  BY Fields DEF IInv, Head, At, history
<1>1. CASE Done(r)
  BY <1>0, <1>1, DoneIdles
<1>2. ASSUME NEW pc \in {"reject", "sniff"}, Goto(r, pc),
             pc = "sniff" => store[Path(r)].size = req[r].size
      PROVE  IInv'
  <2>1. pc \in Pcs
    BY DEF Pcs
  <2>2. Carrying(r)'
    BY <1>0, <1>2, <2>1, GotoMoves, CarriesOn DEF Alone, Completing, Pcs
  <2>3. \A n \in req'[r].names \ excused' : req'[r].id = req[r].id /\ Knows(r, n)'
    <3>1. req[r].names = {Path(r)}
      BY <1>0, PathOf DEF Alone, Pcs
    <3>2. \A n \in req[r].names \ excused : Knows(r, n)
      BY AtPath
    <3> QED
      BY <1>0, <1>2, <2>1, <3>1, <3>2, GotoMoves DEF Knows, Completing, Pending
  <2> QED
    BY <1>0, <1>2, <2>1, <2>2, <2>3, GotoMoves, Idles
<1> QED
  BY <1>1, <1>2 DEF Head

LEMMA KeepSniff == ASSUME IInv, NEW r \in Reqs, Sniff(r) PROVE IInv'
<1>0. Base /\ excused' = excused /\ excused' \subseteq Names /\ req[r].pc = "sniff" /\ UNCHANGED <<row, store, intent, sweep>>
  BY Fields DEF IInv, Sniff, At, history
<1>1. PICK pc \in {"finalise", "reject"} : Goto(r, pc)
  BY DEF Sniff
<1>2. pc \in Pcs
  BY DEF Pcs
<1>3. Carrying(r)'
  BY <1>0, <1>1, <1>2, GotoMoves, CarriesOn DEF Alone, Completing, Pcs
<1>4. \A n \in req'[r].names \ excused' : req'[r].id = req[r].id /\ Knows(r, n)'
  <2>1. \A n \in req[r].names \ excused : Knows(r, n)
    BY AtPath
  <2> QED
    BY <1>0, <1>1, <1>2, <2>1, GotoMoves DEF Knows, Completing, Pending
<1> QED
  BY <1>0, <1>1, <1>2, <1>3, <1>4, GotoMoves, Idles

LEMMA KeepWriteFails == ASSUME IInv, NEW r \in Reqs, WriteFails(r) PROVE IInv'
<1>0. Base /\ req[r].pc = "write" /\ UNCHANGED <<row, store, intent, sweep>> /\ Goto(r, "undo") /\ "undo" \in Pcs
  BY DEF IInv, WriteFails, At, Pcs
<1>1. Path(r) \in Names /\ req[r].names = {Path(r)}
  BY <1>0, PathOf DEF Alone, Pcs
<1>2. /\ excused \subseteq excused' /\ excused' \subseteq Names
      /\ \A n \in req[r].names \ excused' : row[n] = None
  BY <1>0, <1>1, Fields DEF WriteFails
<1>3. Carrying(r)'
  BY <1>0, GotoMoves, CarriesOn DEF Alone, Completing, Pcs
<1>4. \A n \in req'[r].names \ excused' : req'[r].id = req[r].id /\ Knows(r, n)'
  BY <1>0, <1>2, GotoMoves DEF Knows, Completing
<1> QED
  BY <1>0, <1>2, <1>3, <1>4, GotoMoves, Idles

\* The bytes of the row that is written now are about to go: its path is excused.
LEMMA KeepWriteUnanswered == ASSUME IInv, NEW r \in Reqs, WriteUnanswered(r) PROVE IInv'
<1> DEFINE p == Path(r)
<1>0. /\ UNCHANGED <<store, intent, sweep>> /\ req[r].pc = "write" /\ Base
      /\ Goto(r, "undo") /\ "undo" \in Pcs /\ SetRow(p, req[r].size) /\ excused' = excused \cup {p}
  BY DEF IInv, WriteUnanswered, At, Pcs
<1>1. p \in Names /\ req[r].names = {p} /\ req[r].size \in 0..MaxSize /\ excused' \subseteq Names
  BY <1>0, PathOf, Fields DEF Alone, Pcs, Sizes
<1>2. /\ row' \in [Names -> 0..MaxSize] /\ \A m \in Names \ {p} : row'[m] = row[m]
  BY <1>0, <1>1, SetRowMoves
<1>3. /\ req' \in [Reqs -> ReqType] /\ \A q \in Reqs \ {r} : req'[q] = req[q]
      /\ req'[r].names = {p} /\ Carrying(r)'
  BY <1>0, <1>1, GotoMoves, CarriesOn DEF Alone, Completing, Pcs
<1> HIDE DEF p
<1>4. Base'
  BY <1>0, <1>1, <1>2, <1>3, Fields, BaseStays
<1> SUFFICES ASSUME NEW n \in Names \ excused' PROVE Safe(n)'
  BY <1>4 DEF IInv
<1>5. Safe(n) /\ n # p
  BY <1>0 DEF IInv
<1> QED
  BY <1>0, <1>1, <1>2, <1>3, <1>5, Elsewhere

LEMMA KeepCrash == ASSUME IInv, NEW r \in Reqs, Crash(r) PROVE IInv'
<1>0. Base /\ UNCHANGED <<row, store, intent, sweep>> /\ Done(r)
  BY DEF IInv, Crash
<1>1. CASE req[r].pc = "write"
  <2>1. Path(r) \in Names /\ req[r].names = {Path(r)}
    BY <1>0, <1>1, PathOf DEF Alone, Pcs
  <2>2. /\ excused \subseteq excused' /\ excused' \subseteq Names
        /\ \A n \in req[r].names \ excused' : row[n] = None
    BY <1>0, <1>1, <2>1, Fields DEF Crash, At
  <2> QED
    BY <1>0, <2>2, DoneIdles
<1>2. CASE req[r].pc # "write"
  <2>1. excused' = excused
    BY <1>2 DEF Crash, At
  <2> QED
    BY <1>0, <1>2, <2>1, Fields, DoneIdles
<1> QED
  BY <1>1, <1>2

\* One path fewer.
LEMMA LeaveIdles ==
  ASSUME IInv, NEW r \in Reqs, NEW n \in Names, Leave(r, n), req[r].pc \in {"bytes", "undo", "reject"},
         intent' = intent
  PROVE  /\ req' \in [Reqs -> ReqType] /\ \A q \in Reqs \ {r} : req'[q] = req[q]
         /\ Carrying(r)' /\ req'[r].names \subseteq req[r].names
         /\ req'[r].names # {} => req'[r].pc = req[r].pc /\ req'[r].id = req[r].id /\ req'[r].size = req[r].size
<1>1. Base /\ Carrying(r)
  BY DEF IInv, Base
<1>2. Carrying(r)'
  <2>1. CASE req'[r].pc = "idle"
    BY <1>1, <2>1, LeaveMoves, DoneCarries DEF Alone, Completing, Pcs
  <2>2. CASE req'[r].pc # "idle"
    <3>1. req'[r].pc = req[r].pc /\ req'[r].names = req[r].names \ {n} /\ req'[r].id = req[r].id
          /\ req'[r].size = req[r].size /\ req[r].names # {n}
      BY <1>1, <2>2, LeaveMoves
    <3>2. CASE req[r].pc = "bytes"
      BY <1>1, <3>1, <3>2 DEF Carrying, At, Alone, Completing, Pcs
    <3>3. CASE req[r].pc = "undo"
      BY <1>1, <3>1, <3>3 DEF Carrying, At, Alone, Completing, Pcs
    <3>4. CASE req[r].pc = "reject"
      BY <1>1, <3>1, <3>4 DEF Carrying, At, Alone, Completing, Pcs
    <3> QED
      BY <3>2, <3>3, <3>4
  <2> QED
    BY <2>1, <2>2
<1> QED
  BY <1>1, <1>2, LeaveMoves

LEMMA KeepBytesStay == ASSUME IInv, NEW r \in Reqs, BytesStay(r) PROVE IInv'
<1>0. /\ UNCHANGED <<row, store, intent, sweep>> /\ excused' = excused /\ excused' \subseteq Names
      /\ req[r].pc \in {"bytes", "undo", "reject"} /\ req[r].names \subseteq Names
  BY Fields DEF IInv, BytesStay, ReqType, history
<1>1. PICK n \in req[r].names : Leave(r, n)
  BY DEF BytesStay
<1>2. \A m \in req'[r].names \ excused' : req'[r].id = req[r].id /\ Knows(r, m)'
  <2> SUFFICES ASSUME NEW m \in req'[r].names \ excused' PROVE req'[r].id = req[r].id /\ Knows(r, m)'
    OBVIOUS
  <2>1. /\ m \in req[r].names /\ req'[r].pc = req[r].pc /\ req'[r].id = req[r].id /\ req'[r].size = req[r].size
    BY <1>0, <1>1, LeaveIdles
  <2>2. Knows(r, m)
    BY <1>0, <2>1, AtPath
  <2> QED
    BY <1>0, <2>1, <2>2 DEF Knows, Pending
<1> QED
  BY <1>0, <1>1, <1>2, LeaveIdles, Idles

\* A request that writes bytes at a path.
LEMMA Storing ==
  ASSUME IInv, NEW r \in Reqs, NEW p \in req[r].names, UNCHANGED <<row, intent, sweep, excused>>,
         store' \in [Names -> BytesType], \A n \in Names \ {p} : store'[n] = store[n],
         req' \in [Reqs -> ReqType], \A q \in Reqs \ {r} : req'[q] = req[q],
         Carrying(r)', req'[r].names \subseteq req[r].names,
         \A n \in req'[r].names \ excused : req'[r].id = req[r].id /\ Knows(r, n)',
         req[r].pc # "write",
         p \notin excused /\ row[p] # None => /\ store'[p].size # None
                                                /\ At(r, "write")' /\ req'[r].names = {p}
  PROVE  IInv'
<1>1. Base'
  BY Fields, BaseStays DEF IInv
<1> SUFFICES ASSUME NEW n \in Names \ excused PROVE Safe(n)'
  BY <1>1 DEF IInv
<1>2. Base /\ Safe(n)
  BY DEF IInv
<1>3. CASE n \in req[r].names
  <2>1. \A i \in Ids : Claims(i, n)' => Claims(i, n)
    BY DEF Claims, Pending
  <2>2. Foretold(n)'
    BY <1>2 DEF Foretold, Pending, Safe, Known
  <2>3. Described(n)'
    <3>1. CASE n = p
      BY <3>1 DEF Described, HasBytes
    <3>2. CASE n # p
      <4>1. store'[n] = store[n] /\ \A q \in Reqs : At(q, "write") /\ req[q].names = {n} => req'[q] = req[q]
        BY <3>2 DEF At
      <4> QED
        BY <1>2, <4>1 DEF Described, HasBytes, Safe, At
    <3> QED
      BY <3>1, <3>2
  <2> QED
    BY <1>2, <1>3, <2>1, <2>2, <2>3, Here
<1>4. CASE n \notin req[r].names
  BY <1>2, <1>4, Elsewhere
<1> QED
  BY <1>3, <1>4

LEMMA KeepPut == ASSUME IInv, NEW r \in Reqs, Put(r) PROVE IInv'
<1>0. /\ UNCHANGED <<row, intent, sweep, excused>> /\ req[r].pc = "put" /\ Base
      /\ Goto(r, "write") /\ "write" \in Pcs /\ PutBytes(Path(r), req[r].size)
  BY DEF IInv, Put, Pcs, At
<1>1. Path(r) \in Names /\ req[r].names = {Path(r)} /\ req[r].size \in 0..MaxSize /\ req[r].size # None
  BY <1>0, PathOf DEF Alone, Pcs, Sizes, None
<1>2. /\ store' \in [Names -> BytesType] /\ store'[Path(r)].size = req[r].size
      /\ \A m \in Names \ {Path(r)} : store'[m] = store[m]
  BY <1>0, <1>1, PutMoves
<1>3. Carrying(r)'
  BY <1>0, GotoMoves, CarriesOn DEF Alone, Completing, Pcs
<1>4. /\ req' \in [Reqs -> ReqType] /\ \A q \in Reqs \ {r} : req'[q] = req[q]
      /\ req'[r].names = req[r].names /\ req'[r].id = req[r].id /\ req'[r].size = req[r].size
      /\ req'[r].pc = "write"
  BY <1>0, GotoMoves
<1>5. \A n \in req'[r].names : Knows(r, n)'
  BY <1>1, <1>2, <1>4 DEF Knows, Completing
<1>6. At(r, "write")'
  BY <1>4 DEF At
<1> QED
  BY <1>0, <1>1, <1>2, <1>3, <1>4, <1>5, <1>6, Storing

\* A request that drops bytes no row describes.
LEMMA Dropping ==
  ASSUME IInv, NEW r \in Reqs, NEW p \in req[r].names, DropBytes(p), Done(r) \/ Leave(r, p),
         UNCHANGED <<row, intent, sweep, excused>>, req[r].pc \in {"undo", "bytes", "reject"}
  PROVE  IInv'
<1>0. Base /\ p \in Names
  BY AtPath DEF IInv
<1>1. /\ store' \in [Names -> BytesType]
      /\ \A m \in Names \ {p} : store'[m] = store[m]
  BY <1>0, DropMoves
<1>2. /\ req' \in [Reqs -> ReqType] /\ \A q \in Reqs \ {r} : req'[q] = req[q]
      /\ Carrying(r)' /\ req'[r].names \subseteq req[r].names
      /\ req'[r].names # {} => req'[r].pc = req[r].pc /\ req'[r].id = req[r].id /\ req'[r].size = req[r].size
  <2>1. CASE Done(r)
    BY <1>0, <2>1, DoneMoves, DoneCarries
  <2>2. CASE Leave(r, p)
    BY <1>0, <2>2, LeaveIdles
  <2> QED
    BY <2>1, <2>2
<1>3. \A n \in req[r].names \ excused : Knows(r, n)
  BY AtPath
<1>4. \A n \in req'[r].names \ excused : req'[r].id = req[r].id /\ Knows(r, n)'
  BY <1>2, <1>3 DEF Knows, Completing, Pending
<1>5. p \notin excused => row[p] = None
  BY <1>3 DEF Knows, Completing
<1> QED
  BY <1>1, <1>2, <1>4, <1>5, Storing

LEMMA KeepDrops == ASSUME IInv, NEW r \in Reqs, Undo(r) \/ Reject(r) \/ DeleteBytes(r) PROVE IInv'
<1>1. CASE Undo(r) \/ Reject(r)
  <2>1. Base /\ req[r].pc \in {"undo", "reject"} /\ DropBytes(Path(r)) /\ Done(r) /\ UNCHANGED <<row, intent, sweep, excused>>
    BY <1>1 DEF Undo, Reject, At, IInv
  <2>2. Path(r) \in req[r].names
    BY <2>1, PathOf DEF Alone, Pcs
  <2> QED
    BY <2>1, <2>2, Dropping
<1>2. CASE DeleteBytes(r)
  <2>1. req[r].pc = "bytes" /\ UNCHANGED <<row, intent, sweep, excused>>
    BY <1>2 DEF DeleteBytes, At
  <2>2. PICK n \in req[r].names : DropBytes(n) /\ Leave(r, n)
    BY <1>2 DEF DeleteBytes
  <2> QED
    BY <2>1, <2>2, Dropping
<1> QED
  BY <1>1, <1>2

LEMMA KeepWrite == ASSUME IInv, NEW r \in Reqs, Write(r) PROVE IInv'
<1> DEFINE p == Path(r)
<1>0. /\ UNCHANGED <<store, intent, sweep, excused>> /\ req[r].pc = "write" /\ Base
      /\ Done(r) /\ SetRow(p, req[r].size)
  BY DEF IInv, Write, At
<1>1. p \in Names /\ req[r].names = {p} /\ req[r].size \in 0..MaxSize /\ req[r].size # None
  BY <1>0, PathOf DEF Alone, Pcs, Sizes, None
<1>2. /\ row' \in [Names -> 0..MaxSize] /\ row'[p] = req[r].size
      /\ \A m \in Names \ {p} : row'[m] = row[m]
  BY <1>0, <1>1, SetRowMoves
<1>3. /\ req' \in [Reqs -> ReqType] /\ \A q \in Reqs \ {r} : req'[q] = req[q]
      /\ req'[r].names = {} /\ Carrying(r)'
  BY <1>0, DoneMoves, DoneCarries
<1> HIDE DEF p
<1>4. Base'
  BY <1>0, <1>2, <1>3, Fields, BaseStays
<1> SUFFICES ASSUME NEW n \in Names \ excused PROVE Safe(n)'
  BY <1>0, <1>4 DEF IInv
<1>5. Safe(n)
  BY DEF IInv
<1>6. CASE n = p
  <2>1. store[n].size = req[r].size
    BY <1>0, <1>1, <1>6, AtPath DEF Knows
  <2>2. \A i \in Ids : ~Claims(i, n)
    <3>1. req[r].id = None
      BY <1>0 DEF Base, Carrying, Completing
    <3> QED
      BY <1>0, <1>1, <1>5, <1>6, <3>1, OnlyOneThere, Fields
  <2>3. Foretold(n)'
    BY <1>0, <2>2 DEF Foretold, Claims, Pending, Base, Standing
  <2>4. \A i \in Ids : ~Claims(i, n)'
    BY <1>0, <2>2 DEF Claims, Pending
  <2>5. Described(n)'
    BY <1>0, <1>1, <1>2, <1>6, <2>1 DEF Described, HasBytes
  <2> QED
    BY <1>0, <1>1, <1>3, <1>5, <1>6, <2>3, <2>4, <2>5, Here
<1>7. CASE n # p
  BY <1>0, <1>1, <1>2, <1>3, <1>5, <1>7, Elsewhere
<1> QED
  BY <1>6, <1>7

LEMMA KeepDeleteRows == ASSUME IInv, NEW r \in Reqs, DeleteRows(r) PROVE IInv'
<1> DEFINE gone == {n \in req[r].names : row[n] # None}
<1>0. /\ UNCHANGED <<store, intent, sweep, excused>> /\ req[r].pc = "delete" /\ Base /\ gone \subseteq Names
      /\ row' = [n \in Names |-> IF n \in gone THEN None ELSE row[n]]
      /\ IF gone = {} THEN Done(r)
         ELSE req' = [req EXCEPT ![r].pc = "bytes", ![r].names = gone]
  BY Fields DEF IInv, DeleteRows, At, ReqType
<1>1. row' \in [Names -> 0..MaxSize]
  BY <1>0, Fields DEF None
<1>2. /\ req' \in [Reqs -> ReqType] /\ \A q \in Reqs \ {r} : req'[q] = req[q]
      /\ req'[r].names \subseteq gone /\ Carrying(r)'
      /\ req'[r].names # {} => req'[r].pc = "bytes" /\ req'[r].id = req[r].id
  <2>1. CASE gone = {}
    BY <1>0, <2>1, DoneMoves, DoneCarries
  <2>2. CASE gone # {}
    <3>1. req \in [Reqs -> ReqType]
      BY <1>0, Fields
    <3>2. [req[r] EXCEPT !.pc = "bytes", !.names = gone] \in ReqType
      BY <1>0, <3>1 DEF ReqType, Pcs
    <3>3. req' = [req EXCEPT ![r] = [req[r] EXCEPT !.pc = "bytes", !.names = gone]]
      BY <1>0, <2>2
    <3>4. /\ req' \in [Reqs -> ReqType] /\ \A q \in Reqs \ {r} : req'[q] = req[q]
          /\ req'[r].pc = "bytes" /\ req'[r].names = gone /\ req'[r].id = req[r].id
      BY <3>1, <3>2, <3>3 DEF ReqType
    <3>5. req[r].id = None
      BY <1>0 DEF Base, Carrying, Completing
    <3> QED
      BY <3>4, <3>5 DEF Carrying, At, Alone, Completing
  <2> QED
    BY <2>1, <2>2
<1>3. Base'
  BY <1>0, <1>1, <1>2, Fields, BaseStays
<1> SUFFICES ASSUME NEW n \in Names \ excused PROVE Safe(n)'
  BY <1>0, <1>3 DEF IInv
<1>4. Safe(n)
  BY DEF IInv
<1>5. CASE n \in req[r].names
  <2>1. row'[n] = None
    BY <1>0, <1>5
  <2>2. \A i \in Ids : ~Claims(i, n)
    <3>1. req[r].id = None
      BY <1>0 DEF Base, Carrying, Completing
    <3> QED
      BY <1>0, <1>4, <1>5, <3>1, OnlyOneThere, Fields
  <2>3. Foretold(n)'
    BY <1>0, <2>2 DEF Foretold, Claims, Pending, Base, Standing
  <2>4. \A i \in Ids : ~Claims(i, n)'
    BY <1>0, <2>2 DEF Claims, Pending
  <2>5. Described(n)'
    BY <2>1 DEF Described
  <2>6. n \in req'[r].names => Knows(r, n)'
    BY <1>2, <2>1 DEF Knows, Completing
  <2> QED
    BY <1>0, <1>2, <1>4, <1>5, <2>3, <2>4, <2>5, <2>6, Here
<1>6. CASE n \notin req[r].names
  <2>1. row'[n] = row[n] /\ n \notin req'[r].names
    BY <1>0, <1>2, <1>6
  <2> QED
    BY <1>0, <1>2, <1>4, <1>6, <2>1, Elsewhere
<1> QED
  BY <1>5, <1>6

\* When intents change, each becomes one of a few things.
LEMMA BaseMoves ==
  ASSUME Base, row' \in [Names -> 0..MaxSize], store' \in [Names -> BytesType],
         intent' \in [Ids -> IntentType], req' \in [Reqs -> ReqType], excused' \subseteq Names, sweep' = sweep,
         \A q \in Reqs : req'[q] = req[q] \/ Carrying(q)',
         NEW i \in Ids, \A j \in Ids \ {i} : intent'[j] = intent[j], Standing(i)',
         \/ Free(i)
         \/ intent'[i] = NoIntent
         \/ intent'[i].name = intent[i].name /\ intent'[i].url = intent[i].url
         \/ intent'[i].name = intent[i].name /\ intent'[i].url = "late"
  PROVE  Base'
<1>1. Typed'
  BY Fields DEF Typed
<1>2. \A q \in Reqs : Carrying(q)'
  <2> SUFFICES ASSUME NEW q \in Reqs, req'[q] = req[q] PROVE Carrying(q)'
    OBVIOUS
  <2>1. Carrying(q) /\ req'[q] = req[q]
    BY DEF Base
  <2>2. CASE req[q].pc \in Completing
    <3>1. req[q].id \in Ids
      BY <2>1, <2>2 DEF Carrying
    <3>2. intent'[req[q].id].at = "none" \/ intent'[req[q].id].name \in req[q].names
      <4>1. CASE req[q].id # i
        BY <2>1, <2>2, <3>1, <4>1 DEF Carrying
      <4>2. CASE req[q].id = i
        <5>1. ~Free(i)
          BY <4>2 DEF Free
        <5>2. intent[i] = NoIntent => intent[i].at = "none"
          BY DEF NoIntent
        <5>3. intent[i].at = "none" => intent[i] = NoIntent
          BY DEF Base, Standing
        <5>4. CASE intent'[i].name = intent[i].name /\ intent[i].at = "none"
          <6>1. intent'[i].name = None
            BY <5>3, <5>4, NoIntentType
          <6>2. intent'[i].at = "none"
            BY <6>1, Fields DEF Standing
          <6> QED
            BY <4>2, <6>2
        <5> QED
          BY <2>1, <2>2, <4>2, <5>1, <5>4, NoIntentType DEF Carrying
      <4> QED
        BY <4>1, <4>2
    <3> QED
      BY <2>1, <2>2, <3>1, <3>2 DEF Carrying, At
  <2>3. CASE req[q].pc \notin Completing
    BY <2>1, <2>3 DEF Carrying, At
  <2> QED
    BY <2>2, <2>3
<1>3. \A j \in Ids : Standing(j)'
  BY DEF Base, Standing
<1>4. Working'
  <2>1. \A late \in sweep.late : late[1] \in Ids /\ (intent[late[1]] = NoIntent \/ (intent[late[1]].url = "late" /\ intent[late[1]].name = late[2]))
    BY Fields DEF Base, Working, SweepType
  <2>2. \A late \in sweep.late : intent'[late[1]] = NoIntent \/ (intent'[late[1]].url = "late" /\ intent'[late[1]].name = late[2])
    <3> SUFFICES ASSUME NEW late \in sweep.late, late[1] = i
                 PROVE  intent'[i] = NoIntent \/ (intent'[i].url = "late" /\ intent'[i].name = late[2])
      BY <2>1
    <3>1. ~Free(i)
      BY DEF Free
    <3>2. CASE intent[i] = NoIntent /\ intent'[i].name = intent[i].name
      <4>1. intent'[i].name = None
        BY <3>2, NoIntentType
      <4> QED
        BY <4>1, Fields DEF Standing
    <3> QED
      BY <2>1, <3>1, <3>2
  <2>3. sweep.pc = "forget" => sweep.id \in Ids /\ intent'[sweep.id].url # "live"
    <3>1. sweep.pc = "forget" => sweep.id \in Ids /\ intent[sweep.id].url # "live"
      BY DEF Base, Working
    <3>2. sweep.id = i => ~Free(i)
      BY DEF Free
    <3> QED
      BY <3>1, <3>2, NoIntentType
  <2> QED
    BY <2>2, <2>3 DEF Base, Working
<1> QED
  BY <1>1, <1>2, <1>3, <1>4 DEF Base

LEMMA KeepFinalise == ASSUME IInv, NEW r \in Reqs, Finalise(r) PROVE IInv'
<1> DEFINE p == Path(r)
<1>0. /\ UNCHANGED <<store, sweep, excused>> /\ req[r].pc = "finalise" /\ Base
      /\ Done(r) /\ SetRow(p, req[r].size) /\ intent' = Ended(req[r].id)
  BY DEF IInv, Finalise, At
<1>1. p \in Names /\ req[r].names = {p} /\ req[r].size \in 0..MaxSize /\ req[r].size # None
  BY <1>0, PathOf DEF Alone, Pcs, Sizes, None
<1>2. /\ row' \in [Names -> 0..MaxSize] /\ row'[p] = req[r].size
      /\ \A m \in Names \ {p} : row'[m] = row[m]
  BY <1>0, <1>1, SetRowMoves
<1>3. /\ req' \in [Reqs -> ReqType] /\ \A q \in Reqs \ {r} : req'[q] = req[q]
      /\ req'[r].names = {} /\ Carrying(r)'
  BY <1>0, DoneMoves, DoneCarries
<1>d. req[r].id \in Ids /\ (intent[req[r].id].at = "none" \/ intent[req[r].id].name = p)
  BY <1>0, <1>1 DEF Base, Carrying, Completing
<1>i. PICK i \in Ids : i = req[r].id
  BY <1>d
<1>4. (intent[i].at = "none" \/ intent[i].name = p) /\ Standing(i)
  BY <1>0, <1>d, <1>i DEF Base
<1> HIDE DEF p
<1>5. /\ intent' \in [Ids -> IntentType]
      /\ \A j \in Ids \ {i} : intent'[j] = intent[j]
      /\ \/ intent'[i] = NoIntent
         \/ /\ intent[i].url = "live" /\ intent'[i].at = "gone" /\ intent'[i].url = "live"
            /\ intent'[i].name = intent[i].name /\ intent'[i].size = intent[i].size
  BY <1>0, <1>i, EndedMoves
<1>6. intent[i].url = "live" => intent[i].at # "none"
  BY <1>4, NoIntentType DEF Standing
<1>7. Standing(i)'
  BY <1>4, <1>5, <1>6, NoIntentType DEF Standing
<1>8. Base'
  BY <1>0, <1>2, <1>3, <1>4, <1>5, <1>7, Fields, BaseMoves
<1> SUFFICES ASSUME NEW n \in Names \ excused PROVE Safe(n)'
  BY <1>0, <1>8 DEF IInv
<1>9. Safe(n)
  BY DEF IInv
<1>10. CASE n = p
  <2>1. Knows(r, n)
    BY <1>1, <1>10, AtPath
  <2>2. store[n].size = req[r].size /\ intent[i].size = req[r].size /\ intent[i].name = n
    BY <1>0, <1>i, <2>1 DEF Knows, Completing
  <2>3. \A j \in Ids : Claims(j, n) => j = i
    BY <1>0, <1>1, <1>i, <1>9, <1>10, OnlyOneThere
  <2>4. \A j \in Ids : /\ Claims(j, n)' => Claims(j, n)
                       /\ intent'[j].name = n => intent[j].name = n
    BY <1>5, <2>2, NoIntentType DEF Claims, Pending
  <2>5. Foretold(n)'
    <3> SUFFICES ASSUME NEW j \in Ids, intent'[j].name = n
                 PROVE  /\ intent'[j].at # "kept"
                        /\ intent'[j].at = "gone" => row'[n] = intent'[j].size
      BY DEF Foretold, Pending
    <3>1. CASE j # i
      <4>1. intent'[j] = intent[j] /\ ~Claims(j, n) /\ Standing(j)
        BY <1>0, <1>5, <2>3, <3>1 DEF Base
      <4> QED
        BY <4>1 DEF Claims, Pending, Standing
    <3>2. CASE j = i
      BY <1>2, <1>5, <1>10, <2>2, <3>2, NoIntentType
    <3> QED
      BY <3>1, <3>2
  <2>6. Described(n)'
    BY <1>0, <1>1, <1>2, <1>10, <2>2 DEF Described, HasBytes
  <2> QED
    BY <1>0, <1>1, <1>3, <1>9, <1>10, <2>4, <2>5, <2>6, Here
<1>11. CASE n # p
  <2>1. \A j \in Ids : intent[j].name = n \/ intent'[j].name = n => intent'[j] = intent[j]
    <3>1. intent[i].name # n /\ None # n
      BY <1>0, <1>4, <1>11, NoIntentType, Fields DEF Standing
    <3> QED
      BY <1>5, <3>1, NoIntentType
  <2> QED
    BY <1>0, <1>1, <1>2, <1>3, <1>9, <1>11, <2>1, Elsewhere
<1> QED
  BY <1>10, <1>11

LEMMA KeepIntend == ASSUME IInv, NEW r \in Reqs, Intend(r) PROVE IInv'
<1> DEFINE p == Path(r)
<1>0. UNCHANGED <<row, store, sweep, excused>> /\ req[r].pc = "intend" /\ Base /\ Done(r)
  BY DEF IInv, Intend, At, history
<1>1. PICK i \in Ids : Free(i) /\ intent' = [intent EXCEPT ![i] = [at |-> "kept", name |-> p, size |-> req[r].size, url |-> "live"]]
  BY DEF Intend
<1>2. p \in Names /\ req[r].names = {p} /\ req[r].size \in Sizes
  BY <1>0, PathOf DEF Alone, Pcs
<1>3. /\ req' \in [Reqs -> ReqType] /\ \A q \in Reqs \ {r} : req'[q] = req[q]
      /\ req'[r].names = {} /\ Carrying(r)'
  BY <1>0, DoneMoves, DoneCarries
<1> HIDE DEF p
<1>4. /\ intent' \in [Ids -> IntentType] /\ \A j \in Ids \ {i} : intent'[j] = intent[j]
      /\ intent'[i].at = "kept" /\ intent'[i].name = p /\ intent'[i].size = req[r].size /\ intent'[i].url = "live"
  <2>1. [at |-> "kept", name |-> p, size |-> req[r].size, url |-> "live"] \in IntentType
    BY <1>2 DEF IntentType, Sizes
  <2> QED
    BY <1>0, <1>1, <2>1, Fields
<1>5. Base'
  <2>1. Standing(i)'
    BY <1>2, <1>4 DEF Standing
  <2> QED
    BY <1>0, <1>1, <1>3, <1>4, <2>1, Fields, BaseMoves
<1> SUFFICES ASSUME NEW n \in Names \ excused PROVE Safe(n)'
  BY <1>0, <1>5 DEF IInv
<1>6. Safe(n)
  BY DEF IInv
<1>7. CASE n = p
  <2>1. row[n] = None
    BY <1>0, <1>2, <1>7, AtPath DEF Knows
  <2>2. \A j \in Ids : ~Claims(j, n)
    <3>1. req[r].id = None
      BY <1>0 DEF Base, Carrying, Completing
    <3> QED
      BY <1>0, <1>2, <1>6, <1>7, <3>1, OnlyOneThere, Fields
  <2>3. \A j \in Ids : Claims(j, n)' => j = i
    BY <1>4, <2>2 DEF Claims, Pending
  <2>4. \A q \in Reqs : n \notin req'[q].names
    BY <1>0, <1>2, <1>3, <1>6, <1>7, OnlyOneThere
  <2>5. ~sweep.listed[n].old /\ n \notin sweep.todo /\ \A j \in Ids : <<j, n>> \notin sweep.late
    BY <1>0, <1>2, <1>6, <1>7, OnlyOneThere
  <2>6. Owned(n)'
    BY <1>0, <2>3, <2>4, <2>5 DEF Owned, On
  <2>7. Foretold(n)'
    BY <1>0, <1>4, <2>1, <2>2 DEF Foretold, Claims, Pending, Base, Standing
  <2>8. Swept(n)'
    BY <1>0, <2>5 DEF Swept
  <2> QED
    BY <1>0, <2>1, <2>4, <2>6, <2>7, <2>8 DEF Safe, Known, Described
<1>8. CASE n # p
  <2>1. intent[i].name # n
    BY <1>0, <1>1, NoIntentType, Fields DEF Free, Base, Standing
  <2>2. \A j \in Ids : intent[j].name = n \/ intent'[j].name = n => intent'[j] = intent[j]
    BY <1>4, <1>8, <2>1
  <2> QED
    BY <1>0, <1>2, <1>3, <1>6, <1>8, <2>2, Elsewhere
<1> QED
  BY <1>7, <1>8

\* A request begins.  On a path it does not contend nobody else is at work.
LEMMA Begins ==
  ASSUME IInv, NEW r \in Reqs, NEW q \in ReqType, Begin(r, q),
         q.pc \in {"prepare", "delete", "probe", "head"},
         q.pc # "delete" => q.size \in Sizes /\ \E n \in Names : q.names = {n},
         IF q.pc = "head"
         THEN /\ q.id \in Ids /\ Pending(q.id) /\ intent[q.id].url = "live"
              /\ q.names = {intent[q.id].name} /\ q.size = intent[q.id].size
         ELSE q.id = None
  PROVE  IInv'
<1>0. /\ UNCHANGED <<row, store, intent, sweep>> /\ At(r, "idle") /\ Base /\ q.names \subseteq Names
      /\ excused' = excused \cup {n \in q.names : Busy(n, r, q.id)}
      /\ req' = [req EXCEPT ![r] = q]
  BY DEF Begin, IInv, ReqType
<1>1. req' \in [Reqs -> ReqType] /\ req'[r] = q /\ \A s \in Reqs \ {r} : req'[s] = req[s]
  BY <1>0, Fields
<1>2. excused' \subseteq Names /\ excused \subseteq excused'
  BY <1>0, Fields
<1>3. req[r].names = {}
  BY <1>0 DEF Base, Carrying
<1>4. Carrying(r)'
  BY <1>0, <1>1 DEF Carrying, At, Alone, Completing
<1>5. Base'
  BY <1>0, <1>1, <1>2, <1>4, Fields, BaseStays
<1> SUFFICES ASSUME NEW n \in Names \ excused' PROVE Safe(n)'
  BY <1>5 DEF IInv
<1>6. Safe(n)
  BY <1>2 DEF IInv
<1>7. CASE n \notin q.names
  BY <1>0, <1>1, <1>3, <1>6, <1>7, Elsewhere
<1>8. CASE n \in q.names
  <2>0. ~Busy(n, r, q.id)
    BY <1>0, <1>8
  <2>1. \A s \in Reqs : n \in req'[s].names => s = r
    BY <1>1, <2>0 DEF Busy
  <2>2. \A i \in Ids : Claims(i, n) => i = q.id
    BY <2>0 DEF Busy, Claims
  <2>3. ~sweep.listed[n].old
    BY <1>0, <2>0 DEF Busy, Base, Working
  <2>4. \A i \in Ids : Pending(i) /\ intent[i].name = n => intent[i].url = "live"
    <3> SUFFICES ASSUME NEW i \in Ids, Pending(i), intent[i].name = n PROVE intent[i].url = "live"
      OBVIOUS
    <3>1. i = q.id /\ i # None
      BY <1>0, <2>2, Fields DEF Claims
    <3> QED
      BY <3>1
  <2>5. \A i \in Ids : <<i, n>> \notin sweep.late
    <3> SUFFICES ASSUME NEW i \in Ids, <<i, n>> \in sweep.late PROVE FALSE
      OBVIOUS
    <3>1. Pending(i) /\ intent[i].name = n
      BY <1>6 DEF Safe, Owned, Claims
    <3>2. intent[i] = NoIntent \/ intent[i].url = "late"
      BY <1>0 DEF Base, Working
    <3> QED
      BY <2>4, <3>1, <3>2, NoIntentType DEF Pending
  <2>6. Sweeping("forget") => intent[sweep.id].name # n
    <3> SUFFICES ASSUME Sweeping("forget"), intent[sweep.id].name = n PROVE FALSE
      OBVIOUS
    <3>1. sweep.id \in Ids /\ intent[sweep.id].url # "live"
      BY <1>0 DEF Base, Working, Sweeping
    <3>2. Pending(sweep.id)
      <4>1. intent[sweep.id].at # "none"
        BY <1>0, <3>1, NoIntentType, Fields DEF Base, Standing
      <4> QED
        BY <1>0, <3>1, <4>1, Fields DEF Base, Standing, Pending, IntentType
    <3> QED
      BY <2>4, <3>1, <3>2
  <2>7. \A i \in Ids : Claims(i, n)' = Claims(i, n) /\ Pending(i)' = Pending(i)
    BY <1>0 DEF Claims, Pending
  <2>8. Owned(n)'
    BY <1>0, <1>1, <2>1, <2>2, <2>3, <2>5, <2>6, <2>7 DEF Owned, Sweeping
  <2>9. Knows(r, n)'
    <3>1. q.pc = "head" => /\ intent[q.id].name = n /\ row[n] = None
      BY <1>6, <1>8 DEF Safe, Known, Foretold
    <3> QED
      BY <1>0, <1>1, <2>7, <3>1 DEF Knows, Completing, Pending
  <2>10. Foretold(n)' /\ Swept(n)'
    BY <1>0, <1>6 DEF Safe, Known, Foretold, Swept, Pending, Sweeping
  <2>11. Described(n)'
    <3>1. \A s \in Reqs : ~(At(s, "write") /\ req[s].names = {n})
      BY <1>0, <1>1, <1>3, <2>1
    <3> QED
      BY <1>0, <1>6, <3>1 DEF Safe, Described, HasBytes
  <2> QED
    BY <2>1, <2>8, <2>9, <2>10, <2>11 DEF Safe, Known
<1> QED
  BY <1>7, <1>8

LEMMA KeepCall == ASSUME IInv, NEW r \in Reqs, Call(r) PROVE IInv'
<1>0. Base /\ \A s \in Sizes : s \in 0..MaxSize
  BY DEF IInv, Sizes
<1>1. CASE Upload(r)
  <2>1. PICK n \in Names, s \in Sizes : Begin(r, [NoReq EXCEPT !.pc = "prepare", !.names = {n}, !.size = s])
    BY <1>1 DEF Upload
  <2> DEFINE q == [NoReq EXCEPT !.pc = "prepare", !.names = {n}, !.size = s]
  <2>2. q \in ReqType /\ q.pc = "prepare" /\ q.names = {n} /\ q.size = s /\ q.id = None
    BY <1>0, NoReqType DEF ReqType, Pcs
  <2> HIDE DEF q
  <2>3. Begin(r, q)
    BY <2>1 DEF q
  <2> QED
    BY <2>2, <2>3, Begins
<1>2. CASE Remove(r)
  <2>1. PICK ns \in SUBSET Names : Begin(r, [NoReq EXCEPT !.pc = "delete", !.names = ns])
    BY <1>2 DEF Remove
  <2> DEFINE q == [NoReq EXCEPT !.pc = "delete", !.names = ns]
  <2>2. q \in ReqType /\ q.pc = "delete" /\ q.names = ns /\ q.id = None
    BY <1>0, NoReqType DEF ReqType, Pcs
  <2> HIDE DEF q
  <2>3. Begin(r, q)
    BY <2>1 DEF q
  <2> QED
    BY <2>2, <2>3, Begins
<1>3. CASE Sign(r)
  <2>1. PICK n \in Names, s \in Sizes : Begin(r, [NoReq EXCEPT !.pc = "probe", !.names = {n}, !.size = s])
    BY <1>3 DEF Sign
  <2> DEFINE q == [NoReq EXCEPT !.pc = "probe", !.names = {n}, !.size = s]
  <2>2. q \in ReqType /\ q.pc = "probe" /\ q.names = {n} /\ q.size = s /\ q.id = None
    BY <1>0, NoReqType DEF ReqType, Pcs
  <2> HIDE DEF q
  <2>3. Begin(r, q)
    BY <2>1 DEF q
  <2> QED
    BY <2>2, <2>3, Begins
<1>4. CASE Complete(r)
  <2>1. PICK i \in Ids : /\ Pending(i) /\ intent[i].url = "live"
                         /\ Begin(r, [NoReq EXCEPT !.pc = "head", !.names = {intent[i].name},
                                                   !.size = intent[i].size, !.id = i])
    BY <1>4 DEF Complete
  <2> DEFINE q == [NoReq EXCEPT !.pc = "head", !.names = {intent[i].name}, !.size = intent[i].size, !.id = i]
  <2>2. intent[i].name \in Names /\ intent[i].size \in Sizes
    BY <1>0, <2>1 DEF Base, Standing, Pending
  <2>3. /\ q \in ReqType /\ q.pc = "head" /\ q.names = {intent[i].name} /\ q.size = intent[i].size
        /\ q.id = i
    BY <1>0, <2>2, NoReqType DEF ReqType, Pcs
  <2> HIDE DEF q
  <2>4. Begin(r, q)
    BY <2>1 DEF q
  <2> QED
    BY <2>1, <2>2, <2>3, <2>4, Begins
<1> QED
  BY <1>1, <1>2, <1>3, <1>4 DEF Call

-----------------------------------------------------------------------------
(* URLs. *)

LEMMA KeepDirect == ASSUME IInv, NEW i \in Ids, Direct(i) PROVE IInv'
<1> DEFINE p == intent[i].name
<1>0. /\ UNCHANGED <<row, req, intent, sweep, excused>> /\ Base /\ intent[i].url = "live"
      /\ PutBytes(p, intent[i].size)
  BY DEF IInv, Direct
<1>1. p \in Names /\ intent[i].size \in Sizes /\ intent[i].size \in 0..MaxSize /\ intent[i].size # None
  <2>1. intent[i].at # "none"
    BY <1>0, NoIntentType DEF Base, Standing
  <2> QED
    BY <1>0, <2>1 DEF Base, Standing, Sizes, None
<1> HIDE DEF p
<1>2. /\ store' \in [Names -> BytesType] /\ store'[p].size = intent[i].size
      /\ \A m \in Names \ {p} : store'[m] = store[m]
  BY <1>0, <1>1, PutMoves
<1>3. Base'
  <2>1. Typed'
    BY <1>0, <1>2, Fields DEF Typed
  <2> QED
    BY <1>0, <2>1 DEF Base, Carrying, At, Standing, Working
<1> SUFFICES ASSUME NEW n \in Names \ excused PROVE Safe(n)'
  BY <1>0, <1>3 DEF IInv
<1>4. Safe(n)
  BY DEF IInv
<1>5. Owned(n)' /\ Foretold(n)' /\ Swept(n)'
  BY <1>0, <1>4 DEF Safe, Owned, Known, Foretold, Swept, Claims, Pending, On, Sweeping
<1>6. CASE n # p
  BY <1>0, <1>2, <1>4, <1>5, <1>6 DEF Safe, Known, Knows, Described, HasBytes, At, Pending
<1>7. CASE n = p
  <2>1. Claims(i, n)
    BY <1>0, <1>7 DEF Claims, p
  <2>2. \A r \in Reqs : n \in req[r].names => req[r].id = i
    BY <1>4, <2>1 DEF Safe, Owned
  <2>3. \A r \in Reqs : n \in req[r].names => Knows(r, n)'
    <3> SUFFICES ASSUME NEW r \in Reqs, n \in req[r].names PROVE Knows(r, n)'
      OBVIOUS
    <3>1. Knows(r, n) /\ req[r].id = i /\ req[r].pc \in Completing
      <4>1. Carrying(r) /\ i # None
        BY <1>0, Fields DEF Base
      <4> QED
        BY <1>4, <2>2, <4>1 DEF Safe, Known, Carrying
    <3> QED
      BY <1>0, <1>2, <1>7, <3>1 DEF Knows, Pending
  <2>4. Described(n)'
    <3>1. row[n] # None => row[n] = intent[i].size
      <4>1. intent[i].at \in {"kept", "gone"} /\ intent[i].name = n
        BY <1>0, <1>7, NoIntentType, Fields DEF Base, Standing, IntentType, p
      <4> QED
        BY <1>4, <4>1 DEF Safe, Known, Foretold, Pending
    <3> QED
      BY <1>0, <1>1, <1>2, <1>7, <3>1 DEF Described, HasBytes
  <2> QED
    BY <1>0, <1>5, <2>3, <2>4 DEF Safe, Known
<1> QED
  BY <1>6, <1>7

LEMMA KeepExpire == ASSUME IInv, NEW i \in Ids, Expire(i) PROVE IInv'
<1>0. /\ UNCHANGED <<row, store, req, sweep, excused>> /\ Base /\ intent[i].url = "live"
      /\ intent' = IF Pending(i) THEN [intent EXCEPT ![i].url = "late"] ELSE [intent EXCEPT ![i] = NoIntent]
  BY DEF IInv, Expire, history
<1>1. /\ intent' \in [Ids -> IntentType] /\ \A j \in Ids \ {i} : intent'[j] = intent[j]
      /\ IF Pending(i)
         THEN /\ intent'[i].at = "kept" /\ intent'[i].name = intent[i].name
              /\ intent'[i].size = intent[i].size /\ intent'[i].url = "late"
         ELSE intent'[i] = NoIntent
  <2>1. CASE Pending(i)
    <3>1. intent' = [intent EXCEPT ![i] = [intent[i] EXCEPT !.url = "late"]]
      BY <1>0, <2>1
    <3>2. [intent[i] EXCEPT !.url = "late"] \in IntentType
      BY <1>0, Fields DEF IntentType
    <3> QED
      BY <1>0, <2>1, <3>1, <3>2, Fields DEF IntentType, Pending
  <2>2. CASE ~Pending(i)
    BY <1>0, <2>2, Fields, NoIntentType
  <2> QED
    BY <2>1, <2>2
<1>2. Base'
  <2>1. Standing(i)'
    BY <1>0, <1>1, NoIntentType DEF Base, Standing, Pending
  <2> QED
    BY <1>0, <1>1, <2>1, Fields, BaseMoves
<1> SUFFICES ASSUME NEW n \in Names \ excused PROVE Safe(n)'
  BY <1>0, <1>2 DEF IInv
<1>3. Safe(n) /\ None # n
  BY Fields DEF IInv
<1>4. \A j \in Ids : /\ Claims(j, n)' => Claims(j, n)
                     /\ Pending(j)' = Pending(j)
                     /\ Pending(j) => intent'[j].name = intent[j].name /\ intent'[j].size = intent[j].size
                     /\ intent'[j].name = n => intent[j].name = n
                     /\ intent'[j].at = "gone" => intent'[j] = intent[j]
  BY <1>0, <1>1, <1>3, NoIntentType DEF Claims, Pending
<1>5. Owned(n)'
  <2>1. \A j \in Ids : <<j, n>> \in sweep.late => Claims(j, n)' /\ Pending(j)'
    BY <1>3, <1>4 DEF Safe, Owned, Claims
  <2>2. Sweeping("forget") => sweep.id \in Ids
    BY <1>0 DEF Base, Working, Sweeping
  <2> QED
    BY <1>0, <1>3, <1>4, <2>1, <2>2 DEF Safe, Owned, On, Sweeping
<1>6. \A r \in Reqs : n \in req[r].names => Knows(r, n)'
  <2> SUFFICES ASSUME NEW r \in Reqs, n \in req[r].names PROVE Knows(r, n)'
    OBVIOUS
  <2>1. Knows(r, n) /\ Carrying(r)
    BY <1>0, <1>3 DEF Safe, Known, Base
  <2> QED
    BY <1>0, <1>4, <2>1 DEF Knows, Carrying
<1>7. Foretold(n)' /\ Swept(n)' /\ Described(n)'
  BY <1>0, <1>3, <1>4 DEF Safe, Known, Foretold, Swept, Described, HasBytes, At, Sweeping
<1> QED
  BY <1>0, <1>5, <1>6, <1>7 DEF Safe, Known

-----------------------------------------------------------------------------
(* The sweep. *)

LEMMA SweepFields ==
  ASSUME Base
  PROVE  /\ sweep.listed \in [Names -> BytesType] /\ sweep.rows \subseteq Names
         /\ sweep.todo \subseteq Names /\ sweep.late \subseteq Ids \X Names
         /\ sweep.id \in Ids \cup {None} /\ sweep.pc \in SweepPcs /\ sweep.visited \subseteq Names
BY Fields DEF SweepType

\* A step of the sweep: requests and rows stay, and so do the bytes a row may describe.
LEMMA SweepSafe ==
  ASSUME Base, NEW n \in Names, Safe(n), UNCHANGED <<row, req, intent>>,
         store'[n].size = store[n].size \/ (row[n] = None /\ ~On(n)),
         sweep'.listed[n].old => ~On(n),
         \A i \in Ids : <<i, n>> \in sweep'.late => Claims(i, n) /\ Pending(i) /\ ~On(n),
         Sweeping("forget")' /\ intent[sweep'.id].name = n => ~On(n),
         Swept(n)'
  PROVE  Safe(n)'
<1>1. Owned(n)'
  <2>1. \A i \in Ids : (Claims(i, n)' <=> Claims(i, n)) /\ (Pending(i)' <=> Pending(i))
    BY DEF Claims, Pending
  <2>2. On(n)' <=> On(n)
    BY DEF On
  <2> QED
    BY <2>1, <2>2 DEF Safe, Owned
<1>2. \A r \in Reqs : n \in req[r].names => Knows(r, n)'
  BY DEF Safe, Known, Knows, On, Pending
<1>3. Foretold(n)'
  BY DEF Safe, Known, Foretold, Pending
<1>4. Described(n)'
  BY DEF Safe, Described, HasBytes, At
<1> QED
  BY <1>1, <1>2, <1>3, <1>4 DEF Safe, Known

\* ... and the base of the invariant.
LEMMA SweepBase ==
  ASSUME Base, UNCHANGED <<row, req, intent>>, store' \in [Names -> BytesType], excused' \subseteq Names,
         sweep' \in SweepType(sweep'.counted), Working'
  PROVE  Base'
<1>1. Typed'
  BY Fields DEF Typed
<1> QED
  BY <1>1 DEF Base, Carrying, At, Standing

LEMMA KeepDay == ASSUME IInv, Day PROVE IInv'
<1>0. /\ UNCHANGED <<row, req, intent, excused>> /\ Base /\ Sweeping("idle")
      /\ store' = [n \in Names |-> [store[n] EXCEPT !.old = HasBytes(n)]]
      /\ sweep' = [sweep EXCEPT !.pc = "list"]
  BY DEF IInv, Day, history
<1>1. store' \in [Names -> BytesType] /\ \A n \in Names : store'[n].size = store[n].size
  BY <1>0, Fields DEF BytesType, HasBytes
<1>2. /\ sweep' \in SweepType(sweep'.counted) /\ sweep'.pc = "list" /\ sweep'.listed = sweep.listed
      /\ sweep'.late = sweep.late /\ sweep'.todo = sweep.todo /\ sweep'.id = sweep.id
  BY <1>0, Fields DEF SweepType, SweepPcs
<1>3. Working'
  BY <1>0, <1>2 DEF Base, Working, Sweeping
<1>4. Base'
  BY <1>0, <1>1, <1>2, <1>3, Fields, SweepBase
<1> SUFFICES ASSUME NEW n \in Names \ excused PROVE Safe(n)'
  BY <1>0, <1>4 DEF IInv
<1>5. Safe(n)
  BY DEF IInv
<1>6. Swept(n)'
  BY <1>0, <1>2, <1>5 DEF Safe, Known, Swept, Sweeping
<1> QED
  BY <1>0, <1>1, <1>2, <1>5, <1>6, SweepSafe DEF Safe, Owned, Sweeping

LEMMA KeepList == ASSUME IInv, List PROVE IInv'
<1>0. /\ UNCHANGED <<row, req, intent, store>> /\ Base
      /\ excused' = excused \cup {n \in Names : store[n].old /\ On(n)}
      /\ sweep' = [NoSweep EXCEPT !.pc = "rows", !.listed = store]
  BY DEF IInv, List
<1>1. /\ sweep' \in SweepType(sweep'.counted) /\ sweep'.pc = "rows" /\ sweep'.listed = store
      /\ sweep'.late = {} /\ sweep'.todo = {} /\ excused' \subseteq Names
  BY <1>0, Fields DEF NoSweep, SweepType, SweepPcs
<1>2. Base'
  BY <1>0, <1>1, Fields, SweepBase DEF Working
<1> SUFFICES ASSUME NEW n \in Names \ excused' PROVE Safe(n)'
  BY <1>0, <1>2 DEF IInv
<1>3. Safe(n) /\ (store[n].old => ~On(n))
  BY <1>0 DEF IInv
<1>4. Swept(n)'
  BY <1>1 DEF Swept, Sweeping
<1> QED
  BY <1>0, <1>1, <1>3, <1>4, SweepSafe DEF Sweeping

LEMMA KeepReadRows == ASSUME IInv, ReadRows PROVE IInv'
<1>0. /\ UNCHANGED <<row, req, intent, store, excused>> /\ Base /\ Sweeping("rows")
      /\ sweep' = [sweep EXCEPT !.pc = "intents", !.rows = {n \in Names : row[n] # None}]
  BY DEF IInv, ReadRows, history
<1>1. /\ sweep' \in SweepType(sweep'.counted) /\ sweep'.pc = "intents" /\ sweep'.listed = sweep.listed
      /\ sweep'.rows = {n \in Names : row[n] # None}
      /\ sweep'.late = sweep.late /\ sweep'.todo = sweep.todo
  BY <1>0, Fields DEF SweepType, SweepPcs
<1>2. Base'
  BY <1>0, <1>1, Fields, SweepBase DEF Base, Working, Sweeping
<1> SUFFICES ASSUME NEW n \in Names \ excused PROVE Safe(n)'
  BY <1>0, <1>2 DEF IInv
<1>3. Safe(n)
  BY DEF IInv
<1>4. Swept(n)'
  BY <1>0, <1>1, <1>3 DEF Safe, Known, Swept
<1> QED
  BY <1>0, <1>1, <1>3, <1>4, SweepSafe DEF Safe, Owned, Sweeping

LEMMA KeepReadIntents == ASSUME IInv, ReadIntents PROVE IInv'
<1> DEFINE live == {intent[i].name : i \in {j \in Ids : Pending(j) /\ intent[j].url = "live"}}
           todo == {n \in Names \ (sweep.rows \cup live) : sweep.listed[n].old}
<1>0. /\ UNCHANGED <<row, req, intent, store, excused>> /\ Base /\ Sweeping("intents")
      /\ sweep' = [sweep EXCEPT !.pc = "orphans", !.todo = todo]
  BY DEF IInv, ReadIntents, history
<1>1. /\ todo \subseteq Names /\ \A n \in todo : n \notin sweep.rows /\ sweep.listed[n].old
  OBVIOUS
<1> HIDE DEF todo
<1>2. /\ sweep' \in SweepType(sweep'.counted) /\ sweep'.pc = "orphans" /\ sweep'.listed = sweep.listed
      /\ sweep'.late = sweep.late /\ sweep'.todo = todo
  BY <1>0, <1>1, Fields DEF SweepType, SweepPcs
<1>3. Base'
  BY <1>0, <1>1, <1>2, Fields, SweepBase DEF Base, Working, Sweeping
<1> SUFFICES ASSUME NEW n \in Names \ excused PROVE Safe(n)'
  BY <1>0, <1>3 DEF IInv
<1>4. Safe(n)
  BY DEF IInv
<1>5. Swept(n)'
  BY <1>0, <1>1, <1>2, <1>4 DEF Safe, Known, Swept, Sweeping
<1> QED
  BY <1>0, <1>2, <1>4, <1>5, SweepSafe DEF Safe, Owned, Sweeping

LEMMA KeepCollect == ASSUME IInv, Collect PROVE IInv'
<1>0. UNCHANGED <<row, req, intent, excused>> /\ Base /\ Sweeping("orphans")
  BY DEF IInv, Collect, history
<1>1. PICK p \in sweep.todo : DropBytes(p) /\ sweep' = [sweep EXCEPT !.todo = @ \ {p}, !.listed[p] = Nothing]
  BY DEF Collect
<1>2. p \in Names /\ sweep.listed[p].old /\ Nothing \in BytesType /\ ~Nothing.old
  BY <1>0, SweepFields, Fields DEF Base, Working, Nothing, BytesType, None
<1>3. /\ store' \in [Names -> BytesType] /\ \A m \in Names \ {p} : store'[m] = store[m]
  BY <1>0, <1>1, <1>2, DropMoves
<1>4. /\ sweep' \in SweepType(sweep'.counted) /\ sweep'.pc = sweep.pc /\ sweep'.todo = sweep.todo \ {p}
      /\ sweep'.listed[p] = Nothing /\ \A m \in Names \ {p} : sweep'.listed[m] = sweep.listed[m]
      /\ sweep'.late = sweep.late /\ sweep'.id = sweep.id /\ sweep'.rows = sweep.rows
  <2>1. sweep' = [sweep EXCEPT !.todo = sweep.todo \ {p}, !.listed = [sweep.listed EXCEPT ![p] = Nothing]]
    BY <1>1
  <2> DEFINE l == [sweep.listed EXCEPT ![p] = Nothing]
  <2>2. l \in [Names -> BytesType] /\ l[p] = Nothing /\ \A m \in Names \ {p} : l[m] = sweep.listed[m]
    BY <1>0, <1>2, SweepFields
  <2> HIDE DEF l
  <2>3. sweep' = [sweep EXCEPT !.todo = sweep.todo \ {p}, !.listed = l]
    BY <2>1 DEF l
  <2> QED
    BY <1>0, <2>2, <2>3, Fields DEF SweepType
<1>5. Base'
  <2>1. Working'
    <3>1. \A n \in sweep'.todo : sweep'.listed[n].old
      BY <1>0, <1>4, SweepFields DEF Base, Working
    <3> QED
      BY <1>0, <1>4, <3>1 DEF Base, Working, Sweeping
  <2> QED
    BY <1>0, <1>3, <1>4, <2>1, Fields, SweepBase
<1> SUFFICES ASSUME NEW n \in Names \ excused PROVE Safe(n)'
  BY <1>0, <1>5 DEF IInv
<1>6. Safe(n)
  BY DEF IInv
<1>7. Swept(n)'
  BY <1>0, <1>4, <1>6 DEF Safe, Known, Swept, Sweeping
<1>8. store'[n].size = store[n].size \/ (row[n] = None /\ ~On(n))
  BY <1>1, <1>2, <1>3, <1>6 DEF Safe, Known, Swept, Owned
<1>9. sweep'.listed[n].old => ~On(n)
  BY <1>2, <1>4, <1>6 DEF Safe, Owned
<1> QED
  BY <1>0, <1>4, <1>6, <1>7, <1>8, <1>9, SweepSafe DEF Safe, Owned, Sweeping

LEMMA KeepReadLate == ASSUME IInv, ReadLate PROVE IInv'
<1> DEFINE late == {<<i, intent[i].name>> : i \in Late}
<1>0. /\ UNCHANGED <<row, req, intent, store>> /\ Base /\ Sweeping("orphans") /\ sweep.todo = {}
      /\ excused' = excused \cup {n \in {intent[i].name : i \in Late} : On(n)}
      /\ sweep' = [sweep EXCEPT !.pc = "late", !.late = late]
  BY DEF IInv, ReadLate
<1>1. \A i \in Late : i \in Ids /\ Pending(i) /\ intent[i].url = "late" /\ intent[i].name \in Names
  BY <1>0 DEF Late, Base, Standing, Pending
<1>2. late \subseteq Ids \X Names /\ excused' \subseteq Names
  BY <1>0, <1>1, Fields
<1>3. \A l \in late : l[1] \in Late /\ l[2] = intent[l[1]].name /\ l = <<l[1], l[2]>>
  OBVIOUS
<1>4. \A i, n : <<i, n>> \in late => i \in Late /\ n = intent[i].name
  OBVIOUS
<1> HIDE DEF late
<1>5. /\ sweep' \in SweepType(sweep'.counted) /\ sweep'.pc = "late" /\ sweep'.listed = sweep.listed
      /\ sweep'.late = late /\ sweep'.todo = {}
  BY <1>0, <1>2, Fields DEF SweepType, SweepPcs
<1>6. Base'
  <2>1. Working'
    BY <1>0, <1>1, <1>3, <1>5 DEF Working
  <2> QED
    BY <1>0, <1>2, <1>5, <2>1, Fields, SweepBase
<1> SUFFICES ASSUME NEW n \in Names \ excused' PROVE Safe(n)'
  BY <1>0, <1>6 DEF IInv
<1>7. Safe(n)
  BY <1>0 DEF IInv
<1>8. \A i \in Ids : <<i, n>> \in late => Claims(i, n) /\ Pending(i) /\ ~On(n)
  BY <1>0, <1>1, <1>4 DEF Claims
<1>9. Swept(n)'
  BY <1>5 DEF Swept, Sweeping
<1> QED
  BY <1>0, <1>5, <1>7, <1>8, <1>9, SweepSafe DEF Safe, Owned, Sweeping

LEMMA KeepDropLate == ASSUME IInv, DropLate PROVE IInv'
<1>0. UNCHANGED <<row, req, intent, excused>> /\ Base /\ Sweeping("late")
  BY DEF IInv, DropLate, history
<1>1. PICK l \in sweep.late : /\ DropBytes(l[2]) \/ UNCHANGED store
                              /\ sweep' = [sweep EXCEPT !.pc = "forget", !.late = @ \ {l}, !.id = l[1],
                                                !.visited = @ \cup {l[2]}]
  BY DEF DropLate
<1>2. l[1] \in Ids /\ l[2] \in Names /\ l = <<l[1], l[2]>>
  BY <1>0, SweepFields
<1>3. /\ store' \in [Names -> BytesType] /\ \A m \in Names \ {l[2]} : store'[m] = store[m]
  BY <1>0, <1>1, <1>2, DropMoves, Fields
<1>4. /\ sweep' \in SweepType(sweep'.counted) /\ sweep'.pc = "forget" /\ sweep'.todo = sweep.todo
      /\ sweep'.listed = sweep.listed /\ sweep'.late = sweep.late \ {l} /\ sweep'.id = l[1]
  <2> DEFINE late == sweep.late \ {l}
             seen == sweep.visited \cup {l[2]}
  <2>1. late \subseteq Ids \X Names /\ seen \subseteq Names
    BY <1>0, <1>2, SweepFields
  <2>2. sweep' = [sweep EXCEPT !.pc = "forget", !.late = late, !.id = l[1], !.visited = seen]
    BY <1>1
  <2> HIDE DEF late, seen
  <2>3. /\ sweep' \in SweepType(sweep'.counted) /\ sweep'.pc = "forget" /\ sweep'.todo = sweep.todo
        /\ sweep'.listed = sweep.listed /\ sweep'.late = late /\ sweep'.id = l[1]
    BY <1>0, <1>2, <2>1, <2>2, Fields DEF SweepType, SweepPcs
  <2> QED
    BY <2>3 DEF late
<1>5. intent[l[1]] = NoIntent \/ (intent[l[1]].url = "late" /\ intent[l[1]].name = l[2])
  BY <1>0 DEF Base, Working
<1>6. Base'
  <2>1. Working'
    BY <1>0, <1>2, <1>4, <1>5, NoIntentType DEF Base, Working, Sweeping
  <2> QED
    BY <1>0, <1>3, <1>4, <2>1, Fields, SweepBase
<1> SUFFICES ASSUME NEW n \in Names \ excused PROVE Safe(n)'
  BY <1>0, <1>6 DEF IInv
<1>7. Safe(n) /\ None # n
  BY Fields DEF IInv
<1>8. Swept(n)'
  BY <1>0, <1>4, <1>7 DEF Safe, Known, Swept, Sweeping
<1>9. n = l[2] => row[n] = None /\ ~On(n)
  BY <1>2, <1>7 DEF Safe, Known, Foretold, Owned, Claims
<1>10. intent[l[1]].name = n => n = l[2]
  BY <1>5, <1>7, NoIntentType
<1> QED
  BY <1>0, <1>3, <1>4, <1>7, <1>8, <1>9, <1>10, SweepSafe DEF Safe, Owned, Sweeping

LEMMA KeepForget == ASSUME IInv, Forget PROVE IInv'
<1>0. /\ UNCHANGED <<row, store, req, excused>> /\ Base /\ Sweeping("forget") /\ intent' = Ended(sweep.id)
      /\ sweep' = [sweep EXCEPT !.pc = "late", !.id = None]
  BY DEF IInv, Forget, history
<1>1. sweep.id \in Ids /\ intent[sweep.id].url # "live"
  BY <1>0 DEF Base, Working, Sweeping
<1>2. PICK i \in Ids : i = sweep.id
  BY <1>1
<1>3. /\ intent' \in [Ids -> IntentType] /\ \A j \in Ids \ {i} : intent'[j] = intent[j]
      /\ intent'[i] = NoIntent
  BY <1>0, <1>1, <1>2, EndedMoves
<1>4. /\ sweep' \in SweepType(sweep'.counted) /\ sweep'.pc = "late" /\ sweep'.todo = sweep.todo
      /\ sweep'.listed = sweep.listed /\ sweep'.late = sweep.late /\ sweep'.rows = sweep.rows
  BY <1>0, Fields DEF SweepType, SweepPcs
<1>5. Base'
  <2>1. Typed'
    BY <1>0, <1>3, <1>4, Fields DEF Typed
  <2>2. \A r \in Reqs : Carrying(r)'
    BY <1>0, <1>3, NoIntentType DEF Base, Carrying, At
  <2>3. \A j \in Ids : Standing(j)'
    BY <1>0, <1>3, NoIntentType DEF Base, Standing
  <2>4. Working'
    <3>1. \A late \in sweep.late : late[1] \in Ids /\ (intent[late[1]] = NoIntent \/ (intent[late[1]].url = "late" /\ intent[late[1]].name = late[2]))
      BY <1>0, SweepFields DEF Base, Working
    <3>2. \A late \in sweep.late : intent'[late[1]] = NoIntent \/ (intent'[late[1]].url = "late" /\ intent'[late[1]].name = late[2])
      BY <1>3, <3>1
    <3> QED
      BY <1>0, <1>4, <3>2 DEF Base, Working, Sweeping
  <2> QED
    BY <2>1, <2>2, <2>3, <2>4 DEF Base
<1> SUFFICES ASSUME NEW n \in Names \ excused PROVE Safe(n)'
  BY <1>0, <1>5 DEF IInv
<1>6. Safe(n) /\ None # n
  BY Fields DEF IInv
<1>7. \A j \in Ids : /\ intent'[j].name = n => j # i
                     /\ Claims(j, n)' => j # i /\ Claims(j, n)
                     /\ j # i => Claims(j, n)' = Claims(j, n) /\ Pending(j)' = Pending(j)
  BY <1>3, <1>6, NoIntentType DEF Claims, Pending
<1>8. On(n) => intent[i].name # n
  BY <1>0, <1>2, <1>6 DEF Safe, Owned
<1>9. On(n)' <=> On(n)
  BY <1>0 DEF On
<1>10. Owned(n)'
  <2>1. \A j \in Ids : <<j, n>> \in sweep.late => j # i
    <3>1. \A late \in sweep.late : late[1] # i
      BY <1>0, <1>2 DEF Base, Working, Sweeping
    <3> QED
      BY <3>1
  <2> QED
    BY <1>0, <1>4, <1>6, <1>7, <1>9, <2>1 DEF Safe, Owned, Sweeping
<1>11. \A r \in Reqs : n \in req[r].names => Knows(r, n)'
  <2> SUFFICES ASSUME NEW r \in Reqs, n \in req[r].names PROVE Knows(r, n)'
    OBVIOUS
  <2>1. Knows(r, n) /\ Carrying(r) /\ On(n)
    BY <1>0, <1>6 DEF Safe, Known, Base, On
  <2> QED
    BY <1>0, <1>3, <1>8, <2>1 DEF Knows, Carrying, Pending
<1>12. Foretold(n)' /\ Swept(n)' /\ Described(n)'
  BY <1>0, <1>3, <1>4, <1>6, <1>7 DEF Safe, Known, Foretold, Swept, Described, HasBytes, At, Sweeping
<1> QED
  BY <1>0, <1>10, <1>11, <1>12 DEF Safe, Known

\* The end of a sweep, however it ends.
LEMMA KeepRest ==
  ASSUME IInv, UNCHANGED <<row, store, req, intent, excused>>,
         sweep' = sweep \/ sweep' = NoSweep
                        \/ (sweep' = [sweep EXCEPT !.pc = "correct", !.counted = usage] /\ Sweeping("late") /\ sweep.late = {})
  PROVE  IInv'
<1>0. Base
  BY DEF IInv
<1>1. /\ sweep' \in SweepType(sweep'.counted) /\ Working' /\ sweep'.todo \subseteq sweep.todo
      /\ sweep'.late \subseteq sweep.late
      /\ \A n \in Names : sweep'.listed[n].old => sweep.listed[n].old
      /\ sweep'.pc \in {"intents", "forget"} => sweep' = sweep
  <2>1. CASE sweep' = sweep
    BY <1>0, <2>1, Fields DEF Base, Working
  <2>2. CASE sweep' = NoSweep
    <3>1. Nothing \in BytesType /\ ~Nothing.old
      BY Fields, <1>0 DEF Nothing, BytesType, None
    <3>2. [n \in Names |-> Nothing] \in [Names -> BytesType] /\ 0 \in Nat
      BY <3>1
    <3>3. /\ NoSweep \in SweepType(NoSweep.counted) /\ NoSweep.pc = "idle" /\ NoSweep.todo = {} /\ NoSweep.late = {}
          /\ \A n \in Names : ~NoSweep.listed[n].old
      BY <3>1, <3>2 DEF NoSweep, SweepType, SweepPcs
    <3> QED
      BY <2>2, <3>3 DEF Working
  <2>3. CASE sweep' = [sweep EXCEPT !.pc = "correct", !.counted = usage] /\ Sweeping("late") /\ sweep.late = {}
    <3>1. /\ sweep' \in SweepType(sweep'.counted) /\ sweep'.pc = "correct" /\ sweep'.todo = sweep.todo
          /\ sweep'.late = sweep.late /\ sweep'.listed = sweep.listed
      BY <1>0, <2>3, Fields DEF SweepType, SweepPcs
    <3> QED
      BY <1>0, <2>3, <3>1 DEF Base, Working, Sweeping
  <2> QED
    BY <2>1, <2>2, <2>3
<1>2. Base'
  BY <1>0, <1>1, Fields, SweepBase
<1> SUFFICES ASSUME NEW n \in Names \ excused PROVE Safe(n)'
  BY <1>2 DEF IInv
<1>3. Safe(n)
  BY DEF IInv
<1>4. Swept(n)'
  BY <1>0, <1>1, <1>3 DEF Safe, Known, Swept, Sweeping
<1> QED
  BY <1>0, <1>1, <1>3, <1>4, SweepSafe DEF Safe, Owned, Sweeping

LEMMA InvInit == Init => IInv
<1> SUFFICES ASSUME Init PROVE IInv
  OBVIOUS
<1>1. Nothing \in BytesType /\ ~Nothing.old /\ Nothing.size = None
  BY StorageAssumption DEF Nothing, BytesType, None
<1>2. /\ NoSweep \in SweepType(NoSweep.counted) /\ NoSweep.pc = "idle" /\ NoSweep.todo = {} /\ NoSweep.late = {}
      /\ \A n \in Names : ~NoSweep.listed[n].old
  <2>1. [n \in Names |-> Nothing] \in [Names -> BytesType]
    BY <1>1
  <2> QED
    BY <1>1, <2>1 DEF NoSweep, SweepType, SweepPcs
<1>3. Base
  <2>1. Typed
    BY <1>1, <1>2, NoReqType, NoIntentType, StorageAssumption DEF Init, Typed, None
  <2>2. \A r \in Reqs : Carrying(r)
    BY NoReqType DEF Init, Carrying, At, Alone, Completing
  <2>3. \A i \in Ids : Standing(i)
    BY NoIntentType DEF Init, Standing
  <2>4. Working
    BY <1>2 DEF Init, Working
  <2> QED
    BY <2>1, <2>2, <2>3, <2>4 DEF Base
<1>4. ASSUME NEW n \in Names PROVE Safe(n)
  <2>1. None # n
    BY StorageAssumption
  <2> QED
    BY <1>2, <2>1, NoReqType, NoIntentType
    DEF Init, Safe, Owned, Known, Foretold, Swept, Described, Claims, Pending, On, Sweeping
<1> QED
  BY <1>3, <1>4 DEF IInv

LEMMA InvStep == IInv /\ [Next]_vars => IInv'
<1> SUFFICES ASSUME IInv, [Next]_vars PROVE IInv'
  OBVIOUS
<1>1. ASSUME NEW r \in Reqs, Serve(r) PROVE IInv'
  BY <1>1, KeepPrepare, KeepPut, KeepWrite, KeepDrops, KeepDeleteRows, KeepProbe, KeepIntend, KeepHead,
     KeepSniff, KeepFinalise DEF Serve
<1>2. ASSUME NEW r \in Reqs, Call(r) \/ WriteFails(r) \/ WriteUnanswered(r) \/ BytesStay(r) \/ Crash(r)
      PROVE  IInv'
  BY <1>2, KeepCall, KeepWriteFails, KeepWriteUnanswered, KeepBytesStay, KeepCrash
<1>3. ASSUME NEW i \in Ids, Direct(i) \/ Expire(i) PROVE IInv'
  BY <1>3, KeepDirect, KeepExpire
<1>4. CASE Report \/ Correct \/ SweepFails \/ UNCHANGED vars
  BY <1>4, KeepRest DEF Report, Correct, SweepFails, vars, history
<1> QED
  BY <1>1, <1>2, <1>3, <1>4, KeepDay, KeepList, KeepReadRows, KeepReadIntents, KeepCollect, KeepReadLate,
     KeepDropLate, KeepForget DEF Next, SweepStep

\* Whatever meets whatever at other paths, and wherever processes die: bytes before the
\* row and the row before the bytes keep every row true, but where two operations met at a
\* path, an overwrite stopped half-way, or the answer to the COMMIT of a row was lost.
THEOREM RowsDescribe == Spec => []RowDescribesBytes
<1>1. IInv => RowDescribesBytes
  BY DEF IInv, Safe, Described, RowDescribesBytes
<1> QED
  BY <1>1, InvInit, InvStep, PTL DEF Spec

-----------------------------------------------------------------------------
(* What a sweep nobody interfered with leaves. *)

\* Nobody else has touched rows or bytes since the listing: where pass 2 has not been it is
\* still true, what the rows do not account for is on the list of orphans or owed to an
\* intent, and so on, pass by pass; and pass 2 ends no intent of a path it has not been to.
Undisturbed ==
  quiet /\ ~Sweeping("idle") /\ ~Sweeping("list") =>
    /\ \A n \in Names \ sweep.visited : store[n] = sweep.listed[n]
    /\ ~Sweeping("rows") => sweep.rows = {n \in Names : row[n] # None}
    /\ sweep.pc \in {"orphans", "late", "forget", "correct"} =>
         \A n \in Names \ sweep.visited : Garbage(n) /\ store[n].old =>
           n \in sweep.todo \/ \E i \in Ids : intent[i].name = n /\ Pending(i)
    /\ sweep.pc \in {"late", "forget", "correct"} => sweep.todo = {}
    /\ Sweeping("forget") /\ Pending(sweep.id) => intent[sweep.id].name \in sweep.visited
    /\ Sweeping("correct") => \A n \in Names \ sweep.visited : Broken(n) => n \in missing

LEMMA UndisturbedFrame ==
  ASSUME Base, Undisturbed,
         quiet' => /\ quiet /\ UNCHANGED <<row, store, sweep, missing>>
                   /\ \A i \in Ids : Pending(i) => intent'[i].name = intent[i].name /\ Pending(i)'
                   /\ sweep.id \in Ids /\ Pending(sweep.id)' => Pending(sweep.id)
  PROVE  Undisturbed'
<1> SUFFICES ASSUME quiet' PROVE Undisturbed'
  BY DEF Undisturbed
<1>1. quiet /\ UNCHANGED <<row, store, sweep, missing>>
  OBVIOUS
<1>2. ASSUME NEW n \in Names, \E i \in Ids : intent[i].name = n /\ Pending(i)
      PROVE  \E i \in Ids : intent'[i].name = n /\ Pending(i)'
  BY <1>2
<1>3. ASSUME NEW n \in Names PROVE (Garbage(n)' <=> Garbage(n)) /\ (Broken(n)' <=> Broken(n))
  BY <1>1 DEF Garbage, Broken, HasBytes
<1>4. Sweeping("forget") /\ Pending(sweep.id)' => Pending(sweep.id) /\ intent'[sweep.id].name = intent[sweep.id].name
  BY DEF Base, Working, Sweeping
<1> QED
  BY <1>1, <1>2, <1>3, <1>4 DEF Undisturbed, Sweeping

LEMMA UndisturbedRequest ==
  ASSUME Base, Undisturbed, NEW r \in Reqs,
         Call(r) \/ Serve(r) \/ WriteFails(r) \/ WriteUnanswered(r) \/ BytesStay(r) \/ Crash(r)
  PROVE  Undisturbed'
<1>1. CASE Put(r) \/ Write(r) \/ WriteUnanswered(r) \/ Undo(r) \/ DeleteBytes(r) \/ Reject(r) \/ Finalise(r)
  <2>1. ~quiet'
    BY <1>1 DEF Put, Write, WriteUnanswered, Undo, DeleteBytes, Reject, Finalise
  <2> QED
    BY <2>1 DEF Undisturbed
<1>2. CASE DeleteRows(r)
  <2> DEFINE gone == {n \in req[r].names : row[n] # None}
  <2>1. /\ row' = [n \in Names |-> IF n \in gone THEN None ELSE row[n]] /\ quiet' = (quiet /\ gone = {})
        /\ UNCHANGED <<store, intent, sweep, missing>>
    BY <1>2 DEF DeleteRows
  <2>2. gone = {} => row' = row
    BY <2>1, Fields
  <2> QED
    BY <2>1, <2>2, UndisturbedFrame DEF Pending
<1>3. CASE Intend(r)
  <2>1. PICK i \in Ids : Free(i) /\ intent' = [intent EXCEPT ![i] = [at |-> "kept", name |-> Path(r), size |-> req[r].size, url |-> "live"]]
    BY <1>3 DEF Intend
  <2>2. \A j \in Ids : Pending(j) \/ j = sweep.id => intent'[j] = intent[j]
    BY <2>1, Fields DEF Free, Pending
  <2>3. UNCHANGED <<row, store, sweep, missing, quiet>>
    BY <1>3 DEF Intend, history
  <2> QED
    BY <2>2, <2>3, UndisturbedFrame DEF Pending
<1>4. CASE Call(r)
  <2>1. UNCHANGED <<row, store, intent, sweep, missing, quiet>>
    BY <1>4 DEF Call, Upload, Remove, Sign, Complete, Begin
  <2> QED
    BY <2>1, UndisturbedFrame DEF Pending
<1>5. CASE Prepare(r) \/ Probe(r) \/ Head(r) \/ Sniff(r) \/ WriteFails(r) \/ BytesStay(r) \/ Crash(r)
  <2>1. UNCHANGED <<row, store, intent, sweep, missing, quiet>>
    BY <1>5 DEF Prepare, Probe, Head, Sniff, WriteFails, BytesStay, Crash, history
  <2> QED
    BY <2>1, UndisturbedFrame DEF Pending
<1> QED
  BY <1>1, <1>2, <1>3, <1>4, <1>5 DEF Serve

LEMMA UndisturbedSweep ==
  ASSUME Base, Undisturbed, Day \/ SweepStep \/ SweepFails
  PROVE  Undisturbed'
<1> USE SweepFields
<1>1. CASE Day \/ SweepFails \/ Correct
  <2>1. sweep'.pc \in {"idle", "list"}
    BY <1>1, Fields DEF Day, SweepFails, Correct, NoSweep, SweepType
  <2> QED
    BY <2>1 DEF Undisturbed, Sweeping
<1>2. CASE DropLate
  <2>1. PICK l \in sweep.late : /\ DropBytes(l[2]) \/ UNCHANGED store
                                /\ sweep' = [sweep EXCEPT !.pc = "forget", !.late = @ \ {l}, !.id = l[1],
                                                          !.visited = @ \cup {l[2]}]
    BY <1>2 DEF DropLate
  <2>2. /\ sweep'.pc = "forget" /\ sweep'.listed = sweep.listed /\ sweep'.rows = sweep.rows
        /\ sweep'.todo = sweep.todo /\ sweep'.id = l[1] /\ sweep'.visited = sweep.visited \cup {l[2]}
        /\ Sweeping("late") /\ UNCHANGED <<row, intent, quiet>> /\ l[1] \in Ids /\ l[2] \in Names
    BY <1>2, <2>1, Fields DEF DropLate, SweepType, history
  <2>3. \A m \in Names \ {l[2]} : store'[m] = store[m]
    BY <2>1, <2>2, Fields, DropMoves
  <2>4. intent[l[1]] = NoIntent \/ intent[l[1]].name = l[2]
    BY DEF Base, Working
  <2>5. Pending(sweep.id)' => intent'[sweep'.id].name \in sweep'.visited
    BY <2>2, <2>4, NoIntentType DEF Pending
  <2>6. ASSUME quiet, NEW n \in Names \ sweep'.visited, Garbage(n)', store'[n].old
        PROVE  n \in sweep'.todo \/ \E i \in Ids : intent'[i].name = n /\ Pending(i)'
    <3>1. Garbage(n) /\ store[n].old /\ n \notin sweep.visited
      BY <2>2, <2>3, <2>6 DEF Garbage, HasBytes
    <3>2. n \in sweep.todo \/ \E i \in Ids : intent[i].name = n /\ Pending(i)
      BY <2>2, <2>6, <3>1 DEF Undisturbed, Sweeping
    <3> QED
      BY <2>2, <3>2 DEF Pending
  <2> QED
    BY <2>2, <2>3, <2>5, <2>6 DEF Undisturbed, Sweeping
<1>3. CASE Forget
  <2>1. /\ sweep'.pc = "late" /\ sweep'.listed = sweep.listed /\ sweep'.rows = sweep.rows
        /\ sweep'.todo = sweep.todo /\ sweep'.visited = sweep.visited /\ intent' = Ended(sweep.id)
        /\ Sweeping("forget") /\ UNCHANGED <<row, store, quiet>>
    BY <1>3, Fields DEF Forget, SweepType, history
  <2>2. sweep.id \in Ids
    BY <2>1 DEF Base, Working, Sweeping
  <2>3. ASSUME quiet, NEW n \in Names \ sweep'.visited, Garbage(n)', store'[n].old
        PROVE  n \in sweep'.todo \/ \E i \in Ids : intent'[i].name = n /\ Pending(i)'
    <3>1. Garbage(n) /\ store[n].old /\ n \notin sweep.visited
      BY <2>1, <2>3 DEF Garbage, HasBytes
    <3>2. n \in sweep.todo \/ \E i \in Ids : intent[i].name = n /\ Pending(i)
      BY <2>1, <2>3, <3>1 DEF Undisturbed, Sweeping
    <3>3. ASSUME NEW i \in Ids, intent[i].name = n, Pending(i)
          PROVE  intent'[i].name = n /\ Pending(i)'
      <4>1. i # sweep.id
        BY <2>1, <2>3, <3>1, <3>3 DEF Undisturbed, Sweeping
      <4> QED
        BY <2>1, <2>2, <3>3, <4>1, EndedMoves DEF Pending
    <3> QED
      BY <2>1, <3>2, <3>3
  <2> QED
    BY <2>1, <2>3 DEF Undisturbed, Sweeping
<1>4. CASE List
  <2>1. sweep'.pc = "rows" /\ sweep'.listed = store /\ store' = store
    BY <1>4 DEF List, NoSweep
  <2> QED
    BY <2>1 DEF Undisturbed, Sweeping
<1>5. CASE ReadRows
  <2>1. /\ sweep'.pc = "intents" /\ sweep'.visited = sweep.visited
        /\ sweep'.listed = sweep.listed /\ sweep'.rows = {n \in Names : row[n] # None}
        /\ Sweeping("rows") /\ UNCHANGED <<row, store, quiet>>
    BY <1>5, Fields DEF ReadRows, SweepType, history
  <2> QED
    BY <2>1 DEF Undisturbed, Sweeping
<1>6. CASE ReadIntents
  <2> DEFINE live == {intent[i].name : i \in {j \in Ids : Pending(j) /\ intent[j].url = "live"}}
             todo == {n \in Names \ (sweep.rows \cup live) : sweep.listed[n].old}
  <2>1. /\ sweep'.pc = "orphans" /\ sweep'.visited = sweep.visited
        /\ sweep'.listed = sweep.listed /\ sweep'.rows = sweep.rows /\ sweep'.todo = todo
        /\ Sweeping("intents") /\ UNCHANGED <<row, store, intent, quiet>>
    BY <1>6, Fields DEF ReadIntents, SweepType, history
  <2>2. \A n \in Names : sweep.listed[n].old /\ n \notin sweep.rows =>
          n \in todo \/ \E i \in Ids : intent[i].name = n /\ Pending(i)
    OBVIOUS
  <2> HIDE DEF todo
  <2>3. ASSUME quiet, NEW n \in Names \ sweep'.visited, Garbage(n)', store'[n].old
        PROVE  n \in sweep'.todo \/ \E i \in Ids : intent'[i].name = n /\ Pending(i)'
    <3>1. n \notin sweep.rows /\ sweep.listed[n].old
      BY <2>1, <2>3 DEF Undisturbed, Sweeping, Garbage
    <3> QED
      BY <2>1, <2>2, <3>1 DEF Pending
  <2> QED
    BY <2>1, <2>3 DEF Undisturbed, Sweeping
<1>7. CASE Collect
  <2>1. PICK p \in sweep.todo : DropBytes(p) /\ sweep' = [sweep EXCEPT !.todo = @ \ {p}, !.listed[p] = Nothing]
    BY <1>7 DEF Collect
  <2>2. /\ sweep'.pc = "orphans" /\ sweep'.visited = sweep.visited
        /\ sweep'.listed = [sweep.listed EXCEPT ![p] = Nothing] /\ sweep'.rows = sweep.rows
        /\ sweep'.todo = sweep.todo \ {p} /\ Sweeping("orphans") /\ UNCHANGED <<row, intent, quiet>>
        /\ store' = [store EXCEPT ![p] = Nothing] /\ p \in Names
    BY <1>7, <2>1, Fields DEF Collect, SweepType, DropBytes, Sweeping, history
  <2>3. ASSUME quiet, NEW n \in Names \ sweep'.visited, Garbage(n)', store'[n].old
        PROVE  n \in sweep'.todo \/ \E i \in Ids : intent'[i].name = n /\ Pending(i)'
    <3>1. n # p
      BY <2>2, <2>3, Fields DEF Garbage, HasBytes, Nothing
    <3>2. Garbage(n) /\ store[n].old
      BY <2>2, <2>3, <3>1, Fields DEF Garbage, HasBytes
    <3>3. n \in sweep.todo \/ \E i \in Ids : intent[i].name = n /\ Pending(i)
      BY <2>2, <2>3, <3>2 DEF Undisturbed, Sweeping
    <3> QED
      BY <2>2, <3>1, <3>3 DEF Pending
  <2>4. ASSUME quiet, NEW n \in Names \ sweep'.visited PROVE store'[n] = sweep'.listed[n]
    <3>1. store[n] = sweep.listed[n]
      BY <2>2, <2>4 DEF Undisturbed, Sweeping
    <3> QED
      BY <2>2, <3>1, Fields
  <2> QED
    BY <2>2, <2>3, <2>4 DEF Undisturbed, Sweeping
<1>8. CASE ReadLate
  <2>1. /\ sweep'.pc = "late" /\ sweep'.listed = sweep.listed /\ sweep'.rows = sweep.rows /\ sweep'.todo = sweep.todo
        /\ sweep'.visited = sweep.visited
        /\ Sweeping("orphans") /\ sweep.todo = {} /\ UNCHANGED <<row, store, intent, quiet>>
    BY <1>8, Fields DEF ReadLate, SweepType
  <2> QED
    BY <2>1 DEF Undisturbed, Sweeping, Garbage, HasBytes, Pending
<1>9. CASE Report
  <2>1. /\ sweep'.pc = "correct" /\ sweep'.visited = sweep.visited
        /\ sweep'.listed = sweep.listed /\ sweep'.rows = sweep.rows /\ sweep'.todo = sweep.todo
        /\ Sweeping("late") /\ UNCHANGED <<row, store, intent, quiet>>
        /\ missing' = missing \cup {n \in sweep.rows : sweep.listed[n].size = None}
    BY <1>9, Fields DEF Report, SweepType, history
  <2>2. ASSUME quiet, NEW n \in Names \ sweep'.visited, Broken(n)' PROVE n \in missing'
    BY <2>1, <2>2 DEF Undisturbed, Sweeping, Broken, HasBytes
  <2> QED
    BY <2>1, <2>2 DEF Undisturbed, Sweeping, Garbage, HasBytes, Pending
<1> QED
  BY <1>1, <1>2, <1>3, <1>4, <1>5, <1>6, <1>7, <1>8, <1>9 DEF SweepStep

LEMMA UndisturbedStep == IInv /\ Undisturbed /\ [Next]_vars => Undisturbed'
<1> SUFFICES ASSUME IInv, Base, Undisturbed, [Next]_vars PROVE Undisturbed'
  BY DEF IInv
<1>1. ASSUME NEW i \in Ids, Direct(i) PROVE Undisturbed'
  BY <1>1 DEF Direct, Undisturbed
<1>2. ASSUME NEW i \in Ids, Expire(i) PROVE Undisturbed'
  <2>1. UNCHANGED <<row, store, sweep, missing, quiet>>
    BY <1>2 DEF Expire, history
  <2>2. \A j \in Ids : /\ Pending(j) => intent'[j].name = intent[j].name /\ Pending(j)'
                       /\ Pending(j)' => Pending(j)
    BY <1>2, Fields, NoIntentType DEF Expire, Pending, IntentType
  <2> QED
    BY <2>1, <2>2, UndisturbedFrame
<1>3. CASE UNCHANGED vars
  BY <1>3, UndisturbedFrame DEF vars, history, Pending
<1> QED
  BY <1>1, <1>2, <1>3, UndisturbedRequest, UndisturbedSweep DEF Next

\* After a sweep that nothing crossed, no bytes without a row are a day old, unless an
\* upload's intent still stands for them, and every row without bytes has been reported;
\* all this of the paths its second pass had no business at.
THEOREM SweepThorough == Spec => SweepIsThorough
<1>1. Init => Undisturbed
  BY DEF Init, Undisturbed
<1>2. Undisturbed => [EndOfSweep => \A n \in Names \ sweep.visited :
       /\ Garbage(n) /\ store[n].old => \E i \in Ids : intent[i].name = n /\ Pending(i)
       /\ Broken(n) => n \in missing]_vars
  BY DEF Undisturbed, EndOfSweep, Sweeping
<1> QED
  BY <1>1, <1>2, InvInit, InvStep, UndisturbedStep, PTL DEF Spec, SweepIsThorough
-----------------------------------------------------------------------------
(* The counter.  Every step that moves it, and what the others leave alone. *)

Effects ==
  \/ UNCHANGED <<row, usage>>
  \/ \E r \in Reqs : Write(r) \/ WriteUnanswered(r) \/ Finalise(r) \/ DeleteRows(r)
  \/ Correct

LEMMA EffectsOfSteps == [Next]_vars => Effects
<1> SUFFICES ASSUME [Next]_vars PROVE Effects
  OBVIOUS
<1>1. ASSUME NEW r \in Reqs, Call(r) \/ WriteFails(r) \/ WriteUnanswered(r) \/ BytesStay(r) \/ Crash(r)
      PROVE  Effects
  BY <1>1 DEF Effects, Call, Upload, Remove, Sign, Complete, Begin, WriteFails, BytesStay, Crash
<1>2. ASSUME NEW r \in Reqs, Serve(r) PROVE Effects
  BY <1>2 DEF Effects, Serve, Prepare, Put, Undo, DeleteBytes, Probe, Intend, Head, Sniff, Reject
<1>3. ASSUME NEW i \in Ids, Direct(i) \/ Expire(i) PROVE Effects
  BY <1>3 DEF Effects, Direct, Expire
<1>4. CASE Day \/ SweepStep \/ SweepFails \/ UNCHANGED vars
  BY <1>4 DEF Effects, Day, SweepStep, SweepFails, List, ReadRows, ReadIntents, Collect, ReadLate,
              DropLate, Forget, Report, vars
<1> QED
  BY <1>1, <1>2, <1>3, <1>4 DEF Next

\* The bytes the rows speak of.
Stored == SumFunctionOnSet(row, Names)

LEMMA SumsOfRows ==
  ASSUME Base, NEW S \in SUBSET Names
  PROVE  SumFunctionOnSet(row, S) \in Nat
<1>1. IsFiniteSet(S) /\ \A n \in S : row[n] \in Nat
  BY Fields, StorageAssumption, FS_Subset
<1> QED  BY <1>1, SumNat

LEMMA StoredBounds ==
  ASSUME Base
  PROVE  Stored \in Nat /\ \A n \in Names : row[n] \in Nat /\ row[n] <= Stored
<1>1. Stored \in Nat
  BY SumsOfRows DEF Stored
<1>2. ASSUME NEW n \in Names PROVE row[n] \in Nat /\ row[n] <= Stored
  <2>1. \A m \in Names : row[m] \in Nat
    BY Fields
  <2>2. Stored = row[n] + SumFunctionOnSet(row, Names \ {n})
    BY <2>1, StorageAssumption, SumOut DEF Stored
  <2>3. SumFunctionOnSet(row, Names \ {n}) \in Nat
    BY SumsOfRows
  <2> QED  BY <1>1, <2>1, <2>2, <2>3
<1> QED  BY <1>1, <1>2

LEMMA TotalNat ==
  ASSUME NEW s \in [Names -> BytesType]
  PROVE  Total(s) \in Nat
<1>1. \A n \in Names : s[n].size \in Nat
  BY StorageAssumption DEF BytesType
<1> QED  BY <1>1, SumNat, StorageAssumption DEF Total

\* The trigger's share of a statement that sets one row.
LEMMA SetRowCounts ==
  ASSUME Base, usage \in Nat, NEW n \in Names, NEW s \in 0..MaxSize, SetRow(n, s)
  PROVE  /\ usage' \in Nat
         /\ usage = Stored => usage' = usage + s - row[n] /\ usage' = Stored'
<1>1. s \in Nat /\ row[n] \in Nat
  BY Fields
<1>2. usage' \in Nat
  BY <1>1 DEF SetRow
<1>3. ASSUME usage = Stored PROVE usage' = usage + s - row[n] /\ usage' = Stored'
  <2>1. usage' = usage + s - row[n]
    BY <1>1, <1>3, StoredBounds DEF SetRow
  <2>2. \A m \in Names : row[m] \in Int /\ row'[m] \in Int
    BY Fields, SetRowMoves
  <2>3. SumFunctionOnSet(row', Names) = SumFunctionOnSet(row, Names) - row[n] + row'[n]
    BY <2>2, SetRowMoves, SumChange, StorageAssumption
  <2> QED  BY <1>1, <1>3, <2>1, <2>3, SetRowMoves, StoredBounds DEF Stored
<1> QED  BY <1>2, <1>3

\* ... and of one that deletes some.
LEMMA DeleteCounts ==
  ASSUME Base, usage \in Nat, NEW r \in Reqs, DeleteRows(r)
  PROVE  /\ usage' \in Nat /\ usage' <= usage
         /\ {n \in req[r].names : row[n] # None} = {} => usage' = usage
         /\ usage = Stored => /\ usage' = Stored'
                              /\ \A n \in Names : usage' + row[n] <= usage + row'[n]
<1> DEFINE gone == {n \in req[r].names : row[n] # None}
           freed == SumFunctionOnSet(row, gone)
           kept == SumFunctionOnSet(row, Names \ gone)
<1>1. /\ gone \in SUBSET Names /\ row' = [n \in Names |-> IF n \in gone THEN None ELSE row[n]]
      /\ usage' = IF freed > usage THEN 0 ELSE usage - freed
  BY Fields DEF DeleteRows, ReqType
<1> HIDE DEF gone
<1>2. freed \in Nat /\ kept \in Nat
  BY <1>1, SumsOfRows
<1>3. gone = {} => freed = 0
  BY SumEmpty
<1>4. ASSUME usage = Stored
      PROVE  /\ usage' = Stored'
             /\ \A n \in Names : usage' + row[n] <= usage + row'[n]
  <2>1. \A n \in Names : row[n] \in Int /\ row'[n] \in Int
    BY <1>1, Fields DEF None
  <2>2. IsFiniteSet(Names) /\ IsFiniteSet(gone) /\ IsFiniteSet(Names \ gone)
    BY <1>1, StorageAssumption, FS_Subset
  <2>3. Stored = freed + kept
    BY <1>1, <2>1, <2>2, SumSplit DEF Stored
  <2>4. Stored' = SumFunctionOnSet(row', gone) + SumFunctionOnSet(row', Names \ gone)
    BY <1>1, <2>1, <2>2, SumSplit DEF Stored
  <2>5. SumFunctionOnSet(row', gone) = 0
    <3>1. \A n \in gone : row'[n] = 0
      BY <1>1 DEF None
    <3> QED BY <2>2, <3>1, SumZero
  <2>6. SumFunctionOnSet(row', Names \ gone) = kept
    <3>1. \A n \in Names \ gone : row[n] \in Int /\ row[n] = row'[n]
      BY <1>1, <2>1
    <3> QED BY <2>2, <3>1, SumSame
  <2>7. usage' = usage - freed /\ usage' = Stored'
    BY <1>1, <1>2, <1>4, <2>3, <2>4, <2>5, <2>6
  <2>8. ASSUME NEW n \in Names PROVE usage' + row[n] <= usage + row'[n]
    <3>1. CASE n \in gone
      <4>1. freed = row[n] + SumFunctionOnSet(row, gone \ {n})
        BY <1>1, <2>1, <2>2, <3>1, SumOut
      <4>2. SumFunctionOnSet(row, gone \ {n}) \in Nat
        BY <1>1, SumsOfRows
      <4> QED BY <1>1, <1>2, <2>1, <2>7, <3>1, <4>1, <4>2 DEF None
    <3>2. CASE n \notin gone
      <4>1. row'[n] = row[n]
        BY <1>1, <3>2
      <4> QED BY <1>2, <2>1, <2>7, <4>1
    <3> QED BY <3>1, <3>2
  <2> QED BY <2>7, <2>8
<1> QED  BY <1>1, <1>2, <1>3, <1>4 DEF gone

-----------------------------------------------------------------------------
(* Types of the rest. *)

Rest ==
  /\ usage \in Nat /\ sweep.counted \in Nat /\ missing \subseteq Names
  /\ crowded \in BOOLEAN /\ quiet \in BOOLEAN
  /\ calls \in 0..MaxCalls /\ faults \in 0..MaxFaults

LEMMA UsageType == ASSUME Base, Rest, [Next]_vars PROVE usage' \in Nat
<1>1. ASSUME NEW r \in Reqs, Write(r) \/ WriteUnanswered(r) \/ Finalise(r) PROVE usage' \in Nat
  <2>1. req[r].pc \in Alone /\ SetRow(Path(r), req[r].size)
    BY <1>1 DEF Write, WriteUnanswered, Finalise, At, Alone, Pcs
  <2>2. Path(r) \in Names /\ req[r].size \in 0..MaxSize
    BY <2>1, PathOf DEF Sizes
  <2> QED BY <2>1, <2>2, SetRowCounts DEF Rest
<1>2. ASSUME NEW r \in Reqs, DeleteRows(r) PROVE usage' \in Nat
  BY <1>2, DeleteCounts DEF Rest
<1>3. CASE Correct
  BY <1>3, SweepFields, TotalNat DEF Correct, Rest
<1>4. CASE UNCHANGED usage
  BY <1>4 DEF Rest
<1> QED  BY <1>1, <1>2, <1>3, <1>4, EffectsOfSteps DEF Effects

LEMMA RestStep == ASSUME Base, Rest, [Next]_vars PROVE Rest'
<1> USE DEF Rest
<1>0. usage' \in Nat
  BY UsageType
<1>1. ASSUME NEW r \in Reqs, Call(r) PROVE Rest'
  <2>1. /\ UNCHANGED <<sweep, missing, crowded, quiet, faults>>
        /\ calls < MaxCalls /\ calls' = calls + 1
    BY <1>1 DEF Call, Upload, Remove, Sign, Complete, Begin
  <2> QED BY <1>0, <2>1, StorageAssumption
<1>2. ASSUME NEW r \in Reqs, WriteFails(r) \/ WriteUnanswered(r) \/ BytesStay(r) \/ Crash(r) PROVE Rest'
  <2>1. /\ UNCHANGED <<sweep, missing, crowded, calls>> /\ quiet' \in {quiet, FALSE}
        /\ faults < MaxFaults /\ faults' = faults + 1
    BY <1>2 DEF WriteFails, WriteUnanswered, BytesStay, Crash, history
  <2>2. quiet' \in BOOLEAN
    BY <2>1
  <2> QED BY <1>0, <2>1, <2>2, StorageAssumption
<1>3. ASSUME NEW r \in Reqs, Serve(r) PROVE Rest'
  <2>1. UNCHANGED <<sweep, missing, calls, faults>>
    BY <1>3 DEF Serve, Prepare, Put, Write, Undo, DeleteRows, DeleteBytes, Probe, Intend, Head, Sniff,
                Reject, Finalise, bounds
  <2>2. crowded' \in BOOLEAN
    BY <1>3 DEF Serve, Prepare, Put, Write, Undo, DeleteRows, DeleteBytes, Probe, Intend, Head, Sniff,
                Reject, Finalise, Refuse, history
  <2>3. quiet' \in BOOLEAN
    BY <1>3 DEF Serve, Prepare, Put, Write, Undo, DeleteRows, DeleteBytes, Probe, Intend, Head, Sniff,
                Reject, Finalise, history
  <2> QED BY <1>0, <2>1, <2>2, <2>3
<1>4. ASSUME NEW i \in Ids, Direct(i) \/ Expire(i) PROVE Rest'
  <2>1. UNCHANGED <<sweep, missing, crowded, calls, faults>> /\ quiet' \in BOOLEAN
    BY <1>4 DEF Direct, Expire, history, bounds
  <2> QED BY <1>0, <2>1
<1>5. CASE Day \/ List \/ ReadRows \/ ReadIntents \/ Collect \/ ReadLate \/ Forget
  <2>1. UNCHANGED <<missing, crowded, calls, faults>> /\ quiet' \in BOOLEAN
    BY <1>5 DEF Day, List, ReadRows, ReadIntents, Collect, ReadLate, Forget, history, bounds
  <2>2. sweep'.counted \in Nat
    <3>1. CASE List
      BY <3>1 DEF List, NoSweep
    <3>2. CASE Day \/ ReadRows
      BY <3>2, Fields DEF Day, ReadRows, SweepType
    <3>3. CASE ReadIntents
      BY <3>3, Fields DEF ReadIntents, SweepType
    <3>4. CASE Collect
      BY <3>4, Fields DEF Collect, SweepType
    <3>5. CASE ReadLate
      BY <3>5, Fields DEF ReadLate, SweepType
    <3>6. CASE Forget
      BY <3>6, Fields DEF Forget, SweepType
    <3> QED BY <1>5, <3>1, <3>2, <3>3, <3>4, <3>5, <3>6
  <2> QED BY <1>0, <2>1, <2>2
<1>6. CASE DropLate
  <2>1. UNCHANGED <<missing, crowded, calls, quiet>> /\ faults' \in 0..MaxFaults
    BY <1>6, StorageAssumption DEF DropLate, history
  <2>2. sweep'.counted \in Nat
    BY <1>6, Fields DEF DropLate, SweepType
  <2> QED BY <1>0, <2>1, <2>2
<1>7. CASE Report
  <2>1. UNCHANGED <<crowded, quiet, calls, faults>> /\ missing' \subseteq Names
    BY <1>7, SweepFields DEF Report, history, bounds
  <2>2. sweep'.counted \in Nat
    BY <1>7, Fields DEF Report, SweepType
  <2> QED BY <1>0, <2>1, <2>2
<1>8. CASE Correct \/ SweepFails
  <2>1. UNCHANGED <<missing, quiet, calls>> /\ faults' \in 0..MaxFaults
    BY <1>8, StorageAssumption DEF Correct, SweepFails, history, bounds
  <2>3. crowded' = crowded \/ crowded' = TRUE
    BY <1>8 DEF Correct, SweepFails, history
  <2>2. sweep'.counted \in Nat
    BY <1>8 DEF Correct, SweepFails, NoSweep
  <2> QED BY <1>0, <2>1, <2>2, <2>3
<1>9. CASE UNCHANGED vars
  BY <1>9 DEF vars, history, bounds
<1> QED
  BY <1>1, <1>2, <1>3, <1>4, <1>5, <1>6, <1>7, <1>8, <1>9 DEF Next, SweepStep

LEMMA RestInit == Init => Rest
<1> SUFFICES ASSUME Init PROVE Rest
  OBVIOUS
<1>1. /\ usage = 0 /\ sweep.counted = 0 /\ missing = {} /\ calls = 0 /\ faults = 0
  BY DEF Init, NoSweep
<1>2. crowded \in BOOLEAN /\ quiet \in BOOLEAN
  BY DEF Init
<1>3. 0 \in 0..MaxCalls /\ 0 \in 0..MaxFaults /\ 0 \in Nat
  BY StorageAssumption
<1> QED BY <1>1, <1>2, <1>3 DEF Rest

\* Every variable has its type, the counter included: the trigger never takes it below zero.
THEOREM Typing == Spec => []TypeOK
<1>1. IInv /\ Rest => TypeOK
  <2> SUFFICES ASSUME Base, Rest PROVE TypeOK
    BY DEF IInv
  <2>1. sweep \in SweepType(sweep.counted) /\ sweep.counted \in Nat
    BY Fields DEF Rest
  <2> QED
    BY <2>1, Fields DEF TypeOK, Rest, BytesType, IntentType, ReqType, Pcs, SweepType, SweepPcs
<1>2. IInv /\ Rest /\ [Next]_vars => Rest'
  BY RestStep DEF IInv
<1> QED
  BY <1>1, <1>2, InvInit, InvStep, RestInit, RestStep, PTL DEF Spec
-----------------------------------------------------------------------------
(* The true-up. *)

\* Nobody has moved the counter since the sweep read it.
Read == quiet /\ Sweeping("correct") => sweep.counted = usage

LEMMA ReadStep == ASSUME Base, Rest, Read, [Next]_vars PROVE Read'
<1> SUFFICES ASSUME quiet', Sweeping("correct")' PROVE sweep'.counted = usage'
  BY DEF Read
<1>1. ASSUME NEW r \in Reqs, Write(r) \/ WriteUnanswered(r) \/ Finalise(r) PROVE FALSE
  BY <1>1 DEF Write, WriteUnanswered, Finalise
<1>2. ASSUME NEW r \in Reqs, DeleteRows(r) PROVE sweep'.counted = usage'
  <2>1. /\ {n \in req[r].names : row[n] # None} = {} /\ quiet /\ sweep' = sweep
    BY <1>2 DEF DeleteRows
  <2>2. usage' = usage
    BY <1>2, <2>1, DeleteCounts DEF Rest
  <2> QED BY <2>1, <2>2 DEF Read, Sweeping
<1>3. CASE Correct \/ SweepFails
  <2>1. sweep' = NoSweep /\ NoSweep.pc = "idle"
    BY <1>3 DEF Correct, SweepFails, NoSweep
  <2> QED BY <2>1 DEF Sweeping
<1>4. CASE Report
  BY <1>4, Fields DEF Report, SweepType
<1>5. CASE Day \/ List \/ ReadRows
  BY <1>5, Fields DEF Day, List, ReadRows, NoSweep, SweepType, Sweeping
<1>6. CASE ReadIntents
  BY <1>6, Fields DEF ReadIntents, SweepType, Sweeping
<1>7. CASE Collect
  BY <1>7, Fields DEF Collect, SweepType, Sweeping
<1>8. CASE ReadLate \/ DropLate \/ Forget
  BY <1>8, Fields DEF ReadLate, DropLate, Forget, SweepType, Sweeping, history
<1>9. CASE UNCHANGED <<usage, sweep>> /\ (quiet' => quiet)
  BY <1>9 DEF Read, Sweeping
<1>10. ASSUME NEW r \in Reqs, Call(r) \/ WriteFails(r) \/ BytesStay(r) \/ Crash(r)
       PROVE  UNCHANGED <<usage, sweep, quiet>>
  BY <1>10 DEF Call, Upload, Remove, Sign, Complete, Begin, WriteFails, BytesStay, Crash, history
<1>11. ASSUME NEW r \in Reqs, Serve(r), ~Write(r), ~Finalise(r), ~DeleteRows(r)
       PROVE  UNCHANGED <<usage, sweep>> /\ (quiet' => quiet)
  BY <1>11 DEF Serve, Prepare, Put, Undo, DeleteBytes, Probe, Intend, Head, Sniff, Reject, history
<1>12. ASSUME NEW i \in Ids, Direct(i) \/ Expire(i)
       PROVE  UNCHANGED <<usage, sweep>> /\ (quiet' => quiet)
  BY <1>12 DEF Direct, Expire, history
<1>13. CASE UNCHANGED vars
  BY <1>9, <1>13 DEF vars, history
<1> QED
  BY <1>1, <1>2, <1>3, <1>4, <1>5, <1>6, <1>7, <1>8, <1>9, <1>10, <1>11, <1>12, <1>13 DEF Next, SweepStep

\* What a store holds is never off by anything from itself.
LEMMA NotOff == ASSUME NEW total \in Nat PROVE ~Off(total, total)
BY StorageAssumption DEF Off, Drift

LEMMA TrueUp ==
  ASSUME Base, Rest, Undisturbed, Read, [Next]_vars, EndOfSweep
  PROVE  ~Off(Total(AsCounted), usage')
<1>1. /\ quiet /\ sweep.pc = "correct" /\ faults' = faults /\ sweep'.pc = "idle"
      /\ sweep.counted = usage
  BY DEF EndOfSweep, Read, Sweeping
<1>9. AsCounted = sweep.listed
  BY <1>1, SweepFields DEF AsCounted, Undisturbed, Sweeping
<1>2. Total(AsCounted) \in Nat /\ faults \in Nat
  BY <1>9, SweepFields, TotalNat DEF Rest
<1>3. CASE Correct
  BY <1>1, <1>2, <1>3, <1>9, NotOff DEF Correct
<1>4. CASE SweepFails
  BY <1>1, <1>2, <1>4 DEF SweepFails
<1>5. CASE (Day \/ SweepStep) /\ ~Correct
  BY <1>1, <1>5 DEF Day, SweepStep, List, ReadRows, ReadIntents, Collect, ReadLate, DropLate, Forget,
                    Report, Sweeping
<1>6. CASE sweep' = sweep
  BY <1>1, <1>6
<1>7. ASSUME NEW r \in Reqs, Call(r) \/ Serve(r) \/ WriteFails(r) \/ WriteUnanswered(r) \/ BytesStay(r) \/ Crash(r)
      PROVE  sweep' = sweep
  BY <1>7 DEF Call, Upload, Remove, Sign, Complete, Begin, WriteFails, WriteUnanswered, BytesStay,
              Crash, Serve, Prepare,
              Put, Write, Undo, DeleteRows, DeleteBytes, Probe, Intend, Head, Sniff, Reject, Finalise
<1>8. ASSUME NEW i \in Ids, Direct(i) \/ Expire(i) PROVE sweep' = sweep
  BY <1>8 DEF Direct, Expire
<1> QED
  BY <1>3, <1>4, <1>5, <1>6, <1>7, <1>8 DEF Next, vars

\* A true-up that nothing crossed compares the counter as it is with the listing, which is
\* the store but for what pass 2 has deleted: what it leaves is within one percent and the
\* tolerance of that.
THEOREM TrueUps == Spec => TrueUpIsTrue
<1>1. Init => Undisturbed /\ Read
  BY DEF Init, Undisturbed, Read
<1>2. IInv /\ Rest /\ Undisturbed /\ Read /\ [Next]_vars => (Rest /\ Undisturbed /\ Read)'
  BY RestStep, UndisturbedStep, ReadStep DEF IInv
<1>3. IInv /\ Rest /\ Undisturbed /\ Read /\ [Next]_vars
        => [EndOfSweep => ~Off(Total(AsCounted), usage')]_vars
  BY TrueUp DEF IInv
<1> QED
  BY <1>1, <1>2, <1>3, InvInit, InvStep, RestInit, PTL DEF Spec, TrueUpIsTrue
-----------------------------------------------------------------------------
(* The quota. *)

\* An upload that has been let in and has not written its row.
Admitted(r) == req[r].pc \in {"put", "write", "intend", "head", "sniff", "finalise"}

\* Two requests may be completing one and the same upload.
Same(q, r) ==
  req[q].id # None /\ req[q].id = req[r].id /\ req[q].names = req[r].names /\ req[q].size = req[r].size

\* There is one upload at a time ...
OneUpload ==
  /\ \A q, r \in Reqs : Admitted(q) /\ Admitted(r) => q = r \/ Same(q, r)
  /\ \A r \in Reqs, i \in Ids : Admitted(r) /\ Pending(i) =>
       req[r].id = i /\ req[r].names = {intent[i].name} /\ req[r].size = intent[i].size
  /\ \A i, j \in Ids : Pending(i) /\ Pending(j) => i = j

\* ... and room for it.
Within ==
  /\ \A r \in Reqs, n \in Names : Admitted(r) /\ n \in req[r].names =>
       usage + req[r].size <= Ceiling + row[n]
  /\ \A i \in Ids : Pending(i) => usage + intent[i].size <= Ceiling + row[intent[i].name]

Quota == ~crowded => usage = Stored /\ usage <= Ceiling /\ OneUpload /\ Within

\* What was let in before is all there is now.
NoneNew ==
  /\ \A r \in Reqs : Admitted(r)' =>
       /\ Admitted(r) /\ req'[r].size = req[r].size /\ req'[r].names = req[r].names
       /\ req'[r].id = req[r].id
  /\ \A i \in Ids : Pending(i)' =>
       Pending(i) /\ intent'[i].name = intent[i].name /\ intent'[i].size = intent[i].size

LEMMA NoneNewIsOne == ASSUME OneUpload, NoneNew PROVE OneUpload'
<1>1. ASSUME NEW q \in Reqs, NEW r \in Reqs, Admitted(q)', Admitted(r)' PROVE q = r \/ Same(q, r)'
  BY <1>1 DEF OneUpload, NoneNew, Same
<1>2. ASSUME NEW r \in Reqs, NEW i \in Ids, Admitted(r)', Pending(i)'
      PROVE  req'[r].id = i /\ req'[r].names = {intent'[i].name} /\ req'[r].size = intent'[i].size
  BY <1>2 DEF OneUpload, NoneNew
<1>3. \A i, j \in Ids : Pending(i)' /\ Pending(j)' => i = j
  BY DEF OneUpload, NoneNew
<1> QED BY <1>1, <1>2, <1>3 DEF OneUpload

LEMMA QuotaStays ==
  ASSUME Quota, UNCHANGED <<row, usage>>, crowded => crowded', NoneNew
  PROVE  Quota'
<1> SUFFICES ASSUME ~crowded' PROVE usage' = Stored' /\ usage' <= Ceiling /\ OneUpload' /\ Within'
  BY DEF Quota
<1>1. usage = Stored /\ usage <= Ceiling /\ OneUpload /\ Within
  BY DEF Quota
<1>2. usage' = Stored' /\ usage' <= Ceiling
  BY <1>1 DEF Stored
<1>3. Within'
  BY <1>1 DEF Within, NoneNew
<1> QED BY <1>1, <1>2, <1>3, NoneNewIsOne

\* A request that admits nothing.
LEMMA NoneNewBy ==
  ASSUME NEW r \in Reqs, intent' = intent, \A q \in Reqs \ {r} : req'[q] = req[q],
         Admitted(r)' => /\ Admitted(r) /\ req'[r].size = req[r].size
                         /\ req'[r].names = req[r].names /\ req'[r].id = req[r].id
  PROVE  NoneNew
<1>1. ASSUME NEW q \in Reqs, Admitted(q)'
      PROVE  /\ Admitted(q) /\ req'[q].size = req[q].size /\ req'[q].names = req[q].names
             /\ req'[q].id = req[q].id
  BY <1>1 DEF Admitted
<1>2. \A i \in Ids : Pending(i)' => Pending(i)
  BY DEF Pending
<1> QED BY <1>1, <1>2 DEF NoneNew

\* prepare and probe: whoever is let in beside another crowds.
LEMMA QuotaAdmits ==
  ASSUME Base, Quota, NEW r \in Reqs, req[r].pc \in Alone, NEW pc \in {"put", "intend"}, Goto(r, pc),
         UNCHANGED <<row, usage, intent>>, crowded' = (crowded \/ UnderWay(r)),
         usage + req[r].size <= Ceiling + row[Path(r)]
  PROVE  Quota'
<1> SUFFICES ASSUME ~crowded' PROVE usage' = Stored' /\ usage' <= Ceiling /\ OneUpload' /\ Within'
  BY DEF Quota
<1>1. ~crowded /\ ~UnderWay(r) /\ usage = Stored /\ usage <= Ceiling
  BY DEF Quota
<1>2. Path(r) \in Names /\ req[r].names = {Path(r)}
  BY PathOf
<1>3. /\ req'[r].names = req[r].names /\ req'[r].size = req[r].size
      /\ \A q \in Reqs \ {r} : req'[q] = req[q]
  BY GotoMoves DEF Pcs
<1>4. \A q \in Reqs : Admitted(q)' => q = r
  BY <1>1, <1>3 DEF Admitted, UnderWay
<1>5. \A i \in Ids : ~Pending(i)'
  BY <1>1 DEF UnderWay, Pending
<1>6. OneUpload'
  BY <1>4, <1>5 DEF OneUpload
<1>7. Within'
  <2>1. ASSUME NEW q \in Reqs, NEW n \in Names, Admitted(q)', n \in req'[q].names
        PROVE  usage' + req'[q].size <= Ceiling + row'[n]
    <3>1. q = r /\ n = Path(r)
      BY <1>2, <1>3, <1>4, <2>1
    <3> QED BY <1>3, <3>1
  <2> QED BY <1>5, <2>1 DEF Within
<1> QED BY <1>1, <1>6, <1>7 DEF Stored

LEMMA QuotaPrepare ==
  ASSUME Base, Rest, Quota, NEW r \in Reqs, Prepare(r) \/ Probe(r)
  PROVE  Quota'
<1>1. req[r].pc \in Alone /\ UNCHANGED <<row, usage, intent>>
  BY DEF Prepare, Probe, At, Alone, Pcs
<1>2. /\ Path(r) \in Names /\ req[r].size \in Nat /\ row[Path(r)] \in Nat
      /\ usage \in Nat /\ Ceiling \in Nat
  BY <1>1, PathOf, Fields, StorageAssumption DEF Sizes, Rest
<1>3. \/ Refuse(r)
      \/ /\ Goto(r, "put") /\ crowded' = (crowded \/ UnderWay(r))
         /\ ~(usage + req[r].size > Ceiling + row[Path(r)])
      \/ /\ Goto(r, "intend") /\ crowded' = (crowded \/ UnderWay(r))
         /\ ~(usage + req[r].size > Ceiling)
  BY DEF Prepare, Probe
<1>4. CASE Refuse(r)
  <2>1. NoneNew
    BY <1>1, <1>4, DoneMoves, NoneNewBy DEF Refuse, Admitted
  <2> QED BY <1>1, <1>4, <2>1, QuotaStays DEF Refuse
<1>5. CASE ~Refuse(r)
  <2>1. usage + req[r].size <= Ceiling + row[Path(r)]
    BY <1>2, <1>3, <1>5
  <2> QED BY <1>1, <1>3, <1>5, <2>1, QuotaAdmits
<1> QED BY <1>4, <1>5

LEMMA QuotaIntend == ASSUME Base, Quota, NEW r \in Reqs, Intend(r) PROVE Quota'
<1> SUFFICES ASSUME ~crowded' PROVE usage' = Stored' /\ usage' <= Ceiling /\ OneUpload' /\ Within'
  BY DEF Quota
<1>1. req[r].pc = "intend" /\ Done(r) /\ UNCHANGED <<row, usage, crowded>>
  BY DEF Intend, At, history
<1>2. usage = Stored /\ usage <= Ceiling /\ OneUpload /\ Within /\ Admitted(r) /\ req[r].id = None
  BY <1>1 DEF Quota, Base, Carrying, Admitted, Completing
<1>3. PICK i \in Ids : intent' = [intent EXCEPT ![i] = [at |-> "kept", name |-> Path(r),
                                                        size |-> req[r].size, url |-> "live"]]
  BY DEF Intend
<1>4. /\ intent'[i].name = Path(r) /\ intent'[i].size = req[r].size
      /\ \A j \in Ids \ {i} : intent'[j] = intent[j]
  BY <1>3, Fields
<1>5. Path(r) \in Names /\ req[r].names = {Path(r)} /\ None \notin Ids
  BY <1>1, PathOf, Fields DEF Alone, Pcs
<1>6. ASSUME NEW q \in Reqs PROVE ~Admitted(q)'
  <2>1. CASE q = r
    BY <1>1, <2>1, DoneMoves DEF Admitted
  <2>2. CASE q # r
    <3>1. req'[q] = req[q]
      BY <1>1, <2>2, DoneMoves
    <3>2. ~Admitted(q)
      BY <1>2, <2>2 DEF OneUpload, Same
    <3> QED BY <3>1, <3>2 DEF Admitted
  <2> QED BY <2>1, <2>2
<1>7. \A j \in Ids : Pending(j)' => j = i
  BY <1>2, <1>4, <1>5 DEF OneUpload, Pending
<1>8. usage' + intent'[i].size <= Ceiling + row'[intent'[i].name]
  BY <1>1, <1>2, <1>4, <1>5 DEF Within
<1>9. OneUpload' /\ Within'
  BY <1>6, <1>7, <1>8 DEF OneUpload, Within
<1> QED BY <1>1, <1>2, <1>9 DEF Stored

LEMMA QuotaComplete == ASSUME Base, Quota, NEW r \in Reqs, Complete(r) PROVE Quota'
<1> SUFFICES ASSUME ~crowded' PROVE usage' = Stored' /\ usage' <= Ceiling /\ OneUpload' /\ Within'
  BY DEF Quota
<1>1. PICK i \in Ids : /\ Pending(i)
                       /\ Begin(r, [NoReq EXCEPT !.pc = "head", !.names = {intent[i].name},
                                                 !.size = intent[i].size, !.id = i])
  BY DEF Complete
<1>2. /\ req'[r].names = {intent[i].name} /\ req'[r].size = intent[i].size /\ req'[r].id = i
      /\ \A q \in Reqs \ {r} : req'[q] = req[q]
      /\ UNCHANGED <<row, usage, intent, crowded>>
  BY <1>1, Fields DEF Begin, NoReq
<1>3. usage = Stored /\ usage <= Ceiling /\ OneUpload /\ Within /\ i # None
  BY <1>2, Fields DEF Quota
<1>4. ASSUME NEW q \in Reqs, Admitted(q)'
      PROVE  req'[q].names = {intent[i].name} /\ req'[q].size = intent[i].size /\ req'[q].id = i
  BY <1>1, <1>2, <1>3, <1>4 DEF OneUpload, Admitted
<1>5. \A j \in Ids : Pending(j)' => j = i
  BY <1>1, <1>2, <1>3 DEF OneUpload, Pending
<1>6. OneUpload'
  BY <1>2, <1>3, <1>4, <1>5 DEF OneUpload, Same
<1>7. usage + intent[i].size <= Ceiling + row[intent[i].name]
  BY <1>1, <1>3 DEF Within
<1>8. Within'
  BY <1>2, <1>4, <1>5, <1>7 DEF Within
<1> QED BY <1>2, <1>3, <1>6, <1>8 DEF Stored

LEMMA QuotaWrite ==
  ASSUME Base, Rest, Quota, NEW r \in Reqs, Write(r) \/ WriteUnanswered(r) \/ Finalise(r)
  PROVE  Quota'
<1> DEFINE n == Path(r)
           s == req[r].size
<1> SUFFICES ASSUME ~crowded' PROVE usage' = Stored' /\ usage' <= Ceiling /\ OneUpload' /\ Within'
  BY DEF Quota
<1>1. /\ req[r].pc \in {"write", "finalise"} /\ SetRow(n, s) /\ crowded' = crowded
      /\ Done(r) \/ Goto(r, "undo")
  BY DEF Write, WriteUnanswered, Finalise, At
<1>2. /\ n \in Names /\ req[r].names = {n} /\ s \in 0..MaxSize /\ s \in Nat /\ row[n] \in Nat
  BY <1>1, PathOf, Fields DEF Alone, Pcs, Sizes
<1>3. /\ usage = Stored /\ usage <= Ceiling /\ OneUpload /\ Within /\ Admitted(r)
      /\ usage + s <= Ceiling + row[n] /\ usage \in Nat /\ Ceiling \in Nat
  BY <1>1, <1>2, StorageAssumption DEF Quota, Within, Admitted, Rest
<1>4. usage' = usage + s - row[n] /\ usage' = Stored' /\ row'[n] = s
  BY <1>2, <1>1, <1>3, SetRowCounts, SetRowMoves
<1>5. usage' <= Ceiling /\ usage' \in Nat
  BY <1>2, <1>3, <1>4, StoredBounds
<1> HIDE DEF n, s
<1>6. ~Admitted(r)' /\ \A q \in Reqs \ {r} : req'[q] = req[q]
  BY <1>1, DoneMoves, GotoMoves DEF Admitted, Pcs
<1>7. ASSUME NEW q \in Reqs, Admitted(q)'
      PROVE  Admitted(q) /\ req'[q] = req[q] /\ req[q].names = {n} /\ req[q].size = s
  <2>1. q # r /\ req'[q] = req[q] /\ Admitted(q)
    BY <1>6, <1>7 DEF Admitted
  <2>2. Same(q, r)
    BY <1>3, <2>1 DEF OneUpload
  <2> QED BY <1>2, <2>1, <2>2 DEF Same, s
<1>8. ASSUME NEW i \in Ids PROVE ~Pending(i)'
  <2>1. CASE Write(r) \/ WriteUnanswered(r)
    <3>1. req[r].id = None /\ intent' = intent
      BY <2>1 DEF Base, Carrying, Write, WriteUnanswered, At, Completing
    <3> QED BY <1>3, <3>1, Fields DEF OneUpload, Pending
  <2>2. CASE Finalise(r)
    <3>1. req[r].id \in Ids /\ intent' = Ended(req[r].id)
      BY <2>2 DEF Base, Carrying, Finalise, At, Completing
    <3>2. CASE i = req[r].id
      BY <3>1, <3>2, EndedMoves, NoIntentType DEF Pending
    <3>3. CASE i # req[r].id
      BY <1>3, <3>1, <3>3, EndedMoves DEF OneUpload, Pending
    <3> QED BY <3>2, <3>3
  <2> QED BY <2>1, <2>2
<1>9. OneUpload'
  BY <1>3, <1>7, <1>8 DEF OneUpload, Same
<1>10. Within'
  <2>1. ASSUME NEW q \in Reqs, NEW m \in Names, Admitted(q)', m \in req'[q].names
        PROVE  usage' + req'[q].size <= Ceiling + row'[m]
    BY <1>2, <1>3, <1>4, <1>5, <1>7, <2>1 DEF s
  <2> QED BY <1>8, <2>1 DEF Within
<1> QED BY <1>4, <1>5, <1>9, <1>10

LEMMA QuotaDelete == ASSUME Base, Rest, Quota, NEW r \in Reqs, DeleteRows(r) PROVE Quota'
<1> DEFINE gone == {n \in req[r].names : row[n] # None}
<1> SUFFICES ASSUME ~crowded' PROVE usage' = Stored' /\ usage' <= Ceiling /\ OneUpload' /\ Within'
  BY DEF Quota
<1>1. /\ UNCHANGED <<intent, crowded>> /\ gone \subseteq Names
      /\ row' = [n \in Names |-> IF n \in gone THEN None ELSE row[n]]
      /\ Done(r) \/ req' = [req EXCEPT ![r].pc = "bytes", ![r].names = gone]
  BY Fields DEF DeleteRows, ReqType
<1>2. ~Admitted(r)' /\ \A q \in Reqs \ {r} : req'[q] = req[q]
  <2>1. CASE Done(r)
    BY <2>1, DoneMoves DEF Admitted
  <2>2. CASE req' = [req EXCEPT ![r].pc = "bytes", ![r].names = gone]
    <3>1. req' = [req EXCEPT ![r] = [req[r] EXCEPT !.pc = "bytes", !.names = gone]]
      BY <2>2
    <3>2. req'[r].pc = "bytes" /\ \A q \in Reqs \ {r} : req'[q] = req[q]
      BY <3>1, Fields DEF ReqType
    <3> QED BY <3>2 DEF Admitted
  <2> QED BY <1>1, <2>1, <2>2
<1>3. NoneNew
  BY <1>1, <1>2, NoneNewBy
<1>4. usage = Stored /\ usage <= Ceiling /\ OneUpload /\ Within /\ usage \in Nat /\ Ceiling \in Nat
  BY <1>1, StorageAssumption DEF Quota, Rest
<1>5. /\ usage' \in Nat /\ usage' <= Ceiling /\ usage' = Stored'
      /\ \A n \in Names : usage' + row[n] <= usage + row'[n]
  BY <1>4, DeleteCounts
<1>6. \A n \in Names : row[n] \in Nat /\ row'[n] \in Nat
  BY <1>1, Fields DEF None
<1>7. ASSUME NEW q \in Reqs, NEW n \in Names, Admitted(q)', n \in req'[q].names
      PROVE  usage' + req'[q].size <= Ceiling + row'[n]
  <2>1. usage + req[q].size <= Ceiling + row[n] /\ req'[q].size = req[q].size /\ req[q].size \in Nat
    BY <1>3, <1>4, <1>7, Fields DEF NoneNew, Within, ReqType
  <2> QED BY <1>4, <1>5, <1>6, <2>1
<1>8. ASSUME NEW i \in Ids, Pending(i)'
      PROVE  usage' + intent'[i].size <= Ceiling + row'[intent'[i].name]
  <2>1. /\ usage + intent[i].size <= Ceiling + row[intent[i].name]
        /\ intent[i].name \in Names /\ intent[i].size \in Nat
    BY <1>1, <1>4, <1>8, Fields DEF Within, Pending, Base, Standing, IntentType
  <2> QED BY <1>1, <1>4, <1>5, <1>6, <2>1
<1>9. Within'
  BY <1>7, <1>8 DEF Within
<1> QED BY <1>3, <1>4, <1>5, <1>9, NoneNewIsOne
LEMMA QuotaBegins ==
  ASSUME Base, Quota, NEW r \in Reqs, Upload(r) \/ Remove(r) \/ Sign(r)
  PROVE  Quota'
<1>1. /\ UNCHANGED <<row, usage, intent, crowded>>
      /\ \A q \in Reqs \ {r} : req'[q] = req[q]
      /\ req'[r].pc \in {"prepare", "delete", "probe"}
  <2>1. PICK q : Begin(r, q) /\ q.pc \in {"prepare", "delete", "probe"}
    <3>1. CASE Upload(r)
      <4>1. PICK n \in Names, s \in Sizes : Begin(r, [NoReq EXCEPT !.pc = "prepare", !.names = {n}, !.size = s])
        BY <3>1 DEF Upload
      <4>2. [NoReq EXCEPT !.pc = "prepare", !.names = {n}, !.size = s].pc = "prepare"
        BY DEF NoReq
      <4> QED BY <4>1, <4>2
    <3>2. CASE Remove(r)
      <4>1. PICK ns \in SUBSET Names : Begin(r, [NoReq EXCEPT !.pc = "delete", !.names = ns])
        BY <3>2 DEF Remove
      <4>2. [NoReq EXCEPT !.pc = "delete", !.names = ns].pc = "delete"
        BY DEF NoReq
      <4> QED BY <4>1, <4>2
    <3>3. CASE Sign(r)
      <4>1. PICK n \in Names, s \in Sizes : Begin(r, [NoReq EXCEPT !.pc = "probe", !.names = {n}, !.size = s])
        BY <3>3 DEF Sign
      <4>2. [NoReq EXCEPT !.pc = "probe", !.names = {n}, !.size = s].pc = "probe"
        BY DEF NoReq
      <4> QED BY <4>1, <4>2
    <3> QED BY <3>1, <3>2, <3>3
  <2> QED BY <2>1, Fields DEF Begin
<1>2. NoneNew
  BY <1>1, NoneNewBy DEF Admitted
<1> QED BY <1>1, <1>2, QuotaStays

LEMMA QuotaServes ==
  ASSUME Base, Quota, NEW r \in Reqs,
         \/ Put(r) \/ Undo(r) \/ DeleteBytes(r) \/ Head(r) \/ Sniff(r) \/ Reject(r)
         \/ WriteFails(r) \/ BytesStay(r) \/ Crash(r)
  PROVE  Quota'
<1>1. UNCHANGED <<row, usage, intent, crowded>>
  BY DEF Put, Undo, DeleteBytes, Head, Sniff, Reject, WriteFails, BytesStay, Crash, history
<1>2. CASE Done(r)
  BY <1>1, <1>2, DoneMoves, NoneNewBy, QuotaStays DEF Admitted
<1>3. CASE \E pc \in {"write", "undo", "reject", "sniff", "finalise"} :
             Goto(r, pc) /\ req[r].pc \in {"put", "write", "head", "sniff"}
  BY <1>1, <1>3, GotoMoves, NoneNewBy, QuotaStays DEF Admitted, Pcs
<1>4. CASE req[r].pc \in {"bytes", "undo", "reject"} /\ \E n \in req[r].names : Leave(r, n)
  <2>1. PICK n \in req[r].names : Leave(r, n)
    BY <1>4
  <2>2. n \in Names
    BY Fields DEF ReqType
  <2> QED BY <1>1, <1>4, <2>1, <2>2, LeaveMoves, NoneNewBy, QuotaStays DEF Admitted
<1> QED
  BY <1>2, <1>3, <1>4
     DEF Put, Undo, DeleteBytes, Head, Sniff, Reject, WriteFails, BytesStay, Crash, At

\* URLs and the sweep: nobody is let in, some are given up.
LEMMA QuotaRest ==
  ASSUME Base, Quota, (\E i \in Ids : Direct(i) \/ Expire(i)) \/ Day \/ SweepStep \/ SweepFails
  PROVE  Quota'
<1>1. req' = req /\ row' = row
  BY DEF Direct, Expire, Day, SweepStep, List, ReadRows, ReadIntents, Collect, ReadLate, DropLate,
         Forget, Report, Correct, SweepFails
<1>2. /\ crowded => crowded'
      /\ usage' = usage \/ crowded'
  <2>1. CASE Correct
    BY <2>1 DEF Correct
  <2>2. CASE ~Correct
    <3>1. UNCHANGED <<usage, crowded>>
      BY <2>2 DEF Direct, Expire, Day, SweepStep, List, ReadRows, ReadIntents, Collect, ReadLate, DropLate,
                  Forget, Report, SweepFails, history
    <3> QED BY <3>1
  <2> QED BY <2>1, <2>2
<1>3. \A i \in Ids : Pending(i)' =>
        Pending(i) /\ intent'[i].name = intent[i].name /\ intent'[i].size = intent[i].size
  <2>1. CASE intent' = intent
    BY <2>1 DEF Pending
  <2>2. ASSUME NEW i \in Ids, Expire(i)
        PROVE  \A j \in Ids : Pending(j)' => /\ Pending(j) /\ intent'[j].name = intent[j].name
                                             /\ intent'[j].size = intent[j].size
    BY <2>2, Fields, NoIntentType DEF Expire, Pending, IntentType
  <2>3. CASE Forget
    <3>1. sweep.id \in Ids /\ intent' = Ended(sweep.id)
      BY <2>3 DEF Forget, Sweeping, Base, Working
    <3>2. ASSUME NEW j \in Ids, Pending(j)' PROVE intent'[j] = intent[j]
      BY <3>1, <3>2, EndedMoves, NoIntentType DEF Pending
    <3> QED BY <3>2 DEF Pending
  <2> QED
    BY <2>1, <2>2, <2>3
       DEF Direct, Day, SweepStep, List, ReadRows, ReadIntents, Collect, ReadLate, DropLate, Report,
           Correct, SweepFails
<1>4. NoneNew
  BY <1>1, <1>3 DEF NoneNew, Admitted
<1>5. CASE usage' = usage
  BY <1>1, <1>2, <1>4, <1>5, QuotaStays
<1>6. CASE crowded'
  BY <1>6 DEF Quota
<1> QED BY <1>2, <1>5, <1>6

LEMMA QuotaStep == ASSUME Base, Rest, Quota, [Next]_vars PROVE Quota'
<1>1. ASSUME NEW r \in Reqs, Call(r) PROVE Quota'
  BY <1>1, QuotaBegins, QuotaComplete DEF Call
<1>2. ASSUME NEW r \in Reqs, Serve(r) \/ WriteFails(r) \/ WriteUnanswered(r) \/ BytesStay(r) \/ Crash(r)
      PROVE  Quota'
  BY <1>2, QuotaPrepare, QuotaServes, QuotaIntend, QuotaWrite, QuotaDelete DEF Serve
<1>3. CASE UNCHANGED vars
  <2>1. UNCHANGED <<row, usage, req, intent, crowded>>
    BY <1>3 DEF vars, history
  <2>2. NoneNew
    BY <2>1 DEF NoneNew, Admitted, Pending
  <2> QED BY <2>1, <2>2, QuotaStays
<1> QED
  BY <1>1, <1>2, <1>3, QuotaRest DEF Next

LEMMA QuotaInit == Init => Quota
<1> SUFFICES ASSUME Init PROVE Quota
  OBVIOUS
<1>1. Stored = 0
  BY SumZero, StorageAssumption DEF Init, Stored, None
<1>2. (\A r \in Reqs : ~Admitted(r)) /\ (\A i \in Ids : ~Pending(i))
  BY NoReqType, NoIntentType DEF Init, Admitted, Pending
<1>3. usage = 0 /\ 0 <= Ceiling
  BY StorageAssumption DEF Init
<1> QED BY <1>1, <1>2, <1>3 DEF Quota, OneUpload, Within

\* Uploads one after the other, presigned ones included, never take a project past its
\* plan, whatever is deleted, crashes or expires meanwhile: until two are let in side by side,
\* or the sweep rewrites the counter, the counter is the sum of the rows and there is
\* room for the one upload under way.
THEOREM QuotaHolds == Spec => []OvershootIsCrowded
<1>1. IInv /\ Rest /\ Quota => OvershootIsCrowded
  BY StorageAssumption DEF Quota, Rest, OvershootIsCrowded
<1>2. IInv /\ Rest /\ Quota /\ [Next]_vars => (Rest /\ Quota)'
  BY RestStep, QuotaStep DEF IInv
<1> QED
  BY <1>1, <1>2, InvInit, InvStep, RestInit, QuotaInit, PTL DEF Spec
=============================================================================
