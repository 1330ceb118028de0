--------------------------- MODULE PlacementProofs --------------------------
(***************************************************************************)
(* For any number of nodes, projects and runners, and with nothing         *)
(* assumed about which jobs run side by side (Apart is arbitrary): no two  *)
(* projects share a port, no project lands on a cordoned node, the disk    *)
(* counter of a node is the sum of its bookings, no node is booked past    *)
(* its disk stop, nor past its RAM stop where no reconciler rewrites the   *)
(* counter (a pass books the paused projects again).  Where the callers    *)
(* keep bookRam apart from itself and from releaseNode, the RAM counter is *)
(* the sum of the bookings too.                                            *)
(*                                                                         *)
(* The argument is about the node's lock.  From the moment a transaction   *)
(* has read a node under its lock (Held), the room, the free slot and the  *)
(* status it read are still there, since whoever would change them needs   *)
(* the same lock; so its writes at Commit find what its reads promised,    *)
(* and change the counter by what they change of the rows.                 *)
(***************************************************************************)
EXTENDS Placement, Sums

(* w has read its node under the lock, and will write to it. *)
Held(w) ==
  \/ tx[w].op = "allocate" /\ tx[w].pc \in {"insert", "commit"}
  \/ tx[w].op = "bookRam" /\ tx[w].pc \in {"row", "commit"}
  \/ tx[w].op \in {"releaseNode", "releaseRam"} /\ tx[w].pc = "commit"

(* A transaction that is under way has a project; one past its lookup has a node. *)
Located(w) ==
  /\ tx[w].pc # "idle" => tx[w].p \in Projects
  /\ tx[w].pc \in {"insert", "node", "row", "commit"} => tx[w].at \in Nodes
  /\ tx[w].op \in {"releaseNode", "releaseRam"} => tx[w].pc \in {"idle", "begin", "node", "commit"}

(* What a transaction read under the node's lock still holds. *)
Promised(w) ==
  Held(w) =>
    /\ nodeLock[tx[w].at] = w
    /\ tx[w].op = "allocate" =>
         /\ Fits(tx[w].at, tx[w].p)
         /\ tx[w].at \in active
         /\ tx[w].pc = "commit" => tx[w].slot \in FreeSlots(tx[w].at)
    /\ tx[w].op = "bookRam" =>
         Stop[tx[w].at].ram - reserved[tx[w].at].ram >= Ram[tx[w].p]

(* A node is within its stops, on the axes nobody but the transactions writes. *)
Roomy(n) ==
  /\ reserved[n].disk <= Stop[n].disk
  /\ n \notin Reconciles => reserved[n].ram <= Stop[n].ram

IInv ==
  /\ TypeOK
  /\ \A w \in Workers : Located(w)
  /\ \A w \in Workers : Promised(w)
  /\ \A n \in Nodes : Roomy(n)
  /\ SlotsDistinct

-----------------------------------------------------------------------------
(* Types *)

TxType == [pc : Locations, op : Ops, p : Projects \cup {None},
           at : Nodes \cup {None}, slot : Slots \cup {None}, ram : Nat,
           left : SUBSET Nodes, rank : [Nodes -> Nat]]

LEMMA NoTxType == NoTx \in TxType
BY DEF NoTx, TxType, Locations, Ops

PassType == [pc : {"idle", "rows", "repair"}, was : Nat, rows : SUBSET Projects]

RowType == [node : Nodes \cup {None}, slot : Slots \cup {None}, ram : Nat]

LEMMA Types ==
  TypeOK <=>
    /\ reserved \in [Nodes -> Amounts]
    /\ active \subseteq Nodes
    /\ placed \in [Projects -> RowType]
    /\ nodeLock \in [Nodes -> Workers \cup {None}]
    /\ rowLock \in [Projects -> Workers \cup {None}]
    /\ tx \in [Workers -> TxType]
    /\ pass \in [Nodes -> PassType]
BY DEF TypeOK, TxType, RowType, PassType

LEMMA TypesNext ==
  ASSUME reserved' \in [Nodes -> Amounts],
         active' \subseteq Nodes,
         placed' \in [Projects -> RowType],
         nodeLock' \in [Nodes -> Workers \cup {None}],
         rowLock' \in [Projects -> Workers \cup {None}],
         tx' \in [Workers -> TxType],
         pass' \in [Nodes -> PassType]
  PROVE  TypeOK'
BY DEF TypeOK, TxType, RowType, PassType

\* Every action but Commit and Cordon: one transaction moves, locks come and go.
LEMMA StepType ==
  ASSUME TypeOK, NEW w \in Workers, NEW t \in TxType, Step(w, t),
         nodeLock' \in [Nodes -> Workers \cup {None}],
         rowLock' \in [Projects -> Workers \cup {None}],
         UNCHANGED <<reserved, active, placed, pass>>
  PROVE  TypeOK'
BY Types, TypesNext DEF Step

\* Ending a transaction keeps the types of locks and transactions.
LEMMA EndType ==
  ASSUME TypeOK, NEW w \in Workers, End(w)
  PROVE  /\ nodeLock' \in [Nodes -> Workers \cup {None}]
         /\ rowLock' \in [Projects -> Workers \cup {None}]
         /\ tx' \in [Workers -> TxType]
BY NoTxType, Types DEF End, Unlocked, Step

LEMMA EndsType ==
  ASSUME TypeOK, NEW w \in Workers, End(w), UNCHANGED <<reserved, active, placed, pass>>
  PROVE  TypeOK'
BY EndType, Types, TypesNext

\* What Commit writes, one case per operation.
Writes(w, row, res) ==
  /\ placed' = [placed EXCEPT ![tx[w].p] = row]
  /\ reserved' = [reserved EXCEPT ![tx[w].at] = res]

LEMMA CommitWrites ==
  ASSUME TypeOK, NEW w \in Workers, Located(w), Commit(w)
  PROVE  /\ tx[w].p \in Projects /\ tx[w].at \in Nodes
         /\ \E row \in RowType, res \in Amounts :
              /\ Writes(w, row, res)
              /\ \/ /\ tx[w].op = "allocate"
                    /\ row.node = tx[w].at /\ row.slot = tx[w].slot
                    /\ res.ram = reserved[tx[w].at].ram + Ram[tx[w].p]
                    /\ res.disk = reserved[tx[w].at].disk + Disk[tx[w].p]
                 \/ /\ tx[w].op = "bookRam"
                    /\ row.node \in {None, placed[tx[w].p].node}
                    /\ row.slot = placed[tx[w].p].slot \/ row.node = None
                    /\ res.ram = reserved[tx[w].at].ram + Ram[tx[w].p]
                    /\ res.disk = reserved[tx[w].at].disk
                 \/ /\ tx[w].op \in {"releaseNode", "releaseRam"}
                    /\ row.node \in {None, placed[tx[w].p].node}
                    /\ row.slot = placed[tx[w].p].slot \/ row.node = None
                    /\ res.ram <= reserved[tx[w].at].ram
                    /\ res.disk <= reserved[tx[w].at].disk
<1> DEFINE p == tx[w].p
           n == tx[w].at
           r == reserved[n]
<1>1. p \in Projects /\ n \in Nodes /\ tx[w] \in TxType
  BY Types DEF Commit, Located
<1>2. r \in Amounts /\ placed[p] \in RowType /\ Ram[p] \in Nat /\ Disk[p] \in Nat
  BY <1>1, Types, PlacementAssumption
<1>3. /\ tx[w].op \in Ops /\ tx[w].slot \in Slots \cup {None} /\ tx[w].ram \in Nat
      /\ r.ram \in Nat /\ r.disk \in Nat
  BY <1>1, <1>2 DEF TxType, Amounts
<1>4. CASE tx[w].op = "allocate"
  <2> DEFINE row == [node |-> n, slot |-> tx[w].slot, ram |-> Ram[p]]
             res == [ram |-> r.ram + Ram[p], disk |-> r.disk + Disk[p]]
  <2>1. row \in RowType /\ res \in Amounts
    BY <1>1, <1>2, <1>3 DEF RowType, Amounts
  <2>2. Writes(w, row, res)
    BY <1>4 DEF Commit, Writes
  <2> QED BY <1>1, <1>4, <2>1, <2>2
<1>5. CASE tx[w].op = "releaseNode"
  <2> DEFINE res == [ram |-> Minus(r.ram, tx[w].ram), disk |-> Minus(r.disk, Disk[p])]
  <2>1. Absent \in RowType /\ Absent.node = None /\ res \in Amounts
    BY <1>1, <1>2, <1>3 DEF RowType, Amounts, Absent, Minus
  <2>2. res.ram <= r.ram /\ res.disk <= r.disk
    BY <1>2, <1>3 DEF Minus
  <2>3. Writes(w, Absent, res)
    BY <1>5 DEF Commit, Writes, Freed
  <2> QED BY <1>1, <1>5, <2>1, <2>2, <2>3
<1>6. CASE tx[w].op = "releaseRam"
  <2> DEFINE row == [placed[p] EXCEPT !.ram = 0]
             res == [ram |-> Minus(r.ram, tx[w].ram), disk |-> r.disk]
  <2>1. row \in RowType /\ row.node = placed[p].node /\ row.slot = placed[p].slot
    BY <1>2 DEF RowType
  <2>2. res \in Amounts /\ res.ram <= r.ram /\ res.disk <= r.disk
    BY <1>2, <1>3 DEF Minus, Amounts
  <2>3. Writes(w, row, res)
    BY <1>6 DEF Commit, Writes, Freed
  <2> QED BY <1>1, <1>6, <2>1, <2>2, <2>3
<1>7. CASE tx[w].op = "bookRam"
  <2> DEFINE row == IF HasRow(p) THEN [placed[p] EXCEPT !.ram = Ram[p]] ELSE Absent
             res == [ram |-> r.ram + Ram[p], disk |-> r.disk]
  <2>1. /\ row \in RowType /\ row.node \in {None, placed[p].node}
        /\ row.slot = placed[p].slot \/ row.node = None
    BY <1>2 DEF RowType, Absent
  <2>2. res \in Amounts
    BY <1>2, <1>3 DEF Amounts
  <2>3. Writes(w, row, res)
    BY <1>7 DEF Commit, Writes
  <2> QED BY <1>1, <1>7, <2>1, <2>2, <2>3
<1> QED
  BY <1>3, <1>4, <1>5, <1>6, <1>7 DEF Ops

LEMMA TypeOK_Init == Init => TypeOK
BY NoTxType, Types DEF Init, RowType, Amounts, Absent, PassType, NoPass

LEMMA TypeOK_Next ==
  ASSUME TypeOK, \A w \in Workers : Located(w), [Next]_vars
  PROVE  TypeOK'
<1>0. /\ reserved \in [Nodes -> Amounts]
      /\ active \subseteq Nodes
      /\ placed \in [Projects -> RowType]
      /\ nodeLock \in [Nodes -> Workers \cup {None}]
      /\ rowLock \in [Projects -> Workers \cup {None}]
      /\ tx \in [Workers -> TxType]
      /\ pass \in [Nodes -> PassType]
  BY Types
<1>1. ASSUME NEW w \in Workers, NEW op \in Ops, NEW p \in Projects, Start(w, op, p), UNCHANGED pass
      PROVE  TypeOK'
  <2>1. [NoTx EXCEPT !.pc = "begin", !.op = op, !.p = p] \in TxType
    BY NoTxType DEF NoTx, TxType, Locations
  <2> QED BY <1>1, <2>1, <1>0, StepType DEF Start
<1>2. ASSUME NEW w \in Workers, FindExisting(w), UNCHANGED pass
      PROVE  TypeOK'
  <2>1. [tx[w] EXCEPT !.pc = "rank"] \in TxType
    BY <1>0 DEF TxType, Locations
  <2> QED BY <1>2, <2>1, <1>0, StepType, EndsType DEF FindExisting
<1>3. ASSUME NEW w \in Workers, Rank(w), UNCHANGED pass
      PROVE  TypeOK'
  <2>1. Ranking \in [Nodes -> Nat]
    BY FS_Subset, FS_CardinalityType, PlacementAssumption DEF Ranking
  <2> DEFINE fitting == {n \in active : Fits(n, tx[w].p)}
  <2>2. fitting \in SUBSET Nodes
    BY <1>0
  <2> HIDE DEF fitting
  <2>3. [tx[w] EXCEPT !.pc = "try", !.left = fitting, !.rank = Ranking] \in TxType
    BY <1>0, <2>1, <2>2 DEF TxType, Locations
  <2>4. \/ End(w)
        \/ /\ Step(w, [tx[w] EXCEPT !.pc = "try", !.left = fitting, !.rank = Ranking])
           /\ UNCHANGED <<nodeLock, rowLock>>
    BY <1>3 DEF Rank, fitting
  <2>5. UNCHANGED <<reserved, active, placed>>
    BY <1>3 DEF Rank
  <2> QED BY <1>3, <2>3, <2>4, <2>5, <1>0, StepType, EndsType
<1>4. ASSUME NEW w \in Workers, Try(w), UNCHANGED pass
      PROVE  TypeOK'
  <2>1. PICK n, t :
          /\ n \in tx[w].left
          /\ t \in {[tx[w] EXCEPT !.left = @ \ {n}],
                    [tx[w] EXCEPT !.left = @ \ {n}, !.at = n, !.pc = "insert"]}
          /\ Step(w, t) /\ LockNode(w, n) /\ UNCHANGED <<reserved, active, placed, rowLock>>
    BY <1>4 DEF Try, TryIf
  <2>2. n \in Nodes /\ tx[w].left \ {n} \in SUBSET Nodes
    BY <1>0, <2>1 DEF TxType
  <2>3. t \in TxType
    <3>1. CASE t = [tx[w] EXCEPT !.left = @ \ {n}]
      BY <1>0, <3>1, <2>2 DEF TxType
    <3>2. CASE t = [tx[w] EXCEPT !.left = @ \ {n}, !.at = n, !.pc = "insert"]
      BY <1>0, <3>2, <2>2 DEF TxType, Locations
    <3> QED BY <2>1, <3>1, <3>2
  <2> QED BY <1>4, <2>1, <2>2, <2>3, <1>0, StepType DEF LockNode
<1>5. ASSUME NEW w \in Workers, OutOfCandidates(w), UNCHANGED pass
      PROVE  TypeOK'
  BY <1>5, EndsType DEF OutOfCandidates
<1>6. ASSUME NEW w \in Workers, Insert(w), UNCHANGED pass
      PROVE  TypeOK'
  <2>1. ASSUME NEW s \in FreeSlots(tx[w].at)
        PROVE  [tx[w] EXCEPT !.slot = s, !.pc = "commit"] \in TxType
    BY <1>0, <2>1 DEF TxType, Locations, FreeSlots
  <2>2. \/ End(w)
        \/ /\ \E s \in FreeSlots(tx[w].at) : Step(w, [tx[w] EXCEPT !.slot = s, !.pc = "commit"])
           /\ LockRow(w, tx[w].p) /\ UNCHANGED nodeLock
    BY <1>6 DEF Insert
  <2>3. UNCHANGED <<reserved, active, placed>>
    BY <1>6 DEF Insert
  <2>4. CASE End(w)
    BY <1>6, <2>3, <2>4, EndsType
  <2>5. CASE ~End(w)
    <3>1. PICK t \in TxType : Step(w, t)
      BY <2>1, <2>2, <2>5
    <3>2. nodeLock' = nodeLock /\ rowLock' \in [Projects -> Workers \cup {None}]
      BY <2>2, <2>5, <1>0 DEF LockRow
    <3> QED BY <1>6, <2>3, <3>1, <3>2, <1>0, StepType
  <2> QED BY <2>4, <2>5
<1>7. ASSUME NEW w \in Workers, TakeRow(w), UNCHANGED pass
      PROVE  TypeOK'
  <2> DEFINE t == [tx[w] EXCEPT !.pc = "node", !.at = placed[tx[w].p].node,
                                !.ram = placed[tx[w].p].ram]
  <2>1. tx[w].p \in Projects
    BY <1>7 DEF TakeRow, Located
  <2>2. t \in TxType
    <3>1. placed[tx[w].p].node \in Nodes \cup {None} /\ placed[tx[w].p].ram \in Nat
      BY <1>0, <2>1 DEF RowType
    <3> QED BY <1>0, <3>1 DEF TxType, Locations
  <2> HIDE DEF t
  <2>3. \/ End(w)
        \/ LockRow(w, tx[w].p) /\ Step(w, t) /\ UNCHANGED nodeLock
    BY <1>7 DEF TakeRow, t
  <2> QED BY <1>7, <2>2, <2>3, <1>0, StepType, EndsType DEF TakeRow, LockRow
<1>8. ASSUME NEW w \in Workers, CreditNode(w), UNCHANGED pass
      PROVE  TypeOK'
  <2>1. [tx[w] EXCEPT !.pc = "commit"] \in TxType
    BY <1>0 DEF TxType, Locations
  <2> QED BY <1>8, <2>1, <1>0, StepType DEF CreditNode, LockNode
<1>9. ASSUME NEW w \in Workers, ReadBooking(w), UNCHANGED pass
      PROVE  TypeOK'
  <2> DEFINE t == [tx[w] EXCEPT !.pc = "node", !.at = placed[tx[w].p].node,
                                !.ram = placed[tx[w].p].ram]
  <2>1. tx[w].p \in Projects
    BY <1>9 DEF ReadBooking, At, Located
  <2>2. t \in TxType
    <3>1. placed[tx[w].p].node \in Nodes \cup {None} /\ placed[tx[w].p].ram \in Nat
      BY <1>0, <2>1 DEF RowType
    <3> QED BY <1>0, <3>1 DEF TxType, Locations
  <2> HIDE DEF t
  <2>3. \/ End(w)
        \/ Step(w, t) /\ UNCHANGED <<nodeLock, rowLock>>
    BY <1>9 DEF ReadBooking, t
  <2> QED BY <1>9, <2>2, <2>3, <1>0, StepType, EndsType DEF ReadBooking
<1>10. ASSUME NEW w \in Workers, LockBooking(w), UNCHANGED pass
       PROVE  TypeOK'
  <2>1. [tx[w] EXCEPT !.pc = "row"] \in TxType
    BY <1>0 DEF TxType, Locations
  <2> QED BY <1>10, <2>1, <1>0, StepType, EndsType DEF LockBooking, LockNode
<1>11. ASSUME NEW w \in Workers, Book(w), UNCHANGED pass
       PROVE  TypeOK'
  <2>1. [tx[w] EXCEPT !.pc = "commit"] \in TxType
    BY <1>0 DEF TxType, Locations
  <2> QED BY <1>11, <2>1, <1>0, StepType DEF Book, LockRow
<1>12. ASSUME NEW w \in Workers, Commit(w), UNCHANGED pass
       PROVE  TypeOK'
  <2>1. End(w) /\ UNCHANGED active
    BY <1>12 DEF Commit
  <2>2. PICK row \in RowType, res \in Amounts : Writes(w, row, res)
    BY <1>12, CommitWrites
  <2> QED BY <1>12, <2>1, <2>2, <1>0, EndType, TypesNext DEF Writes
<1>13. ASSUME NEW w \in Workers, Abort(w), UNCHANGED pass
       PROVE  TypeOK'
  BY <1>13, EndsType DEF Abort
<1>14. ASSUME NEW n \in Nodes, Cordon(n), UNCHANGED pass
       PROVE  TypeOK'
  BY <1>14, <1>0, TypesNext DEF Cordon
<1>15. ASSUME NEW n \in Nodes, Reconcile(n)
       PROVE  TypeOK'
  <2>1. PICK t \in PassType : Moves(n, t)
    BY <1>0, <1>15 DEF Reconcile, ReadCounter, Compare, CompareIf, Repair, NoPass, PassType, RowsOn, Amounts
  <2>2. reserved' \in [Nodes -> Amounts]
    <3>1. 0 .. RamTotal[n] \subseteq Nat
      BY PlacementAssumption
    <3> QED BY <1>0, <1>15, <3>1 DEF Reconcile, ReadCounter, Compare, CompareIf, Repair, Amounts
  <2> QED BY <2>1, <2>2, <1>0, TypesNext DEF Moves
<1>16. CASE UNCHANGED vars
  BY <1>16, <1>0, TypesNext DEF vars
<1> QED
  BY PlacementAssumption, <1>1, <1>2, <1>3, <1>4, <1>5, <1>6, <1>7, <1>8, <1>9, <1>10, <1>11, <1>12, <1>13,
     <1>14, <1>15, <1>16 DEF Next

-----------------------------------------------------------------------------
(* The invariant *)

LEMMA IInv_Init == Init => IInv
BY TypeOK_Init, PlacementAssumption
   DEF Init, IInv, Located, Promised, Held, NoTx, Roomy, SlotsDistinct, HasRow,
       Absent, Amounts

\* Every action but Commit and Cordon: it is enough to look at the one that moved.
LEMMA Mover ==
  ASSUME IInv, TypeOK', NEW w \in Workers,
         UNCHANGED <<reserved, active, placed>>,
         \A v \in Workers \ {w} : tx'[v] = tx[v],
         \A v \in Workers \ {w}, n \in Nodes : nodeLock[n] = v => nodeLock'[n] = v,
         Located(w)', Promised(w)'
  PROVE  IInv'
<1>1. (\A n \in Nodes : Roomy(n)') /\ SlotsDistinct'
  BY DEF IInv, Roomy, SlotsDistinct, HasRow
<1>2. ASSUME NEW v \in Workers, v # w
      PROVE  Located(v)' /\ Promised(v)'
  BY <1>2 DEF IInv, Located, Promised, Held, Fits, FreeSlots
<1> QED
  BY <1>1, <1>2 DEF IInv

\* Ending a transaction takes no lock from another, and leaves nothing promised.
LEMMA Ended ==
  ASSUME TypeOK, NEW w \in Workers, End(w)
  PROVE  /\ \A v \in Workers \ {w} : tx'[v] = tx[v]
         /\ \A v \in Workers \ {w}, n \in Nodes : nodeLock[n] = v => nodeLock'[n] = v
         /\ Located(w)' /\ Promised(w)'
<1>1. tx' = [tx EXCEPT ![w] = NoTx] /\ tx'[w] = NoTx
  BY Types DEF End, Step
<1>2. \A v \in Workers \ {w}, n \in Nodes : nodeLock[n] = v => nodeLock'[n] = v
  BY Types DEF End, Unlocked
<1>3. Located(w)' /\ Promised(w)'
  BY <1>1 DEF Located, Promised, Held, NoTx
<1> QED BY <1>1, <1>2, <1>3

LEMMA EndedKeeps ==
  ASSUME IInv, TypeOK', NEW w \in Workers, End(w), UNCHANGED <<reserved, active, placed>>
  PROVE  IInv'
BY Ended, Mover DEF IInv

\* Whoever holds the node's lock has the node to itself: the writes of Commit leave
\* what the others were promised, and fit what was promised to the writer.
LEMMA Committed ==
  ASSUME IInv, TypeOK', NEW w \in Workers, Commit(w)
  PROVE  IInv'
<1> DEFINE p == tx[w].p
           n == tx[w].at
<1>0. TypeOK /\ Located(w) /\ Promised(w) /\ End(w) /\ UNCHANGED active
  BY DEF IInv, Commit
<1>1. p \in Projects /\ n \in Nodes
  BY <1>0, CommitWrites
<1>2. PICK row \in RowType, res \in Amounts :
        /\ Writes(w, row, res)
        /\ \/ /\ tx[w].op = "allocate"
              /\ row.node = tx[w].at /\ row.slot = tx[w].slot
              /\ res.ram = reserved[tx[w].at].ram + Ram[tx[w].p]
              /\ res.disk = reserved[tx[w].at].disk + Disk[tx[w].p]
           \/ /\ tx[w].op = "bookRam"
              /\ row.node \in {None, placed[tx[w].p].node}
              /\ row.slot = placed[tx[w].p].slot \/ row.node = None
              /\ res.ram = reserved[tx[w].at].ram + Ram[tx[w].p]
              /\ res.disk = reserved[tx[w].at].disk
           \/ /\ tx[w].op \in {"releaseNode", "releaseRam"}
              /\ row.node \in {None, placed[tx[w].p].node}
              /\ row.slot = placed[tx[w].p].slot \/ row.node = None
              /\ res.ram <= reserved[tx[w].at].ram
              /\ res.disk <= reserved[tx[w].at].disk
  BY <1>0, CommitWrites
<1>3. /\ placed' = [placed EXCEPT ![p] = row] /\ placed \in [Projects -> RowType]
      /\ reserved' = [reserved EXCEPT ![n] = res] /\ reserved \in [Nodes -> Amounts]
      /\ tx \in [Workers -> TxType]
  BY <1>0, <1>2, Types DEF Writes
<1>4. Held(w) /\ nodeLock[n] = w
  <2>1. tx[w].pc = "commit" /\ tx[w].op \in Ops
    BY <1>3 DEF Commit, TxType
  <2> QED BY <1>0, <2>1 DEF Held, Promised, Ops
<1>5. \A m \in Nodes : Roomy(m)'
  <2>1. /\ reserved[n].ram \in Nat /\ reserved[n].disk \in Nat
        /\ Ram[p] \in Nat /\ Disk[p] \in Nat
        /\ Stop[n].ram \in Nat /\ Stop[n].disk \in Nat
        /\ res.ram \in Nat /\ res.disk \in Nat
    BY <1>1, <1>3, PlacementAssumption DEF Amounts
  <2>2. Roomy(n)
    BY <1>1 DEF IInv
  <2>3. tx[w].op = "allocate" => Fits(n, p)
    BY <1>0, <1>4 DEF Promised
  <2>4. tx[w].op = "bookRam" => Stop[n].ram - reserved[n].ram >= Ram[p]
    BY <1>0, <1>4 DEF Promised
  <2>5. res.disk <= Stop[n].disk /\ (n \notin Reconciles => res.ram <= Stop[n].ram)
    <3>1. CASE tx[w].op = "allocate"
      BY <1>2, <2>1, <2>3, <3>1 DEF Fits
    <3>2. CASE tx[w].op # "allocate"
      BY <1>2, <2>1, <2>2, <2>4, <3>2 DEF Roomy
    <3> QED BY <3>1, <3>2
  <2> QED BY <1>1, <1>3, <2>5 DEF IInv, Roomy
<1>6. SlotsDistinct'
  <2>1. ASSUME NEW q \in Projects, q # p, row.node # None, row.node = placed[q].node
        PROVE  row.slot # placed[q].slot
    <3>1. CASE tx[w].op = "allocate"
      <4>1. tx[w].slot \in FreeSlots(n) /\ row.node = n /\ row.slot = tx[w].slot
        BY <1>0, <1>2, <1>4, <3>1 DEF Promised, Commit
      <4> QED BY <2>1, <4>1 DEF FreeSlots
    <3>2. CASE tx[w].op # "allocate"
      <4>1. row.node = placed[p].node /\ row.slot = placed[p].slot
        BY <1>2, <2>1, <3>2
      <4> QED BY <1>1, <2>1, <4>1 DEF IInv, SlotsDistinct, HasRow
    <3> QED BY <3>1, <3>2
  <2>2. placed'[p] = row /\ \A q \in Projects \ {p} : placed'[q] = placed[q]
    BY <1>1, <1>3
  <2> QED BY <2>1, <2>2 DEF IInv, SlotsDistinct, HasRow
<1>7. ASSUME NEW v \in Workers, v # w
      PROVE  Located(v)' /\ Promised(v)'
  <2>1. tx'[v] = tx[v] /\ \A m \in Nodes : nodeLock[m] = v => nodeLock'[m] = v
    BY <1>0, <1>7, Ended
  <2>2. Located(v) /\ Promised(v)
    BY DEF IInv
  <2>3. Located(v)'
    BY <2>1, <2>2 DEF Located
  <2>4. CASE Held(v)
    <3> DEFINE m == tx[v].at
    <3>1. m \in Nodes /\ nodeLock[m] = v
      BY <2>2, <2>4 DEF Held, Located, Promised
    <3>2. m # n /\ reserved'[m] = reserved[m] /\ nodeLock'[m] = v
      BY <1>1, <1>3, <1>4, <1>7, <2>1, <3>1
    <3>3. FreeSlots(m) \subseteq FreeSlots(m)'
      <4>1. row.node = m => row.node = placed[p].node /\ row.slot = placed[p].slot
        BY <1>2, <3>1, <3>2, PlacementAssumption
      <4>2. placed'[p] = row /\ \A q \in Projects \ {p} : placed'[q] = placed[q]
        BY <1>1, <1>3
      <4> QED BY <1>1, <2>1, <4>1, <4>2 DEF FreeSlots
    <3>4. Promised(v)'
      BY <1>0, <2>1, <2>2, <2>4, <3>2, <3>3 DEF Promised, Fits, Held
    <3> QED BY <2>3, <3>4
  <2>5. CASE ~Held(v)
    BY <2>1, <2>3, <2>5 DEF Promised, Held
  <2> QED BY <2>4, <2>5
<1>8. Located(w)' /\ Promised(w)'
  BY <1>0, Ended
<1> QED
  BY <1>5, <1>6, <1>7, <1>8 DEF IInv

LEMMA IInv_Next ==
  ASSUME IInv, [Next]_vars
  PROVE  IInv'
<1>0. TypeOK /\ TypeOK'
  BY TypeOK_Next DEF IInv
<1>1. tx \in [Workers -> TxType] /\ nodeLock \in [Nodes -> Workers \cup {None}]
  BY <1>0, Types
<1>2. \A w \in Workers : Located(w) /\ Promised(w)
  BY DEF IInv
<1>3. ASSUME NEW w \in Workers, NEW op \in Ops, NEW p \in Projects, Start(w, op, p)
      PROVE  IInv'
  <2>1. /\ tx'[w] = [NoTx EXCEPT !.pc = "begin", !.op = op, !.p = p]
        /\ \A v \in Workers \ {w} : tx'[v] = tx[v]
    BY <1>1, <1>3 DEF Start, Step
  <2>2. Located(w)' /\ Promised(w)'
    BY <2>1 DEF Located, Promised, Held, NoTx
  <2> QED BY <1>0, <1>3, <2>1, <2>2, Mover DEF Start
<1>4. ASSUME NEW w \in Workers, FindExisting(w)
      PROVE  IInv'
  <2>1. CASE End(w)
    BY <1>0, <1>4, <2>1, EndedKeeps DEF FindExisting
  <2>2. CASE ~End(w)
    <3>1. /\ tx[w].op = "allocate" /\ tx[w].pc = "begin"
          /\ Step(w, [tx[w] EXCEPT !.pc = "rank"])
          /\ UNCHANGED <<reserved, active, placed, nodeLock>>
      BY <1>4, <2>2 DEF FindExisting, At
    <3>2. /\ tx'[w] = [tx[w] EXCEPT !.pc = "rank"]
          /\ \A v \in Workers \ {w} : tx'[v] = tx[v]
      BY <1>1, <3>1 DEF Step
    <3>3. Located(w)' /\ Promised(w)'
      BY <1>1, <1>2, <3>1, <3>2 DEF Located, Promised, Held, TxType
    <3> QED BY <1>0, <3>1, <3>2, <3>3, Mover
  <2> QED BY <2>1, <2>2
<1>5. ASSUME NEW w \in Workers, Rank(w)
      PROVE  IInv'
  <2>1. CASE End(w)
    BY <1>0, <1>5, <2>1, EndedKeeps DEF Rank
  <2>2. CASE ~End(w)
    <3>1. PICK left : /\ tx[w].op = "allocate" /\ tx[w].pc = "rank"
                      /\ Step(w, [tx[w] EXCEPT !.pc = "try", !.left = left, !.rank = Ranking])
                      /\ UNCHANGED <<reserved, active, placed, nodeLock>>
      BY <1>5, <2>2 DEF Rank, At
    <3>2. /\ tx'[w] = [tx[w] EXCEPT !.pc = "try", !.left = left, !.rank = Ranking]
          /\ \A v \in Workers \ {w} : tx'[v] = tx[v]
      BY <1>1, <3>1 DEF Step
    <3>3. Located(w)' /\ Promised(w)'
      BY <1>1, <1>2, <3>1, <3>2 DEF Located, Promised, Held, TxType
    <3> QED BY <1>0, <3>1, <3>2, <3>3, Mover
  <2> QED BY <2>1, <2>2
<1>6. ASSUME NEW w \in Workers, Try(w)
      PROVE  IInv'
  <2>1. PICK n, t :
          /\ n \in tx[w].left
          /\ tx[w].op = "allocate" /\ tx[w].pc = "try"
          /\ \/ t = [tx[w] EXCEPT !.left = @ \ {n}]
             \/ /\ t = [tx[w] EXCEPT !.left = @ \ {n}, !.at = n, !.pc = "insert"]
                /\ n \in active /\ Fits(n, tx[w].p)
          /\ Step(w, t) /\ LockNode(w, n) /\ UNCHANGED <<reserved, active, placed>>
    BY <1>6 DEF Try, TryIf, At
  <2>2. n \in Nodes /\ tx[w] \in TxType
    BY <1>1, <2>1 DEF TxType
  <2>3. tx'[w] = t /\ \A v \in Workers \ {w} : tx'[v] = tx[v]
    BY <1>1, <2>1 DEF Step
  <2>4. /\ nodeLock'[n] = w
        /\ \A v \in Workers \ {w}, m \in Nodes : nodeLock[m] = v => nodeLock'[m] = v
    BY <1>1, <2>1, <2>2, PlacementAssumption DEF LockNode
  <2>5. Located(w)' /\ Promised(w)'
    <3>1. CASE t = [tx[w] EXCEPT !.left = @ \ {n}]
      BY <1>2, <2>1, <2>2, <2>3, <3>1 DEF Located, Promised, Held, TxType
    <3>2. CASE /\ t = [tx[w] EXCEPT !.left = @ \ {n}, !.at = n, !.pc = "insert"]
               /\ n \in active /\ Fits(n, tx[w].p)
      BY <1>2, <2>1, <2>2, <2>3, <2>4, <3>2 DEF Located, Promised, Held, TxType, Fits
    <3> QED BY <2>1, <3>1, <3>2
  <2> QED BY <1>0, <2>1, <2>3, <2>4, <2>5, Mover
<1>7. ASSUME NEW w \in Workers, OutOfCandidates(w)
      PROVE  IInv'
  BY <1>0, <1>7, EndedKeeps DEF OutOfCandidates
<1>8. ASSUME NEW w \in Workers, Insert(w)
      PROVE  IInv'
  <2>1. CASE End(w)
    BY <1>0, <1>8, <2>1, EndedKeeps DEF Insert
  <2>2. CASE ~End(w)
    <3>1. PICK s \in FreeSlots(tx[w].at) :
            /\ tx[w].op = "allocate" /\ tx[w].pc = "insert"
            /\ Step(w, [tx[w] EXCEPT !.slot = s, !.pc = "commit"])
            /\ UNCHANGED <<reserved, active, placed, nodeLock>>
      BY <1>8, <2>2 DEF Insert, At
    <3>2. /\ tx'[w] = [tx[w] EXCEPT !.slot = s, !.pc = "commit"]
          /\ \A v \in Workers \ {w} : tx'[v] = tx[v]
      BY <1>1, <3>1 DEF Step
    <3>3. /\ tx'[w].op = "allocate" /\ tx'[w].pc = "commit" /\ tx'[w].slot = s
          /\ tx'[w].at = tx[w].at /\ tx'[w].p = tx[w].p
      BY <1>1, <3>1, <3>2 DEF TxType
    <3>4. Located(w)' /\ Promised(w)'
      BY <1>2, <3>1, <3>3 DEF Located, Promised, Held, Fits, FreeSlots
    <3> QED BY <1>0, <3>1, <3>2, <3>4, Mover
  <2> QED BY <2>1, <2>2
<1>9. ASSUME NEW w \in Workers, TakeRow(w)
      PROVE  IInv'
  <2>1. CASE End(w)
    BY <1>0, <1>9, <2>1, EndedKeeps DEF TakeRow
  <2>2. CASE ~End(w)
    <3> DEFINE node == placed[tx[w].p].node
    <3>1. PICK ram : /\ tx[w].op \in {"releaseNode", "releaseRam"} /\ tx[w].pc = "begin"
                     /\ Step(w, [tx[w] EXCEPT !.pc = "node", !.at = node, !.ram = ram])
                     /\ UNCHANGED <<reserved, active, placed, nodeLock>>
                     /\ node # None
      BY <1>9, <2>2 DEF TakeRow, Releasable, HasRow
    <3>2. /\ tx'[w] = [tx[w] EXCEPT !.pc = "node", !.at = node, !.ram = ram]
          /\ \A v \in Workers \ {w} : tx'[v] = tx[v]
      BY <1>1, <3>1 DEF Step
    <3>3. tx[w].p \in Projects /\ node \in Nodes
      BY <1>0, <1>2, <3>1, Types DEF Located, RowType
    <3>4. /\ tx'[w].op = tx[w].op /\ tx'[w].pc = "node" /\ tx'[w].at = node
          /\ tx'[w].p = tx[w].p
      BY <1>1, <3>2 DEF TxType
    <3>5. Located(w)' /\ Promised(w)'
      BY <3>1, <3>3, <3>4 DEF Located, Promised, Held
    <3> QED BY <1>0, <3>1, <3>2, <3>5, Mover
  <2> QED BY <2>1, <2>2
<1>10. ASSUME NEW w \in Workers, CreditNode(w)
       PROVE  IInv'
  <2>1. /\ tx[w].op \in {"releaseNode", "releaseRam"} /\ tx[w].pc = "node"
        /\ LockNode(w, tx[w].at) /\ Step(w, [tx[w] EXCEPT !.pc = "commit"])
        /\ UNCHANGED <<reserved, active, placed>>
    BY <1>10 DEF CreditNode
  <2>2. tx[w].at \in Nodes /\ tx[w].p \in Projects
    BY <1>2, <2>1 DEF Located
  <2>3. /\ tx'[w] = [tx[w] EXCEPT !.pc = "commit"]
        /\ \A v \in Workers \ {w} : tx'[v] = tx[v]
    BY <1>1, <2>1 DEF Step
  <2>4. /\ nodeLock'[tx[w].at] = w
        /\ \A v \in Workers \ {w}, m \in Nodes : nodeLock[m] = v => nodeLock'[m] = v
    BY <1>1, <2>1, <2>2, PlacementAssumption DEF LockNode
  <2>5. /\ tx'[w].op = tx[w].op /\ tx'[w].pc = "commit" /\ tx'[w].at = tx[w].at
        /\ tx'[w].p = tx[w].p
    BY <1>1, <2>3 DEF TxType
  <2>6. Located(w)' /\ Promised(w)'
    BY <2>1, <2>2, <2>4, <2>5 DEF Located, Promised, Held
  <2> QED BY <1>0, <2>1, <2>3, <2>4, <2>6, Mover
<1>11. ASSUME NEW w \in Workers, ReadBooking(w)
       PROVE  IInv'
  <2>1. CASE End(w)
    BY <1>0, <1>11, <2>1, EndedKeeps DEF ReadBooking
  <2>2. CASE ~End(w)
    <3> DEFINE node == placed[tx[w].p].node
    <3>1. PICK ram : /\ tx[w].op = "bookRam" /\ tx[w].pc = "begin"
                     /\ Step(w, [tx[w] EXCEPT !.pc = "node", !.at = node, !.ram = ram])
                     /\ UNCHANGED <<reserved, active, placed, nodeLock>>
                     /\ node # None
      BY <1>11, <2>2 DEF ReadBooking, At, HasRow
    <3>2. /\ tx'[w] = [tx[w] EXCEPT !.pc = "node", !.at = node, !.ram = ram]
          /\ \A v \in Workers \ {w} : tx'[v] = tx[v]
      BY <1>1, <3>1 DEF Step
    <3>3. tx[w].p \in Projects /\ node \in Nodes
      BY <1>0, <1>2, <3>1, Types DEF Located, RowType
    <3>4. /\ tx'[w].op = "bookRam" /\ tx'[w].pc = "node" /\ tx'[w].at = node
          /\ tx'[w].p = tx[w].p
      BY <1>1, <3>1, <3>2 DEF TxType
    <3>5. Located(w)' /\ Promised(w)'
      BY <3>3, <3>4 DEF Located, Promised, Held
    <3> QED BY <1>0, <3>1, <3>2, <3>5, Mover
  <2> QED BY <2>1, <2>2
<1>12. ASSUME NEW w \in Workers, LockBooking(w)
       PROVE  IInv'
  <2>1. CASE End(w)
    BY <1>0, <1>12, <2>1, EndedKeeps DEF LockBooking
  <2>2. CASE ~End(w)
    <3>1. /\ tx[w].op = "bookRam" /\ tx[w].pc = "node"
          /\ Stop[tx[w].at].ram - reserved[tx[w].at].ram >= Ram[tx[w].p]
          /\ LockNode(w, tx[w].at) /\ Step(w, [tx[w] EXCEPT !.pc = "row"])
          /\ UNCHANGED <<reserved, active, placed>>
      BY <1>12, <2>2 DEF LockBooking, At
    <3>2. tx[w].at \in Nodes /\ tx[w].p \in Projects
      BY <1>2, <3>1 DEF Located
    <3>3. /\ tx'[w] = [tx[w] EXCEPT !.pc = "row"]
          /\ \A v \in Workers \ {w} : tx'[v] = tx[v]
      BY <1>1, <3>1 DEF Step
    <3>4. /\ nodeLock'[tx[w].at] = w
          /\ \A v \in Workers \ {w}, m \in Nodes : nodeLock[m] = v => nodeLock'[m] = v
      BY <1>1, <3>1, <3>2, PlacementAssumption DEF LockNode
    <3>5. /\ tx'[w].op = "bookRam" /\ tx'[w].pc = "row" /\ tx'[w].at = tx[w].at
          /\ tx'[w].p = tx[w].p
      BY <1>1, <3>1, <3>3 DEF TxType
    <3>6. Located(w)' /\ Promised(w)'
      BY <3>1, <3>2, <3>4, <3>5 DEF Located, Promised, Held
    <3> QED BY <1>0, <3>1, <3>3, <3>4, <3>6, Mover
  <2> QED BY <2>1, <2>2
<1>13. ASSUME NEW w \in Workers, Book(w)
       PROVE  IInv'
  <2>1. /\ tx[w].op = "bookRam" /\ tx[w].pc = "row"
        /\ Step(w, [tx[w] EXCEPT !.pc = "commit"])
        /\ UNCHANGED <<reserved, active, placed, nodeLock>>
    BY <1>13 DEF Book, At
  <2>2. /\ tx'[w] = [tx[w] EXCEPT !.pc = "commit"]
        /\ \A v \in Workers \ {w} : tx'[v] = tx[v]
    BY <1>1, <2>1 DEF Step
  <2>3. /\ tx'[w].op = "bookRam" /\ tx'[w].pc = "commit" /\ tx'[w].at = tx[w].at
        /\ tx'[w].p = tx[w].p
    BY <1>1, <2>1, <2>2 DEF TxType
  <2>4. Located(w)' /\ Promised(w)'
    BY <1>2, <2>1, <2>3 DEF Located, Promised, Held
  <2> QED BY <1>0, <2>1, <2>2, <2>4, Mover
<1>14. ASSUME NEW w \in Workers, Commit(w)
       PROVE  IInv'
  BY <1>0, <1>14, Committed
<1>15. ASSUME NEW w \in Workers, Abort(w)
       PROVE  IInv'
  BY <1>0, <1>15, EndedKeeps DEF Abort
<1>16. ASSUME NEW n \in Nodes, Cordon(n)
       PROVE  IInv'
  <2>1. \A w \in Workers : Located(w)'
    BY <1>2, <1>16 DEF Located, Cordon
  <2>2. \A w \in Workers : Held(w) => tx[w].at \in Nodes /\ tx[w].at # n
    BY <1>1, <1>2, <1>16, PlacementAssumption DEF Held, Located, Promised, Cordon
  <2>3. \A w \in Workers : Promised(w)'
    BY <1>2, <1>16, <2>2 DEF Promised, Held, Cordon, Fits, FreeSlots
  <2> QED
    BY <1>0, <1>16, <2>1, <2>3 DEF IInv, Cordon, Roomy, SlotsDistinct, HasRow
<1>17. ASSUME NEW n \in Nodes, Reconcile(n), n \in Reconciles
       PROVE  IInv'
  <2>1. UNCHANGED <<active, placed, nodeLock, rowLock, tx>>
    BY <1>17 DEF Reconcile, ReadCounter, Compare, CompareIf, Repair, Moves
  <2>2. /\ \A m \in Nodes \ {n} : reserved'[m] = reserved[m]
        /\ reserved'[n].disk = reserved[n].disk
        /\ reserved'[n] = reserved[n] \/ nodeLock[n] = None
    BY <1>0, <1>17, Types
       DEF Reconcile, ReadCounter, Compare, CompareIf, Repair, Amounts
  <2>3. \A m \in Nodes : Roomy(m)'
    BY <1>17, <2>2 DEF IInv, Roomy
  <2>4. ASSUME NEW w \in Workers
        PROVE  Located(w)' /\ Promised(w)'
    <3>1. Located(w)'
      BY <1>2, <2>1 DEF Located
    <3>2. CASE Held(w)
      <4>1. tx[w].at \in Nodes /\ nodeLock[tx[w].at] = w
        BY <1>2, <3>2 DEF Held, Located, Promised
      <4>2. reserved'[tx[w].at] = reserved[tx[w].at]
        BY <2>2, <4>1, PlacementAssumption
      <4> QED BY <1>2, <2>1, <3>1, <3>2, <4>2 DEF Promised, Fits, FreeSlots, Held
    <3>3. CASE ~Held(w)
      BY <2>1, <3>1, <3>3 DEF Promised, Held
    <3> QED BY <3>2, <3>3
  <2> QED
    BY <1>0, <2>1, <2>3, <2>4 DEF IInv, SlotsDistinct, HasRow
<1>18. CASE UNCHANGED vars
  BY <1>0, <1>18
     DEF vars, IInv, Located, Promised, Held, Fits, FreeSlots, Roomy, SlotsDistinct, HasRow
<1> QED
  BY <1>3, <1>4, <1>5, <1>6, <1>7, <1>8, <1>9, <1>10, <1>11, <1>12, <1>13, <1>14, <1>15,
     <1>16, <1>17, <1>18, PlacementAssumption DEF Next

-----------------------------------------------------------------------------
(* The counters *)

Releases == {"releaseNode", "releaseRam"}

(* What the transactions know of project_databases rows: a writer holds its row's lock;
   an allocation found no row, a release what it will take away. *)
Knows(w) ==
  /\ tx[w].pc = "commit" => rowLock[tx[w].p] = w
  /\ tx[w].op = "allocate" /\ tx[w].pc = "commit" => ~HasRow(tx[w].p)
  /\ tx[w].op \in Releases /\ tx[w].pc \in {"node", "commit"} =>
       /\ rowLock[tx[w].p] = w /\ HasRow(tx[w].p)
       /\ tx[w].at = placed[tx[w].p].node /\ tx[w].ram = placed[tx[w].p].ram
       /\ tx[w].op = "releaseRam" => tx[w].ram > 0

(* A row's lock belongs to a transaction that has taken it. *)
Owns(w) ==
  \A p \in Projects : rowLock[p] = w =>
    /\ tx[w].p = p
    /\ tx[w].pc = "commit" \/ (tx[w].op \in Releases /\ tx[w].pc = "node")

(* The disk counter of a node, with nothing assumed of the callers. *)
DiskCounted(n) == reserved[n].disk = SumFunctionOnSet(Disk, RowsOn(n))

RowInv ==
  /\ \A w \in Workers : Knows(w) /\ Owns(w)
  /\ \A n \in Nodes : DiskCounted(n)

(* A booking holds no lock on the row it has read: that the row stays as it was is due
   to the callers, who run neither a second booking nor a purge beside it. *)
CallersKeepApart == {"bookRam"} \in Apart /\ {"bookRam", "releaseNode"} \in Apart

Alone(w) ==
  \A v \in Workers \ {w} :
    tx[v].pc # "idle" /\ tx[w].pc # "idle" /\ tx[v].p = tx[w].p
      => {tx[v].op, tx[w].op} \notin Apart

Books(w) ==
  tx[w].op = "bookRam" /\ tx[w].pc \in {"node", "row", "commit"} =>
    /\ HasRow(tx[w].p) /\ tx[w].at = placed[tx[w].p].node
    /\ tx[w].ram = 0 => placed[tx[w].p].ram = 0
    /\ tx[w].pc # "node" => tx[w].ram = 0

RamCounted(n) == n \notin Reconciles => reserved[n].ram = Booked(n)

BookInv ==
  /\ \A w \in Workers : Alone(w) /\ Books(w)
  /\ \A n \in Nodes : RamCounted(n)

(* How a transaction goes on: where to, with what it knew, or with what it reads now. *)
Goes(w, pcs) == tx'[w].pc \in pcs /\ tx'[w].op = tx[w].op /\ tx'[w].p = tx[w].p
Keeps(w) == tx'[w].at = tx[w].at /\ tx'[w].ram = tx[w].ram
Reads(w) ==
  /\ HasRow(tx[w].p)
  /\ tx'[w].at = placed[tx[w].p].node /\ tx'[w].ram = placed[tx[w].p].ram

Allocates(w) ==
  /\ tx[w].op = "allocate" /\ tx[w].pc \in {"begin", "rank", "try"}
  /\ Goes(w, {"rank", "try", "insert"}) /\ rowLock' = rowLock
Inserts(w) ==
  /\ tx[w].op = "allocate" /\ tx[w].pc = "insert" /\ Goes(w, {"commit"})
  /\ LockRow(w, tx[w].p) /\ ~(rowLock[tx[w].p] = None /\ HasRow(tx[w].p))
TakesRow(w) ==
  /\ tx[w].op \in Releases /\ tx[w].pc = "begin" /\ Goes(w, {"node"})
  /\ LockRow(w, tx[w].p) /\ Reads(w)
  /\ tx[w].op = "releaseRam" => placed[tx[w].p].ram > 0
Credits(w) ==
  /\ tx[w].op \in Releases /\ tx[w].pc = "node" /\ Goes(w, {"commit"})
  /\ rowLock' = rowLock /\ Keeps(w)
ReadsRow(w) ==
  /\ tx[w].op = "bookRam" /\ tx[w].pc = "begin" /\ Goes(w, {"node"})
  /\ rowLock' = rowLock /\ Reads(w)
LocksNode(w) ==
  /\ tx[w].op = "bookRam" /\ tx[w].pc = "node" /\ Goes(w, {"row"})
  /\ rowLock' = rowLock /\ Keeps(w) /\ tx[w].ram = 0
LocksRow(w) ==
  /\ tx[w].op = "bookRam" /\ tx[w].pc = "row" /\ Goes(w, {"commit"})
  /\ LockRow(w, tx[w].p) /\ Keeps(w)

\* The steps of a transaction that write nothing.
Moving(w) ==
  \/ \E op \in Ops, p \in Projects : Start(w, op, p)
  \/ FindExisting(w) \/ Rank(w) \/ Try(w) \/ OutOfCandidates(w) \/ Insert(w)
  \/ TakeRow(w) \/ CreditNode(w) \/ ReadBooking(w) \/ LockBooking(w) \/ Book(w) \/ Abort(w)

\* What each of them is to the rows: the node it looks at and the slot do not matter.
LEMMA Moves2 ==
  ASSUME IInv, NEW w \in Workers, Moving(w)
  PROVE  /\ UNCHANGED <<reserved, placed>>
         /\ \A v \in Workers \ {w} : tx'[v] = tx[v]
         /\ \/ \E op \in Ops, p \in Projects : Start(w, op, p)
            \/ End(w)
            \/ Allocates(w) \/ Inserts(w) \/ TakesRow(w) \/ Credits(w)
            \/ ReadsRow(w) \/ LocksNode(w) \/ LocksRow(w)
<1>1. tx \in [Workers -> TxType] /\ tx[w] \in TxType
  BY Types DEF IInv
<1>2. UNCHANGED <<reserved, placed>>
  BY DEF Moving, Start, FindExisting, Rank, Try, TryIf, OutOfCandidates, Insert, TakeRow,
         CreditNode, ReadBooking, LockBooking, Book, Abort
<1>3. ASSUME NEW t, Step(w, t)
      PROVE  tx'[w] = t /\ \A v \in Workers \ {w} : tx'[v] = tx[v]
  BY <1>1, <1>3 DEF Step
<1>5. CASE \E op \in Ops, p \in Projects : Start(w, op, p)
  BY <1>2, <1>3, <1>5 DEF Start
<1>6. CASE End(w)
  BY <1>2, <1>3, <1>6 DEF End
<1>7. CASE FindExisting(w) /\ ~End(w)
  <2>1. /\ tx[w].op = "allocate" /\ tx[w].pc = "begin" /\ rowLock' = rowLock
        /\ Step(w, [tx[w] EXCEPT !.pc = "rank"])
    BY <1>7 DEF FindExisting, At
  <2>2. Allocates(w)
    BY <1>1, <1>3, <2>1 DEF Allocates, Goes, TxType
  <2> QED BY <1>2, <1>3, <2>1, <2>2
<1>8. CASE Rank(w) /\ ~End(w)
  <2>1. PICK left : /\ tx[w].op = "allocate" /\ tx[w].pc = "rank" /\ rowLock' = rowLock
                    /\ Step(w, [tx[w] EXCEPT !.pc = "try", !.left = left, !.rank = Ranking])
    BY <1>8 DEF Rank, At
  <2>4. tx'[w] = [tx[w] EXCEPT !.pc = "try", !.left = left, !.rank = Ranking]
    BY <1>3, <2>1
  <2>2. tx'[w].pc \in {"try"} /\ tx'[w].op = tx[w].op /\ tx'[w].p = tx[w].p
    BY <1>1, <2>4 DEF TxType
  <2>3. Allocates(w)
    BY <2>1, <2>2 DEF Allocates, Goes
  <2> QED BY <1>2, <1>3, <2>1, <2>3
<1>9. CASE Try(w)
  <2>1. PICK n, t :
          /\ tx[w].op = "allocate" /\ tx[w].pc = "try" /\ rowLock' = rowLock
          /\ \/ t = [tx[w] EXCEPT !.left = @ \ {n}]
             \/ t = [tx[w] EXCEPT !.left = @ \ {n}, !.at = n, !.pc = "insert"]
          /\ Step(w, t)
    BY <1>9 DEF Try, TryIf, At
  <2>4. \/ tx'[w] = [tx[w] EXCEPT !.left = @ \ {n}]
        \/ tx'[w] = [tx[w] EXCEPT !.left = @ \ {n}, !.at = n, !.pc = "insert"]
    BY <1>3, <2>1
  <2>2. tx'[w].pc \in {"try", "insert"} /\ tx'[w].op = tx[w].op /\ tx'[w].p = tx[w].p
    BY <1>1, <2>1, <2>4 DEF TxType
  <2>3. Allocates(w)
    BY <2>1, <2>2 DEF Allocates, Goes
  <2> QED BY <1>2, <1>3, <2>1, <2>3
<1>10. CASE Insert(w) /\ ~End(w)
  <2>1. PICK s : /\ tx[w].op = "allocate" /\ tx[w].pc = "insert" /\ LockRow(w, tx[w].p)
                 /\ ~(rowLock[tx[w].p] = None /\ HasRow(tx[w].p))
                 /\ Step(w, [tx[w] EXCEPT !.slot = s, !.pc = "commit"])
    BY <1>10 DEF Insert, At
  <2>4. tx'[w] = [tx[w] EXCEPT !.slot = s, !.pc = "commit"]
    BY <1>3, <2>1
  <2>2. /\ tx'[w].pc = "commit" /\ tx'[w].op = tx[w].op /\ tx'[w].p = tx[w].p
    BY <1>1, <2>4 DEF TxType
  <2>3. Inserts(w)
    BY <2>1, <2>2 DEF Inserts, Goes
  <2> QED BY <1>2, <1>3, <2>1, <2>3
<1>11. CASE TakeRow(w) /\ ~End(w)
  <2>1. /\ tx[w].op \in Releases /\ tx[w].pc = "begin" /\ Releasable(w) /\ LockRow(w, tx[w].p)
        /\ Step(w, [tx[w] EXCEPT !.pc = "node", !.at = placed[tx[w].p].node,
                                 !.ram = placed[tx[w].p].ram])
    BY <1>11 DEF TakeRow, Releases
  <2>4. tx'[w] = [tx[w] EXCEPT !.pc = "node", !.at = placed[tx[w].p].node,
                               !.ram = placed[tx[w].p].ram]
    BY <1>3, <2>1
  <2>2. /\ tx'[w].pc = "node" /\ tx'[w].op = tx[w].op /\ tx'[w].p = tx[w].p
        /\ tx'[w].at = placed[tx[w].p].node /\ tx'[w].ram = placed[tx[w].p].ram
    BY <1>1, <2>4 DEF TxType
  <2>3. TakesRow(w)
    BY <2>1, <2>2 DEF TakesRow, Goes, Reads, Releasable
  <2> QED BY <1>2, <1>3, <2>1, <2>3
<1>12. CASE CreditNode(w)
  <2>1. /\ tx[w].op \in Releases /\ tx[w].pc = "node" /\ rowLock' = rowLock
        /\ Step(w, [tx[w] EXCEPT !.pc = "commit"])
    BY <1>12 DEF CreditNode, Releases
  <2>2. Credits(w)
    BY <1>1, <1>3, <2>1 DEF Credits, Goes, Keeps, TxType
  <2> QED BY <1>2, <1>3, <2>1, <2>2
<1>13. CASE ReadBooking(w) /\ ~End(w)
  <2>1. /\ tx[w].op = "bookRam" /\ tx[w].pc = "begin" /\ HasRow(tx[w].p) /\ rowLock' = rowLock
        /\ Step(w, [tx[w] EXCEPT !.pc = "node", !.at = placed[tx[w].p].node,
                                 !.ram = placed[tx[w].p].ram])
    BY <1>13 DEF ReadBooking, At
  <2>4. tx'[w] = [tx[w] EXCEPT !.pc = "node", !.at = placed[tx[w].p].node,
                               !.ram = placed[tx[w].p].ram]
    BY <1>3, <2>1
  <2>2. /\ tx'[w].pc = "node" /\ tx'[w].op = tx[w].op /\ tx'[w].p = tx[w].p
        /\ tx'[w].at = placed[tx[w].p].node /\ tx'[w].ram = placed[tx[w].p].ram
    BY <1>1, <2>4 DEF TxType
  <2>3. ReadsRow(w)
    BY <2>1, <2>2 DEF ReadsRow, Goes, Reads
  <2> QED BY <1>2, <1>3, <2>1, <2>3
<1>14. CASE LockBooking(w) /\ ~End(w)
  <2>1. /\ tx[w].op = "bookRam" /\ tx[w].pc = "node" /\ tx[w].ram = 0 /\ rowLock' = rowLock
        /\ Step(w, [tx[w] EXCEPT !.pc = "row"])
    BY <1>14 DEF LockBooking, At
  <2>2. LocksNode(w)
    BY <1>1, <1>3, <2>1 DEF LocksNode, Goes, Keeps, TxType
  <2> QED BY <1>2, <1>3, <2>1, <2>2
<1>15. CASE Book(w)
  <2>1. /\ tx[w].op = "bookRam" /\ tx[w].pc = "row" /\ LockRow(w, tx[w].p)
        /\ Step(w, [tx[w] EXCEPT !.pc = "commit"])
    BY <1>15 DEF Book, At
  <2>2. LocksRow(w)
    BY <1>1, <1>3, <2>1 DEF LocksRow, Goes, Keeps, TxType
  <2> QED BY <1>2, <1>3, <2>1, <2>2
<1> QED
  BY <1>5, <1>6, <1>7, <1>8, <1>9, <1>10, <1>11, <1>12, <1>13, <1>14, <1>15
     DEF Moving, OutOfCandidates, Abort

\* Row locks are taken from nobody.
LEMMA LocksOfOthers ==
  ASSUME TypeOK, NEW w \in Workers,
         End(w) \/ rowLock' = rowLock \/ (\E q \in Projects : LockRow(w, q))
  PROVE  \A v \in Workers \ {w}, p \in Projects : rowLock'[p] = v <=> rowLock[p] = v
BY Types, PlacementAssumption DEF End, Unlocked, LockRow

LEMMA RowMover ==
  ASSUME IInv, RowInv, NEW w \in Workers, UNCHANGED <<reserved, placed>>,
         \A v \in Workers \ {w} : tx'[v] = tx[v],
         \A v \in Workers \ {w}, p \in Projects : rowLock'[p] = v <=> rowLock[p] = v,
         Knows(w)', Owns(w)'
  PROVE  RowInv'
<1>1. ASSUME NEW v \in Workers, v # w PROVE Knows(v)' /\ Owns(v)'
  <2>1. tx'[v] = tx[v] /\ Knows(v) /\ Owns(v) /\ Located(v)
    BY <1>1 DEF RowInv, IInv
  <2>2. Owns(v)'
    BY <1>1, <2>1 DEF Owns
  <2>3. Knows(v)'
    BY <1>1, <2>1 DEF Knows, HasRow, Located, Releases
  <2> QED BY <2>2, <2>3
<1>2. \A n \in Nodes : DiskCounted(n)'
  BY DEF RowInv, DiskCounted, RowsOn
<1> QED BY <1>1, <1>2 DEF RowInv

LEMMA RowMoves ==
  ASSUME IInv, RowInv, NEW w \in Workers, Moving(w)
  PROVE  RowInv'
<1>1. /\ UNCHANGED <<reserved, placed>>
      /\ \A v \in Workers \ {w} : tx'[v] = tx[v]
  BY Moves2
<1>2. /\ TypeOK /\ Located(w) /\ Knows(w) /\ Owns(w)
      /\ tx \in [Workers -> TxType] /\ rowLock \in [Projects -> Workers \cup {None}]
  BY Types DEF IInv, RowInv
<1>3. CASE \E op \in Ops, p \in Projects : Start(w, op, p)
  <2>1. PICK op \in Ops, p \in Projects :
          /\ tx[w].pc = "idle" /\ rowLock' = rowLock
          /\ tx'[w] = [NoTx EXCEPT !.pc = "begin", !.op = op, !.p = p]
    BY <1>2, <1>3 DEF Start, Step
  <2>2. tx'[w].pc = "begin"
    BY <2>1 DEF NoTx
  <2>3. Knows(w)' /\ Owns(w)'
    BY <1>2, <2>1, <2>2 DEF Knows, Owns
  <2> QED BY <1>1, <1>2, <2>1, <2>3, RowMover, LocksOfOthers
<1>4. CASE End(w)
  <2>1. tx'[w] = NoTx /\ \A p \in Projects : rowLock'[p] # w
    BY <1>2, <1>4, PlacementAssumption DEF End, Step, Unlocked
  <2>2. Knows(w)' /\ Owns(w)'
    BY <2>1 DEF Knows, Owns, NoTx
  <2> QED BY <1>1, <1>2, <1>4, <2>2, RowMover, LocksOfOthers
<1>5. CASE Allocates(w)
  <2>1. Knows(w)' /\ Owns(w)'
    BY <1>2, <1>5 DEF Allocates, Goes, Knows, Owns, Releases
  <2> QED BY <1>1, <1>2, <1>5, <2>1, RowMover, LocksOfOthers DEF Allocates
<1>6. CASE Inserts(w)
  <2>1. tx[w].p \in Projects /\ rowLock[tx[w].p] # w
    BY <1>2, <1>6 DEF Inserts, Located, Owns, Releases
  <2>2. /\ rowLock[tx[w].p] = None /\ ~HasRow(tx[w].p)
        /\ rowLock'[tx[w].p] = w /\ \A p \in Projects \ {tx[w].p} : rowLock'[p] = rowLock[p]
    BY <1>2, <1>6, <2>1 DEF Inserts, LockRow
  <2>3. tx'[w].pc = "commit" /\ tx'[w].op = "allocate" /\ tx'[w].p = tx[w].p
    BY <1>6 DEF Inserts, Goes
  <2>4. Knows(w)'
    BY <1>1, <2>2, <2>3 DEF Knows, Releases, HasRow
  <2>5. ASSUME NEW q \in Projects, rowLock'[q] = w PROVE q = tx[w].p
    BY <1>2, <1>6, <2>2, <2>5 DEF Inserts, Owns, Releases
  <2>6. Owns(w)'
    BY <2>3, <2>5 DEF Owns
  <2> QED BY <1>1, <1>2, <1>6, <2>1, <2>4, <2>6, RowMover, LocksOfOthers DEF Inserts
<1>7. CASE TakesRow(w)
  <2>1. tx[w].p \in Projects
    BY <1>2, <1>7 DEF TakesRow, Located
  <2>2. /\ rowLock'[tx[w].p] = w /\ \A p \in Projects \ {tx[w].p} : rowLock'[p] = rowLock[p]
    BY <1>2, <1>7, <2>1 DEF TakesRow, LockRow
  <2>3. Knows(w)' /\ Owns(w)'
    BY <1>1, <1>2, <1>7, <2>1, <2>2 DEF TakesRow, Goes, Reads, Knows, Owns, Releases, HasRow
  <2> QED BY <1>1, <1>2, <1>7, <2>1, <2>3, RowMover, LocksOfOthers DEF TakesRow
<1>8. CASE Credits(w)
  <2>1. /\ tx'[w].pc = "commit" /\ tx'[w].op = tx[w].op /\ tx'[w].p = tx[w].p
        /\ tx'[w].at = tx[w].at /\ tx'[w].ram = tx[w].ram /\ rowLock' = rowLock
        /\ tx[w].op \in Releases /\ tx[w].pc = "node"
    BY <1>8 DEF Credits, Goes, Keeps
  <2>2. Knows(w)'
    BY <1>1, <1>2, <2>1 DEF Knows, Releases, HasRow
  <2>4. ASSUME NEW q \in Projects, rowLock'[q] = w PROVE tx[w].p = q
    BY <1>2, <2>1, <2>4 DEF Owns
  <2>3. Owns(w)'
    BY <2>1, <2>4 DEF Owns
  <2> QED BY <1>1, <1>2, <1>8, <2>2, <2>3, RowMover, LocksOfOthers DEF Credits
<1>9. CASE ReadsRow(w)
  <2>1. Knows(w)' /\ Owns(w)'
    BY <1>2, <1>9 DEF ReadsRow, Goes, Knows, Owns, Releases
  <2> QED BY <1>1, <1>2, <1>9, <2>1, RowMover, LocksOfOthers DEF ReadsRow
<1>10. CASE LocksNode(w)
  <2>1. Knows(w)' /\ Owns(w)'
    BY <1>2, <1>10 DEF LocksNode, Goes, Knows, Owns, Releases
  <2> QED BY <1>1, <1>2, <1>10, <2>1, RowMover, LocksOfOthers DEF LocksNode
<1>11. CASE LocksRow(w)
  <2>1. tx[w].p \in Projects
    BY <1>2, <1>11 DEF LocksRow, Located
  <2>2. /\ rowLock'[tx[w].p] = w /\ \A p \in Projects \ {tx[w].p} : rowLock'[p] = rowLock[p]
    BY <1>2, <1>11, <2>1 DEF LocksRow, LockRow
  <2>3. tx'[w].pc = "commit" /\ tx'[w].op = "bookRam" /\ tx'[w].p = tx[w].p
    BY <1>11 DEF LocksRow, Goes
  <2>4. Knows(w)'
    BY <2>2, <2>3 DEF Knows, Releases
  <2>5. ASSUME NEW q \in Projects, rowLock'[q] = w PROVE q = tx[w].p
    BY <1>2, <1>11, <2>2, <2>5 DEF LocksRow, Owns, Releases
  <2>6. Owns(w)'
    BY <2>3, <2>5 DEF Owns
  <2> QED BY <1>1, <1>2, <1>11, <2>1, <2>4, <2>6, RowMover, LocksOfOthers DEF LocksRow
<1> QED
  BY Moves2, <1>3, <1>4, <1>5, <1>6, <1>7, <1>8, <1>9, <1>10, <1>11

\* A sum over the rows on a node, when one row is rewritten: what the old row gave goes,
\* what the new one gives comes.  S and T are the rows on the node before and after.
Term(f, S, p) == IF p \in S THEN f[p] ELSE 0

LEMMA SumMoves ==
  ASSUME NEW f \in [Projects -> Nat], NEW g \in [Projects -> Nat],
         NEW S \in SUBSET Projects, NEW T \in SUBSET Projects, NEW p \in Projects,
         S \ {p} = T \ {p}, \A q \in Projects \ {p} : f[q] = g[q]
  PROVE  /\ SumFunctionOnSet(g, T) = SumFunctionOnSet(f, S) - Term(f, S, p) + Term(g, T, p)
         /\ SumFunctionOnSet(f, S) \in Nat /\ Term(f, S, p) <= SumFunctionOnSet(f, S)
<1> DEFINE R == S \ {p}
<1>1. IsFiniteSet(S) /\ IsFiniteSet(T) /\ IsFiniteSet(R)
  BY FS_Subset, PlacementAssumption
<1>2. SumFunctionOnSet(f, R) = SumFunctionOnSet(g, R) /\ SumFunctionOnSet(f, R) \in Nat
  BY <1>1, SumSame, SumNat
<1>3. SumFunctionOnSet(f, S) = Term(f, S, p) + SumFunctionOnSet(f, R)
  BY <1>1, <1>2, SumOut DEF Term
<1>4. SumFunctionOnSet(g, T) = Term(g, T, p) + SumFunctionOnSet(g, R)
  <2>1. T \ {p} = R /\ (p \notin T => T = R)
    OBVIOUS
  <2> HIDE DEF R
  <2> QED  BY <1>1, <1>2, <2>1, SumOut DEF Term
<1>5. Term(f, S, p) \in Nat /\ Term(g, T, p) \in Nat
  BY DEF Term
<1> HIDE DEF R
<1> QED  BY <1>2, <1>3, <1>4, <1>5

\* The disk counters after a Commit.
LEMMA DiskCommitted ==
  ASSUME IInv, RowInv, NEW w \in Workers, Commit(w)
  PROVE  \A n \in Nodes : DiskCounted(n)'
<1> DEFINE p == tx[w].p
           n == tx[w].at
           r == reserved[n]
<1>1. /\ TypeOK /\ Knows(w) /\ Located(w) /\ p \in Projects /\ n \in Nodes
      /\ tx[w].pc = "commit" /\ tx[w].op \in Ops /\ tx[w] \in TxType
  BY CommitWrites, Types DEF IInv, RowInv, Commit, TxType
<1>2. /\ placed \in [Projects -> RowType] /\ reserved \in [Nodes -> Amounts]
      /\ Disk \in [Projects -> Nat] /\ Ram \in [Projects -> Nat] /\ tx[w].ram \in Nat
  BY <1>1, Types, PlacementAssumption DEF TxType
<1>3. PICK row, res : Writes(w, row, res) /\
        \/ /\ tx[w].op = "allocate" /\ row.node = n /\ res.disk = r.disk + Disk[p]
        \/ /\ tx[w].op = "releaseNode" /\ row.node = None /\ res.disk = Minus(r.disk, Disk[p])
        \/ /\ tx[w].op \in {"releaseRam", "bookRam"} /\ row.node = placed[p].node
           /\ res.disk = r.disk
  <2>1. CASE tx[w].op = "allocate"
    BY <2>1 DEF Commit, Writes
  <2>2. CASE tx[w].op = "releaseNode"
    BY <2>2 DEF Commit, Writes, Absent
  <2>3. CASE tx[w].op = "releaseRam"
    <3> DEFINE row == [placed[p] EXCEPT !.ram = 0]
    <3>1. row.node = placed[p].node
      BY <1>1, <1>2 DEF RowType
    <3> QED BY <2>3, <3>1 DEF Commit, Writes
  <2>4. CASE tx[w].op = "bookRam"
    <3> DEFINE row == IF HasRow(p) THEN [placed[p] EXCEPT !.ram = Ram[p]] ELSE Absent
    <3>1. row.node = placed[p].node
      BY <1>1, <1>2 DEF RowType, HasRow, Absent
    <3> DEFINE res == [ram |-> r.ram + Ram[p], disk |-> r.disk]
    <3>2. Writes(w, row, res)
      BY <2>4 DEF Commit, Writes
    <3> HIDE DEF row
    <3> QED BY <2>4, <3>1, <3>2
  <2> QED BY <1>1, <2>1, <2>2, <2>3, <2>4 DEF Ops
<1>4. ASSUME NEW m \in Nodes PROVE DiskCounted(m)'
  <2> DEFINE S == RowsOn(m)
             T == {q \in Projects : placed'[q].node = m}
             before == SumFunctionOnSet(Disk, S)
             after == SumFunctionOnSet(Disk, T)
  <2>1. /\ placed'[p] = row /\ \A q \in Projects \ {p} : placed'[q] = placed[q]
        /\ reserved'[m] = IF m = n THEN res ELSE reserved[m]
    BY <1>1, <1>2, <1>3 DEF Writes
  <2>2. /\ S \ {p} = T \ {p} /\ S \in SUBSET Projects /\ T \in SUBSET Projects
        /\ p \in S <=> placed[p].node = m
        /\ p \in T <=> row.node = m
    BY <1>1, <2>1 DEF RowsOn
  <2>3. /\ after = before - Term(Disk, S, p) + Term(Disk, T, p)
        /\ before \in Nat /\ Term(Disk, S, p) <= before
    <3> HIDE DEF S, T
    <3> QED  BY <1>1, <1>2, <2>2, SumMoves
  <2>4. reserved[m].disk = before /\ reserved[m].disk \in Nat
    BY <1>2 DEF RowInv, DiskCounted, Amounts
  <2>5. Disk[p] \in Nat /\ None \notin Nodes
    BY <1>1, <1>2, PlacementAssumption
  <2>6. reserved'[m].disk = after
    <3> HIDE DEF S, T, before, after
    <3>1. CASE tx[w].op = "allocate"
      <4>1. placed[p].node = None /\ row.node = n
        BY <1>1, <1>3, <3>1 DEF Knows, HasRow
      <4> QED  BY <1>3, <2>1, <2>2, <2>3, <2>4, <2>5, <3>1, <4>1 DEF Term
    <3>2. CASE tx[w].op = "releaseNode"
      <4>1. placed[p].node = n /\ row.node = None
        BY <1>1, <1>3, <3>2 DEF Knows, Releases
      <4> QED  BY <1>3, <2>1, <2>2, <2>3, <2>4, <2>5, <3>2, <4>1 DEF Term, Minus
    <3>3. CASE tx[w].op \in {"releaseRam", "bookRam"}
      <4>1. row.node = placed[p].node /\ reserved'[m].disk = reserved[m].disk
        BY <1>3, <2>1, <3>3
      <4> QED  BY <2>2, <2>3, <2>4, <2>5, <4>1 DEF Term
    <3> QED  BY <1>1, <3>1, <3>2, <3>3 DEF Ops
  <2> QED  BY <2>6 DEF DiskCounted, RowsOn
<1> QED  BY <1>4

\* Whoever holds a row's lock has the row to itself.
LEMMA RowCommitted ==
  ASSUME IInv, RowInv, NEW w \in Workers, Commit(w)
  PROVE  RowInv'
<1>1. /\ TypeOK /\ End(w) /\ tx[w].pc = "commit" /\ tx[w].p \in Projects
      /\ Knows(w) /\ Owns(w)
      /\ tx \in [Workers -> TxType] /\ rowLock \in [Projects -> Workers \cup {None}]
  BY CommitWrites, Types DEF IInv, RowInv, Commit
<1>2. \A q \in Projects \ {tx[w].p} : placed'[q] = placed[q]
  BY <1>1, CommitWrites, Types DEF Writes, IInv
<1>3. /\ tx'[w] = NoTx /\ \A v \in Workers \ {w} : tx'[v] = tx[v]
      /\ \A p \in Projects : rowLock'[p] # w
  BY <1>1, PlacementAssumption DEF End, Step, Unlocked
<1>4. Knows(w)' /\ Owns(w)'
  BY <1>3 DEF Knows, Owns, NoTx
<1>5. ASSUME NEW v \in Workers, v # w PROVE Knows(v)' /\ Owns(v)'
  <2>1. tx'[v] = tx[v] /\ Knows(v) /\ Owns(v) /\ Located(v)
    BY <1>3, <1>5 DEF RowInv, IInv
  <2>2. \A p \in Projects : rowLock'[p] = v <=> rowLock[p] = v
    BY <1>1, <1>5, LocksOfOthers
  <2>3. Owns(v)'
    BY <2>1, <2>2 DEF Owns
  <2>4. CASE rowLock[tx[v].p] = v /\ tx[v].p \in Projects
    <3>1. tx[v].p # tx[w].p
      BY <1>1, <1>5, <2>4 DEF Knows
    <3> QED  BY <1>2, <2>1, <2>2, <2>3, <2>4, <3>1 DEF Knows, HasRow
  <2>5. CASE ~(rowLock[tx[v].p] = v /\ tx[v].p \in Projects)
    BY <2>1, <2>3, <2>5 DEF Knows, Located, Releases
  <2> QED BY <2>4, <2>5
<1> QED
  BY <1>4, <1>5, DiskCommitted DEF RowInv

LEMMA RowInv_Init == Init => RowInv
<1> SUFFICES ASSUME Init PROVE RowInv
  OBVIOUS
<1>1. \A n \in Nodes : RowsOn(n) = {}
  BY PlacementAssumption DEF Init, RowsOn, Absent
<1>2. \A n \in Nodes : DiskCounted(n)
  BY <1>1, SumEmpty DEF Init, DiskCounted
<1>3. \A w \in Workers : Knows(w) /\ Owns(w)
  BY PlacementAssumption DEF Init, Knows, Owns, NoTx
<1> QED BY <1>2, <1>3 DEF RowInv

\* What the reconciler's pass does to a counter.
LEMMA Reconciling ==
  ASSUME TypeOK, NEW n \in Nodes, Reconcile(n)
  PROVE  /\ UNCHANGED <<placed, rowLock, tx>>
         /\ \A m \in Nodes : reserved'[m].disk = reserved[m].disk
         /\ \A m \in Nodes \ {n} : reserved'[m] = reserved[m]
BY Types DEF Reconcile, ReadCounter, Compare, CompareIf, Repair, Moves, Amounts

LEMMA RowInv_Next ==
  ASSUME IInv, RowInv, [Next]_vars
  PROVE  RowInv'
<1>1. ASSUME NEW n \in Nodes, Cordon(n) PROVE RowInv'
  BY <1>1 DEF Cordon, RowInv, Knows, Owns, DiskCounted, RowsOn, HasRow
<1>2. ASSUME NEW n \in Nodes, Reconcile(n) PROVE RowInv'
  <2>1. /\ UNCHANGED <<placed, rowLock, tx>>
        /\ \A m \in Nodes : reserved'[m].disk = reserved[m].disk
    BY <1>2, Reconciling DEF IInv
  <2>2. \A n2 \in Nodes : DiskCounted(n2)'
    BY <2>1 DEF RowInv, DiskCounted, RowsOn
  <2>3. \A w \in Workers : Knows(w)' /\ Owns(w)'
    BY <2>1 DEF RowInv, Knows, Owns, HasRow
  <2> QED BY <2>2, <2>3 DEF RowInv
<1>3. CASE UNCHANGED vars
  BY <1>3 DEF vars, RowInv, Knows, Owns, DiskCounted, RowsOn, HasRow
<1> QED
  BY <1>1, <1>2, <1>3, RowMoves, RowCommitted, PlacementAssumption DEF Next, Moving

-----------------------------------------------------------------------------
(* The RAM counters, under CallersKeepApart *)

Rams == [q \in Projects |-> placed[q].ram]

\* The RAM counters after a Commit.
LEMMA RamCommitted ==
  ASSUME IInv, RowInv, BookInv, NEW w \in Workers, Commit(w)
  PROVE  \A n \in Nodes : RamCounted(n)'
<1> DEFINE p == tx[w].p
           n == tx[w].at
           r == reserved[n]
<1>1. /\ TypeOK /\ Knows(w) /\ Books(w) /\ Located(w) /\ p \in Projects /\ n \in Nodes
      /\ tx[w].pc = "commit" /\ tx[w].op \in Ops /\ tx[w] \in TxType
  BY CommitWrites, Types DEF IInv, RowInv, BookInv, Commit, TxType
<1>2. /\ placed \in [Projects -> RowType] /\ reserved \in [Nodes -> Amounts]
      /\ Ram \in [Projects -> Nat] /\ tx[w].ram \in Nat
  BY <1>1, Types, PlacementAssumption DEF TxType
<1>3. PICK row, res : Writes(w, row, res) /\
        \/ /\ tx[w].op = "allocate" /\ row.node = n /\ row.ram = Ram[p]
           /\ res.ram = r.ram + Ram[p]
        \/ /\ tx[w].op \in Releases /\ row.node \in {None, n} /\ row.ram = 0
           /\ res.ram = Minus(r.ram, tx[w].ram)
        \/ /\ tx[w].op = "bookRam" /\ row.node = n /\ row.ram = Ram[p]
           /\ res.ram = r.ram + Ram[p]
  <2>1. CASE tx[w].op = "allocate"
    BY <2>1 DEF Commit, Writes
  <2>2. CASE tx[w].op = "releaseNode"
    BY <2>2 DEF Commit, Writes, Absent, Freed, Releases
  <2>3. CASE tx[w].op = "releaseRam"
    <3> DEFINE row == [placed[p] EXCEPT !.ram = 0]
               res == [ram |-> Minus(r.ram, tx[w].ram), disk |-> r.disk]
    <3>1. row.node = n /\ row.ram = 0
      BY <1>1, <1>2, <2>3 DEF RowType, Knows, Releases
    <3>2. Writes(w, row, res)
      BY <2>3 DEF Commit, Writes, Freed
    <3> HIDE DEF row
    <3> QED BY <2>3, <3>1, <3>2 DEF Releases
  <2>4. CASE tx[w].op = "bookRam"
    <3> DEFINE row == IF HasRow(p) THEN [placed[p] EXCEPT !.ram = Ram[p]] ELSE Absent
               res == [ram |-> r.ram + Ram[p], disk |-> r.disk]
    <3>1. row.node = n /\ row.ram = Ram[p]
      BY <1>1, <1>2, <2>4 DEF RowType, Books
    <3>2. Writes(w, row, res)
      BY <2>4 DEF Commit, Writes
    <3> HIDE DEF row
    <3> QED BY <2>4, <3>1, <3>2
  <2> QED BY <1>1, <2>1, <2>2, <2>3, <2>4 DEF Ops
<1>4. /\ placed'[p] = row /\ \A q \in Projects \ {p} : placed'[q] = placed[q]
      /\ \A m \in Nodes : reserved'[m] = IF m = n THEN res ELSE reserved[m]
  BY <1>1, <1>2, <1>3 DEF Writes
<1>5. /\ Rams \in [Projects -> Nat] /\ Rams' \in [Projects -> Nat]
      /\ \A q \in Projects \ {p} : Rams[q] = Rams'[q]
      /\ Rams[p] = placed[p].ram /\ Rams'[p] = row.ram
  <2>1. row.ram \in Nat
    BY <1>1, <1>2, <1>3
  <2> QED BY <1>1, <1>2, <1>4, <2>1 DEF Rams, RowType
<1>6. ASSUME NEW m \in Nodes, m \notin Reconciles PROVE reserved'[m].ram = Booked(m)'
  <2> DEFINE S == RowsOn(m)
             T == {q \in Projects : placed'[q].node = m}
             g == Rams'
             before == SumFunctionOnSet(Rams, S)
             after == SumFunctionOnSet(g, T)
  <2>1. /\ S \ {p} = T \ {p} /\ S \in SUBSET Projects /\ T \in SUBSET Projects
        /\ p \in S <=> placed[p].node = m
        /\ p \in T <=> row.node = m
    BY <1>1, <1>4 DEF RowsOn
  <2>2. /\ after = before - Term(Rams, S, p) + Term(g, T, p)
        /\ before \in Nat /\ Term(Rams, S, p) <= before
    <3> HIDE DEF S, T, g
    <3>1. g \in [Projects -> Nat] /\ \A q \in Projects \ {p} : Rams[q] = g[q]
      BY <1>5 DEF g
    <3> QED  BY <1>1, <1>5, <2>1, <3>1, SumMoves
  <2>3. /\ Term(Rams, S, p) = IF placed[p].node = m THEN placed[p].ram ELSE 0
        /\ Term(g, T, p) = IF row.node = m THEN row.ram ELSE 0
    BY <1>5, <2>1 DEF Term
  <2>4. reserved[m].ram = before /\ reserved[m].ram \in Nat
    BY <1>2, <1>6 DEF BookInv, RamCounted, Amounts, Booked, Rams
  <2>5. /\ Ram[p] \in Nat /\ placed[p].ram \in Nat /\ None \notin Nodes
    BY <1>1, <1>2, PlacementAssumption DEF RowType
  <2>6. reserved'[m].ram = after
    <3> HIDE DEF S, T, g, before, after
    <3>1. CASE tx[w].op = "allocate"
      <4>1. /\ placed[p].node = None /\ row.node = n /\ row.ram = Ram[p]
            /\ res.ram = r.ram + Ram[p]
        BY <1>1, <1>3, <3>1 DEF Knows, HasRow, Releases
      <4> QED  BY <1>4, <2>2, <2>3, <2>4, <2>5, <4>1
    <3>2. CASE tx[w].op \in Releases
      <4>1. /\ placed[p].node = n /\ placed[p].ram = tx[w].ram /\ row.ram = 0
            /\ res.ram = Minus(r.ram, tx[w].ram)
        BY <1>1, <1>3, <3>2 DEF Knows, Releases
      <4> QED  BY <1>4, <2>2, <2>3, <2>4, <2>5, <4>1 DEF Minus
    <3>3. CASE tx[w].op = "bookRam"
      <4>1. /\ placed[p].node = n /\ placed[p].ram = 0 /\ row.node = n /\ row.ram = Ram[p]
            /\ res.ram = r.ram + Ram[p]
        BY <1>1, <1>3, <3>3 DEF Books, Releases
      <4> QED  BY <1>4, <2>2, <2>3, <2>4, <2>5, <4>1
    <3> QED  BY <1>1, <3>1, <3>2, <3>3 DEF Ops, Releases
  <2> QED  BY <2>6 DEF Booked, RowsOn, Rams
<1> QED  BY <1>6 DEF RamCounted

LEMMA BookMover ==
  ASSUME BookInv, NEW w \in Workers, UNCHANGED <<reserved, placed>>,
         \A v \in Workers \ {w} : tx'[v] = tx[v], Alone(w)', Books(w)'
  PROVE  BookInv'
<1>1. ASSUME NEW v \in Workers, v # w PROVE Alone(v)' /\ Books(v)'
  <2>1. tx'[v] = tx[v] /\ Alone(v) /\ Books(v)
    BY <1>1 DEF BookInv
  <2>2. ASSUME NEW u \in Workers \ {v}, tx'[u].pc # "idle", tx'[v].pc # "idle",
               tx'[u].p = tx'[v].p
        PROVE  {tx'[u].op, tx'[v].op} \notin Apart
    <3>1. CASE u = w
      <4>1. {tx'[v].op, tx'[w].op} \notin Apart
        BY <1>1, <2>2, <3>1 DEF Alone
      <4>2. {tx'[v].op, tx'[w].op} = {tx'[w].op, tx'[v].op}
        OBVIOUS
      <4> QED BY <3>1, <4>1, <4>2
    <3>2. CASE u # w
      BY <2>1, <2>2, <3>2 DEF Alone
    <3> QED BY <3>1, <3>2
  <2>3. Alone(v)'
    BY <2>2 DEF Alone
  <2>4. Books(v)'
    BY <2>1 DEF Books, HasRow
  <2> QED BY <2>3, <2>4
<1>2. \A n \in Nodes : RamCounted(n)'
  BY DEF BookInv, RamCounted, Booked, RowsOn
<1> QED BY <1>1, <1>2 DEF BookInv

LEMMA BookMoves ==
  ASSUME IInv, BookInv, NEW w \in Workers, Moving(w)
  PROVE  BookInv'
<1>1. /\ UNCHANGED <<reserved, placed>>
      /\ \A v \in Workers \ {w} : tx'[v] = tx[v]
  BY Moves2
<1>2. TypeOK /\ Alone(w) /\ Books(w) /\ tx \in [Workers -> TxType]
  BY Types DEF IInv, BookInv
<1>3. CASE \E op \in Ops, p \in Projects : Start(w, op, p)
  <2>1. PICK op \in Ops, p \in Projects :
          /\ \A v \in Workers : tx[v].pc # "idle" /\ tx[v].p = p => {op, tx[v].op} \notin Apart
          /\ tx'[w] = [NoTx EXCEPT !.pc = "begin", !.op = op, !.p = p]
    BY <1>2, <1>3 DEF Start, Step
  <2>2. tx'[w].pc = "begin" /\ tx'[w].op = op /\ tx'[w].p = p
    BY <2>1 DEF NoTx
  <2>3. ASSUME NEW v \in Workers \ {w}, tx'[v].pc # "idle", tx'[v].p = tx'[w].p
        PROVE  {tx'[v].op, tx'[w].op} \notin Apart
    <3>1. {op, tx[v].op} \notin Apart
      BY <1>1, <2>1, <2>2, <2>3
    <3>2. {op, tx[v].op} = {tx'[v].op, tx'[w].op}
      BY <1>1, <2>2
    <3> QED BY <3>1, <3>2
  <2>4. Alone(w)' /\ Books(w)'
    BY <2>2, <2>3 DEF Alone, Books
  <2> QED BY <1>1, <2>4, BookMover
<1>4. CASE End(w)
  <2>1. tx'[w] = NoTx
    BY <1>2, <1>4 DEF End, Step
  <2>2. Alone(w)' /\ Books(w)'
    BY <2>1 DEF Alone, Books, NoTx
  <2> QED BY <1>1, <2>2, BookMover
<1>5. CASE tx[w].pc # "idle" /\ tx'[w].op = tx[w].op /\ tx'[w].p = tx[w].p /\ Books(w)'
  <2>1. Alone(w)'
    BY <1>1, <1>2, <1>5 DEF Alone
  <2> QED BY <1>1, <1>5, <2>1, BookMover
<1>6. CASE Allocates(w) \/ Inserts(w) \/ TakesRow(w) \/ Credits(w)
  <2>1. tx[w].pc # "idle" /\ tx'[w].op = tx[w].op /\ tx'[w].p = tx[w].p /\ tx[w].op # "bookRam"
    BY <1>6 DEF Allocates, Inserts, TakesRow, Credits, Goes, Releases
  <2>2. Books(w)'
    BY <2>1 DEF Books
  <2> QED BY <1>5, <2>1, <2>2
<1>7. CASE ReadsRow(w)
  <2>1. Books(w)'
    BY <1>1, <1>7 DEF ReadsRow, Goes, Reads, Books, HasRow
  <2> QED BY <1>5, <1>7, <2>1 DEF ReadsRow, Goes
<1>8. CASE LocksNode(w)
  <2>1. Books(w)'
    BY <1>1, <1>2, <1>8 DEF LocksNode, Goes, Keeps, Books, HasRow
  <2> QED BY <1>5, <1>8, <2>1 DEF LocksNode, Goes
<1>9. CASE LocksRow(w)
  <2>1. Books(w)'
    BY <1>1, <1>2, <1>9 DEF LocksRow, Goes, Keeps, Books, HasRow
  <2> QED BY <1>5, <1>9, <2>1 DEF LocksRow, Goes
<1> QED
  BY Moves2, <1>3, <1>4, <1>6, <1>7, <1>8, <1>9

\* A Commit takes nothing from what another booking has read: a release of the same
\* project's RAM leaves it no less true, every other writer of the row is kept apart.
LEMMA BookCommitted ==
  ASSUME CallersKeepApart, IInv, RowInv, BookInv, NEW w \in Workers, Commit(w)
  PROVE  BookInv'
<1>1. /\ TypeOK /\ End(w) /\ tx[w].pc = "commit" /\ tx[w].p \in Projects /\ tx[w].op \in Ops
      /\ Knows(w) /\ tx \in [Workers -> TxType] /\ placed \in [Projects -> RowType]
  BY CommitWrites, Types DEF IInv, RowInv, Commit, TxType
<1>2. \A q \in Projects \ {tx[w].p} : placed'[q] = placed[q]
  BY <1>1, CommitWrites DEF Writes, IInv
<1>3. /\ tx'[w] = NoTx /\ \A v \in Workers \ {w} : tx'[v] = tx[v]
  BY <1>1 DEF End, Step
<1>4. Alone(w)' /\ Books(w)'
  BY <1>3 DEF Alone, Books, NoTx
<1>5. ASSUME NEW v \in Workers, v # w PROVE Alone(v)' /\ Books(v)'
  <2>1. tx'[v] = tx[v] /\ Alone(v) /\ Books(v) /\ Located(v)
    BY <1>3, <1>5 DEF BookInv, IInv
  <2>2. Alone(v)'
    BY <1>3, <1>5, <2>1 DEF Alone, NoTx
  <2>3. CASE tx[v].p # tx[w].p \/ tx[v].op # "bookRam" \/ tx[v].pc \notin {"node", "row", "commit"}
    <3>1. CASE tx[v].op = "bookRam" /\ tx[v].pc \in {"node", "row", "commit"}
      <4>1. tx[v].p \in Projects \ {tx[w].p}
        BY <2>1, <2>3, <3>1 DEF Located
      <4>2. placed'[tx[v].p] = placed[tx[v].p]
        BY <1>2, <4>1
      <4> QED BY <2>1, <2>2, <4>2 DEF Books, HasRow
    <3>2. CASE ~(tx[v].op = "bookRam" /\ tx[v].pc \in {"node", "row", "commit"})
      BY <2>1, <2>2, <3>2 DEF Books
    <3> QED BY <3>1, <3>2
  <2>4. CASE tx[v].p = tx[w].p /\ tx[v].op = "bookRam" /\ tx[v].pc \in {"node", "row", "commit"}
    <3>1. {tx[w].op, "bookRam"} \notin Apart /\ HasRow(tx[w].p)
      BY <1>1, <1>5, <2>1, <2>4 DEF Alone, Books
    <3>2. tx[w].op # "allocate" /\ tx[w].op # "bookRam" /\ tx[w].op # "releaseNode"
      <4>1. tx[w].op # "allocate"
        BY <1>1, <3>1 DEF Knows
      <4>2. {"bookRam", "bookRam"} = {"bookRam"} /\ {"releaseNode", "bookRam"} = {"bookRam", "releaseNode"}
        OBVIOUS
      <4> QED BY <3>1, <4>1, <4>2 DEF CallersKeepApart
    <3>3. tx[w].op = "releaseRam"
      BY <1>1, <3>2 DEF Ops
    <3>4. placed'[tx[w].p] = [placed[tx[w].p] EXCEPT !.ram = 0]
      BY <1>1, <3>3 DEF Commit
    <3>5. placed'[tx[w].p].node = placed[tx[w].p].node /\ placed'[tx[w].p].ram = 0
      BY <1>1, <3>4 DEF RowType
    <3> QED BY <2>1, <2>2, <2>4, <3>5 DEF Books, HasRow
  <2> QED BY <2>2, <2>3, <2>4
<1> QED
  BY <1>4, <1>5, RamCommitted DEF BookInv

LEMMA BookInv_Init == Init => BookInv
<1> SUFFICES ASSUME Init PROVE BookInv
  OBVIOUS
<1>1. \A n \in Nodes : RowsOn(n) = {}
  BY PlacementAssumption DEF Init, RowsOn, Absent
<1>2. \A n \in Nodes : RamCounted(n)
  BY <1>1, SumEmpty DEF Init, RamCounted, Booked
<1>3. \A w \in Workers : Alone(w) /\ Books(w)
  BY DEF Init, Alone, Books, NoTx
<1> QED BY <1>2, <1>3 DEF BookInv

LEMMA BookInv_Next ==
  ASSUME CallersKeepApart, IInv, RowInv, BookInv, [Next]_vars
  PROVE  BookInv'
<1>1. ASSUME NEW n \in Nodes, Cordon(n) PROVE BookInv'
  BY <1>1 DEF Cordon, BookInv, Alone, Books, RamCounted, Booked, RowsOn, HasRow
<1>2. ASSUME NEW n \in Reconciles, Reconcile(n) PROVE BookInv'
  <2>1. /\ UNCHANGED <<placed, tx>>
        /\ \A m \in Nodes \ Reconciles : reserved'[m] = reserved[m]
    BY <1>2, Reconciling, PlacementAssumption DEF IInv
  <2>2. \A m \in Nodes : RamCounted(m)'
    BY <2>1 DEF BookInv, RamCounted, Booked, RowsOn
  <2>3. \A w \in Workers : Alone(w)' /\ Books(w)'
    BY <2>1 DEF BookInv, Alone, Books, HasRow
  <2> QED BY <2>2, <2>3 DEF BookInv
<1>3. CASE UNCHANGED vars
  BY <1>3 DEF vars, BookInv, Alone, Books, RamCounted, Booked, RowsOn, HasRow
<1> QED
  BY <1>1, <1>2, <1>3, BookMoves, BookCommitted DEF Next, Moving

-----------------------------------------------------------------------------
(* The theorems *)

\* Every reachable state keeps every promise made under a lock (allocateNode, bookRam,
\* releaseNode, releaseRam), whichever of them run side by side.
THEOREM Invariance == Spec => []IInv
<1>1. Init => IInv
  BY IInv_Init
<1>2. IInv /\ [Next]_vars => IInv'
  BY IInv_Next
<1> QED
  BY <1>1, <1>2, PTL DEF Spec

\* Every variable has its type in every reachable state.
THEOREM Typing == Spec => []TypeOK
<1>1. IInv => TypeOK
  BY DEF IInv
<1> QED
  BY <1>1, Invariance, PTL

\* pickNode's and bookRam's checks under the node's lock are enough: no node is booked
\* past its disk stop, nor past its RAM stop unless its reconciler rewrites the counter.
THEOREM Room == Spec => [](\A n \in Nodes : Roomy(n))
<1>1. IInv => \A n \in Nodes : Roomy(n)
  BY DEF IInv
<1> QED
  BY <1>1, Invariance, PTL

\* Between the reconciler's passes, then, no node is oversold.
THEOREM Capacity == ASSUME Reconciles = {} PROVE Spec => []NotOversold
<1>1. (\A n \in Nodes : Roomy(n)) => NotOversold
  BY DEF Roomy, NotOversold
<1> QED
  BY <1>1, Room, PTL

\* The node's lock serialises the choice of ports: no two projects of a node share one.
THEOREM Ports == Spec => []SlotsDistinct
<1>1. IInv => SlotsDistinct
  BY DEF IInv
<1> QED
  BY <1>1, Invariance, PTL

\* Allocation, pause, resume and purge keep the disk counter of every node at the sum of
\* the plans of the projects that live there, whichever of them run side by side.
THEOREM DiskExact == Spec => [](\A n \in Nodes : DiskCounted(n))
<1>1. Init => IInv /\ RowInv
  BY IInv_Init, RowInv_Init
<1>2. IInv /\ RowInv /\ [Next]_vars => (IInv /\ RowInv)'
  BY IInv_Next, RowInv_Next
<1>3. RowInv => \A n \in Nodes : DiskCounted(n)
  BY DEF RowInv
<1> QED
  BY <1>1, <1>2, <1>3, PTL DEF Spec

\* While no pass of the reconciler rewrites a counter, the RAM counter too is what the rows
\* on the node say, provided the callers run neither two bookings of one project side by
\* side nor a booking beside a purge (bookRam does not lock the row it has read).
THEOREM Accounts ==
  ASSUME Reconciles = {}, CallersKeepApart
  PROVE  Spec => []Accounted
<1>1. Init => IInv /\ RowInv /\ BookInv
  BY IInv_Init, RowInv_Init, BookInv_Init
<1>2. IInv /\ RowInv /\ BookInv /\ [Next]_vars => (IInv /\ RowInv /\ BookInv)'
  BY IInv_Next, RowInv_Next, BookInv_Next
<1>3. RowInv /\ BookInv => Accounted
  BY DEF RowInv, DiskCounted, BookInv, RamCounted, Accounted
<1> QED
  BY <1>1, <1>2, <1>3, PTL DEF Spec

\* A row appears only by the Commit of an allocation, on a node that is still active.
LEMMA NewRows ==
  ASSUME IInv, [Next]_vars
  PROVE  \A p \in Projects : ~HasRow(p) /\ HasRow(p)' => placed'[p].node \in active
<1> SUFFICES ASSUME NEW p \in Projects, ~HasRow(p), HasRow(p)'
             PROVE  placed'[p].node \in active
  OBVIOUS
<1>1. placed' # placed
  BY DEF HasRow
<1>2. PICK w \in Workers : Commit(w)
  BY <1>1 DEF Next, vars, Start, FindExisting, Rank, Try, TryIf, OutOfCandidates, Insert,
              TakeRow, CreditNode, ReadBooking, LockBooking, Book, Abort, Cordon,
              Reconcile, ReadCounter, Compare, CompareIf, Repair, Moves
<1>3. TypeOK /\ Located(w) /\ Promised(w)
  BY DEF IInv
<1>4. PICK row \in RowType :
        /\ placed' = [placed EXCEPT ![tx[w].p] = row]
        /\ \/ tx[w].op = "allocate" /\ row.node = tx[w].at
           \/ row.node \in {None, placed[tx[w].p].node}
  BY <1>2, <1>3, CommitWrites DEF Writes
<1>5. p = tx[w].p /\ placed'[p] = row /\ tx[w].op = "allocate" /\ row.node = tx[w].at
  BY <1>3, <1>4, Types DEF HasRow
<1>6. Held(w)
  BY <1>2, <1>5 DEF Held, Commit
<1> QED
  BY <1>3, <1>5, <1>6 DEF Promised

\* The status re-read under the lock counts until the placement commits: no project is
\* placed on a node cordoned before.
THEOREM Cordons == Spec => CordonRespected
<1>1. IInv /\ [Next]_vars
        => [\A p \in Projects : ~HasRow(p) /\ HasRow(p)' => placed'[p].node \in active]_vars
  BY NewRows
<1> QED
  BY <1>1, Invariance, PTL DEF Spec, CordonRespected

=============================================================================
