----------------------------- MODULE Placement ------------------------------
(***************************************************************************)
(* Node capacity and placement (services/worker/src/placement.ts), and the *)
(* reconciler's repair of the node counters (reconcile.ts).                *)
(*                                                                         *)
(* A node row counts the RAM and disk reserved on it; a project_databases  *)
(* row says where a project lives, on which ports, and how much RAM it has *)
(* booked there.  Four saga steps keep the two tables in agreement, each   *)
(* in one transaction: allocateNode and releaseNode at the two ends of a   *)
(* project's life, releaseRam and bookRam around a pause.                  *)
(*                                                                         *)
(* A transaction is a sequence of statements under READ COMMITTED.  A      *)
(* statement reads what is committed when it runs; row locks last until    *)
(* the end; the writes become visible at Commit.  One slot stands for the  *)
(* three port choices (Postgres, pooler, PostgREST pair), which are made   *)
(* the same way and are taken and given back together.                     *)
(***************************************************************************)
EXTENDS Integers, FiniteSetsExt

CONSTANTS
  Projects, Workers,
  Nodes,       \* node rows, numbered in hostname order
  Stop,        \* per node, the placement stop on each axis: [ram, disk]
  Ram, Disk,   \* per project, what its plan books
  RamTotal,    \* per node, ram_total_mb
  MaxSlot,     \* width of the port range
  Apart,       \* the operations no two runners perform on one project side by side
  Reconciles   \* the nodes whose reconciler is running

None == 0
Slots == 1..MaxSlot
Amounts == [ram : Nat, disk : Nat]
Ops == {"allocate", "releaseNode", "releaseRam", "bookRam"}

ASSUME PlacementAssumption ==
  /\ Nodes \subseteq Nat \ {None} /\ IsFiniteSet(Nodes)
  /\ None \notin Workers /\ None \notin Projects /\ IsFiniteSet(Projects)
  /\ Stop \in [Nodes -> Amounts] /\ RamTotal \in [Nodes -> Nat]
  /\ Ram \in [Projects -> Nat \ {0}] /\ Disk \in [Projects -> Nat \ {0}]
  /\ MaxSlot \in Nat
  /\ Apart \subseteq SUBSET Ops
  /\ Reconciles \subseteq Nodes

VARIABLES
  reserved,   \* nodes: ram_reserved_mb, disk_reserved_gb
  active,     \* the nodes with status 'active'
  placed,     \* project_databases: node, slot, ram_booked_mb; node None if no row
  nodeLock,   \* who holds each node row
  rowLock,    \* who holds each project_databases row, or its unique-index entry
  tx,         \* per worker, the transaction it is in
  pass        \* per node, the reconciler's pass over its booking

vars == <<reserved, active, placed, nodeLock, rowLock, tx, pass>>

Absent == [node |-> None, slot |-> None, ram |-> 0]
\* at: the node chosen or looked up; left, rank: the candidates not yet tried and
\* their order; ram: the booking as the transaction's last read of its row saw it.
NoTx == [pc |-> "idle", op |-> "allocate", p |-> None, at |-> None, slot |-> None,
         ram |-> 0, left |-> {}, rank |-> [n \in Nodes |-> 0]]
NoPass == [pc |-> "idle", was |-> 0, rows |-> {}]

Init ==
  /\ reserved = [n \in Nodes |-> [ram |-> 0, disk |-> 0]]
  /\ active = Nodes
  /\ placed = [p \in Projects |-> Absent]
  /\ nodeLock = [n \in Nodes |-> None]
  /\ rowLock = [p \in Projects |-> None]
  /\ tx = [w \in Workers |-> NoTx]
  /\ pass = [n \in Nodes |-> NoPass]

-----------------------------------------------------------------------------
(* Fitting and ranking *)

HasRow(p) == placed[p].node # None

Fits(n, p) ==
  /\ Stop[n].ram - reserved[n].ram >= Ram[p]
  /\ Stop[n].disk - reserved[n].disk >= Disk[p]

\* fillRatio as a fraction <<reserved, stop>>: the worse of the two axes.
Fill(n) ==
  LET r == reserved[n]
  IN IF r.ram * Stop[n].disk >= r.disk * Stop[n].ram
     THEN <<r.ram, Stop[n].ram>> ELSE <<r.disk, Stop[n].disk>>

\* rankNodes: emptiest first, ties by hostname.
Before(m, n) ==
  LET f == Fill(m)[1] * Fill(n)[2]
      g == Fill(n)[1] * Fill(m)[2]
  IN f < g \/ (f = g /\ m < n)

\* Mutant: a paused project's ports are handed out again.
FreeSlotsUnbooked(n) ==
  {s \in Slots : \A p \in Projects :
     placed[p].node = n /\ placed[p].slot = s => placed[p].ram = 0}

\* Mutant: the range's end is taken as its width.
FreeSlotsPastEnd(n) ==
  {s \in 1 .. MaxSlot + 1 : \A p \in Projects : ~(placed[p].node = n /\ placed[p].slot = s)}

FreeSlots(n) ==
  {s \in Slots : \A p \in Projects : ~(placed[p].node = n /\ placed[p].slot = s)}

-----------------------------------------------------------------------------
(* Transactions *)

At(w, op, pc) == tx[w].op = op /\ tx[w].pc = pc
Step(w, t) == tx' = [tx EXCEPT ![w] = t]

\* COMMIT with nothing written, ROLLBACK, or the connection's end: the locks go.
Unlocked(lock, w) == [x \in DOMAIN lock |-> IF lock[x] = w THEN None ELSE lock[x]]
End(w) ==
  /\ Step(w, NoTx)
  /\ nodeLock' = Unlocked(nodeLock, w)
  /\ rowLock' = Unlocked(rowLock, w)

LockNode(w, n) == nodeLock[n] = None /\ nodeLock' = [nodeLock EXCEPT ![n] = w]
LockRow(w, p) == rowLock[p] \in {None, w} /\ rowLock' = [rowLock EXCEPT ![p] = w]

\* A saga step begins its transaction.  Nothing in these functions keeps two jobs of a
\* project apart; Apart is what their callers are trusted with, {op} or {op1, op2}.
Start(w, op, p) ==
  /\ tx[w].pc = "idle"
  /\ \A v \in Workers : tx[v].pc # "idle" /\ tx[v].p = p => {op, tx[v].op} \notin Apart
  /\ Step(w, [NoTx EXCEPT !.pc = "begin", !.op = op, !.p = p])
  /\ UNCHANGED <<reserved, active, placed, nodeLock, rowLock>>

\* A query fails, Postgres picks the transaction as a deadlock's victim, the worker dies.
Abort(w) ==
  /\ tx[w].pc # "idle"
  /\ End(w)
  /\ UNCHANGED <<reserved, active, placed>>

-----------------------------------------------------------------------------
(* allocateNode *)

\* A row from an earlier attempt is returned as it is.
FindExisting(w) ==
  /\ At(w, "allocate", "begin")
  /\ IF HasRow(tx[w].p)
     THEN End(w)
     ELSE Step(w, [tx[w] EXCEPT !.pc = "rank"]) /\ UNCHANGED <<nodeLock, rowLock>>
  /\ UNCHANGED <<reserved, active, placed>>

Ranking == [n \in Nodes |-> Cardinality({m \in Nodes : Before(m, n)})]

\* pickNode's first pass, without a lock; NoCapacityError when nothing fits.
Rank(w) ==
  LET fitting == {n \in active : Fits(n, tx[w].p)}
  IN /\ At(w, "allocate", "rank")
     /\ IF fitting = {}
        THEN End(w)
        ELSE /\ Step(w, [tx[w] EXCEPT !.pc = "try", !.left = fitting, !.rank = Ranking])
             /\ UNCHANGED <<nodeLock, rowLock>>
     /\ UNCHANGED <<reserved, active, placed>>

\* The second pass: lock the next candidate, take it if it is good, else keep looking
\* (and keep the lock: it goes only with the transaction).
TryIf(w, good(_)) ==
  /\ At(w, "allocate", "try")
  /\ \E n \in tx[w].left :
       /\ \A m \in tx[w].left : tx[w].rank[n] <= tx[w].rank[m]
       /\ LockNode(w, n)
       /\ LET t == [tx[w] EXCEPT !.left = @ \ {n}]
          IN Step(w, IF good(n) THEN [t EXCEPT !.at = n, !.pc = "insert"] ELSE t)
  /\ UNCHANGED <<reserved, active, placed, rowLock>>

\* Mutant: the candidate is not read again under its lock.
TryUnchecked(w) == LET good(n) == TRUE IN TryIf(w, good)

Try(w) == LET good(n) == n \in active /\ Fits(n, tx[w].p) IN TryIf(w, good)

\* NoCapacityError: every candidate was lost to a concurrent transaction.
OutOfCandidates(w) ==
  /\ At(w, "allocate", "try")
  /\ tx[w].left = {}
  /\ End(w)
  /\ UNCHANGED <<reserved, active, placed>>

\* Lowest free ports, read under the node's lock; NoPortsError ends the transaction,
\* as does UNIQUE (project_id) when a rival inserted the row first.
Insert(w) ==
  /\ At(w, "allocate", "insert")
  /\ IF FreeSlots(tx[w].at) = {} \/ (rowLock[tx[w].p] = None /\ HasRow(tx[w].p))
     THEN End(w)
     ELSE /\ LockRow(w, tx[w].p)
          /\ \E s \in FreeSlots(tx[w].at) :
               /\ \A t \in FreeSlots(tx[w].at) : s <= t
               /\ Step(w, [tx[w] EXCEPT !.slot = s, !.pc = "commit"])
          /\ UNCHANGED nodeLock
  /\ UNCHANGED <<reserved, active, placed>>

-----------------------------------------------------------------------------
(* releaseNode, releaseRam *)

\* DELETE ... RETURNING, or SELECT ... FOR UPDATE of a row with RAM booked: it waits for
\* the row it matches; a transaction that matches none is over.
Releasable(w) ==
  HasRow(tx[w].p) /\ (tx[w].op = "releaseRam" => placed[tx[w].p].ram > 0)

TakeRow(w) ==
  LET p == tx[w].p
  IN /\ tx[w].op \in {"releaseNode", "releaseRam"} /\ tx[w].pc = "begin"
     /\ IF Releasable(w)
        THEN /\ LockRow(w, p)
             /\ Step(w, [tx[w] EXCEPT !.pc = "node", !.at = placed[p].node,
                                        !.ram = placed[p].ram])
             /\ UNCHANGED nodeLock
        ELSE End(w)
     /\ UNCHANGED <<reserved, active, placed>>

\* UPDATE nodes waits for the node's row.
CreditNode(w) ==
  /\ tx[w].op \in {"releaseNode", "releaseRam"} /\ tx[w].pc = "node"
  /\ LockNode(w, tx[w].at)
  /\ Step(w, [tx[w] EXCEPT !.pc = "commit"])
  /\ UNCHANGED <<reserved, active, placed, rowLock>>

-----------------------------------------------------------------------------
(* bookRam *)

\* The statement's snapshot: FOR UPDATE OF n waits for the node and reads it again,
\* but the project_databases row stays as it was when the statement began.
ReadBooking(w) ==
  LET p == tx[w].p
  IN /\ At(w, "bookRam", "begin")
     /\ IF HasRow(p)
        THEN /\ Step(w, [tx[w] EXCEPT !.pc = "node", !.at = placed[p].node,
                                        !.ram = placed[p].ram])
             /\ UNCHANGED <<nodeLock, rowLock>>
        ELSE End(w)
     /\ UNCHANGED <<reserved, active, placed>>

\* Already booked: nothing to do.  No room under the stop: NoCapacityError.
LockBooking(w) ==
  LET n == tx[w].at
  IN /\ At(w, "bookRam", "node")
     /\ nodeLock[n] = None
     /\ IF tx[w].ram = 0 /\ Stop[n].ram - reserved[n].ram >= Ram[tx[w].p]
        THEN /\ LockNode(w, n)
             /\ Step(w, [tx[w] EXCEPT !.pc = "row"])
             /\ UNCHANGED rowLock
        ELSE End(w)
     /\ UNCHANGED <<reserved, active, placed>>

Book(w) ==
  /\ At(w, "bookRam", "row")
  /\ LockRow(w, tx[w].p)
  /\ Step(w, [tx[w] EXCEPT !.pc = "commit"])
  /\ UNCHANGED <<reserved, active, placed, nodeLock>>

-----------------------------------------------------------------------------
(* COMMIT *)

Minus(a, b) == IF b <= a THEN a - b ELSE 0      \* GREATEST(0, a - b)

\* Mutant: the credit is what the plan would book.
FreedByPlan(w) == Ram[tx[w].p]

Freed(w) == tx[w].ram

Commit(w) ==
  LET p == tx[w].p
      n == tx[w].at
      r == reserved[n]
      Write(row, ram, disk) ==
        /\ placed' = [placed EXCEPT ![p] = row]
        /\ reserved' = [reserved EXCEPT ![n] = [ram |-> ram, disk |-> disk]]
  IN /\ tx[w].pc = "commit"
     /\ CASE tx[w].op = "allocate" ->
               Write([node |-> n, slot |-> tx[w].slot, ram |-> Ram[p]],
                     r.ram + Ram[p], r.disk + Disk[p])
          [] tx[w].op = "releaseNode" ->
               Write(Absent, Minus(r.ram, Freed(w)), Minus(r.disk, Disk[p]))
          [] tx[w].op = "releaseRam" ->
               Write([placed[p] EXCEPT !.ram = 0], Minus(r.ram, Freed(w)), r.disk)
          [] tx[w].op = "bookRam" ->
               Write(IF HasRow(p) THEN [placed[p] EXCEPT !.ram = Ram[p]] ELSE Absent,
                     r.ram + Ram[p], r.disk)
     /\ End(w)
     /\ UNCHANGED active

\* The disk scan or an operator cordons a node, an operator brings it back: an UPDATE
\* of the node's row.
Cordon(n) ==
  /\ nodeLock[n] = None
  /\ active' = IF n \in active THEN active \ {n} ELSE active \cup {n}
  /\ UNCHANGED <<reserved, placed, nodeLock, rowLock, tx>>

-----------------------------------------------------------------------------
(* The reconciler's arithmetic: three statements, each a transaction of its own *)

Moves(n, t) ==
  /\ pass' = [pass EXCEPT ![n] = t]
  /\ UNCHANGED <<active, placed, nodeLock, rowLock, tx>>

ReadCounter(n) ==
  /\ pass[n].pc = "idle"
  /\ Moves(n, [pc |-> "rows", was |-> reserved[n].ram, rows |-> {}])
  /\ UNCHANGED reserved

\* The rows on the node, each at its plan's booking whether the project has one or not.
Tally(rows) == SumFunctionOnSet(Ram, rows)
RowsOn(n) == {p \in Projects : placed[p].node = n}

CompareIf(n, drifted(_, _)) ==
  /\ pass[n].pc = "rows"
  /\ Moves(n, IF drifted(Tally(RowsOn(n)), pass[n].was)
              THEN [pass[n] EXCEPT !.pc = "repair", !.rows = RowsOn(n)]
              ELSE NoPass)
  /\ UNCHANGED reserved

\* Mutant: only capacity "the node has but will not use" is given back.
CompareForLeaks(n) == LET drifted(sum, was) == sum < was IN CompareIf(n, drifted)

Compare(n) == LET drifted(sum, was) == sum # was IN CompareIf(n, drifted)

\* The UPDATE waits for the node's row; CHECK (ram_reserved_mb <= ram_total_mb) refuses a
\* sum above the node's RAM, and the pass ends there.
Repair(n) ==
  /\ pass[n].pc = "repair"
  /\ nodeLock[n] = None
  /\ reserved' = IF Tally(pass[n].rows) \in 0 .. RamTotal[n]
                 THEN [reserved EXCEPT ![n].ram = Tally(pass[n].rows)]
                 ELSE reserved
  /\ Moves(n, NoPass)

Reconcile(n) == ReadCounter(n) \/ Compare(n) \/ Repair(n)

-----------------------------------------------------------------------------
(* The specification *)

Next ==
  \/ /\ \/ \E w \in Workers :
              \/ \E op \in Ops, p \in Projects : Start(w, op, p)
              \/ FindExisting(w) \/ Rank(w) \/ Try(w) \/ OutOfCandidates(w) \/ Insert(w)
              \/ TakeRow(w) \/ CreditNode(w)
              \/ ReadBooking(w) \/ LockBooking(w) \/ Book(w)
              \/ Commit(w) \/ Abort(w)
        \/ \E n \in Nodes : Cordon(n)
     /\ UNCHANGED pass
  \/ \E n \in Reconciles : Reconcile(n)

Spec == Init /\ [][Next]_vars

\* The reconciler's timer comes round and its pass goes on.
FairSpec == Spec /\ \A n \in Reconciles : WF_vars(Reconcile(n))

-----------------------------------------------------------------------------
(* Properties *)

Locations == {"idle", "begin", "rank", "try", "insert", "node", "row", "commit"}

\* Every variable has its type.
TypeOK ==
  /\ reserved \in [Nodes -> Amounts]
  /\ active \subseteq Nodes
  /\ placed \in [Projects -> [node : Nodes \cup {None}, slot : Slots \cup {None}, ram : Nat]]
  /\ nodeLock \in [Nodes -> Workers \cup {None}]
  /\ rowLock \in [Projects -> Workers \cup {None}]
  /\ tx \in [Workers -> [pc : Locations, op : Ops, p : Projects \cup {None},
                         at : Nodes \cup {None}, slot : Slots \cup {None}, ram : Nat,
                         left : SUBSET Nodes, rank : [Nodes -> Nat]]]
  /\ pass \in [Nodes -> [pc : {"idle", "rows", "repair"}, was : Nat, rows : SUBSET Projects]]

\* What the rows on a node say is booked there.
Booked(n) == SumFunctionOnSet([p \in Projects |-> placed[p].ram], RowsOn(n))

\* A node's counters are the sums of what the projects on it have booked, whatever
\* placements, pauses, resumes and purges ran side by side and whichever failed half way.
\* A paused project books no RAM and keeps its disk.
Accounted ==
  \A n \in Nodes :
    /\ reserved[n].ram = Booked(n)
    /\ reserved[n].disk = SumFunctionOnSet(Disk, RowsOn(n))

\* Two transactions racing for the last room on a node never both get it, whether they
\* place, resume or both.
NotOversold == \A n \in Nodes : reserved[n].ram <= Stop[n].ram /\ reserved[n].disk <= Stop[n].disk

\* No two projects of a node share a port, paused ones included.
SlotsDistinct ==
  \A p, q \in Projects :
    HasRow(p) /\ placed[p].node = placed[q].node /\ placed[p].slot = placed[q].slot => p = q

\* No project lands on a node that was cordoned before the placement committed.
CordonRespected ==
  [][\A p \in Projects : ~HasRow(p) /\ HasRow(p)' => placed'[p].node \in active]_vars

\* A pass that races an allocation writes a sum that is already out of date.  Once the jobs
\* have stopped, a later pass makes the counter right again, on a node none of whose
\* projects is paused (and whose bookings fit its RAM).
Exact(n) ==
  \/ reserved[n].ram = Booked(n)
  \/ Tally(RowsOn(n)) > RamTotal[n]
  \/ \E p \in RowsOn(n) : placed[p].ram = 0
RepairConverges ==
  <>[](\A w \in Workers : tx[w].pc = "idle") => <>[](\A n \in Reconciles : Exact(n))

=============================================================================
